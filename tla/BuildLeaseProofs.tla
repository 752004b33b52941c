-------------------------- MODULE BuildLeaseProofs --------------------------
(***************************************************************************)
(* Theorems about BuildLease for any number of callers, requests and lease *)
(* versions, any amounts, and both providers.                              *)
(***************************************************************************)
EXTENDS BuildLease, FiniteSetTheorems, TLAPS

Asking == {"authorizing", "reserving", "expired", "unfit", "closing", "exhausting"}
Sent == {"waiting", "doubting"}
Holding == Asking \cup {"sending"} \cup Sent

(* A call that has an id to reserve under, or has reserved, holds that id; *)
(* a review holds it from its start.                                       *)
HoldsRequest ==
    \A c \in Caller :
        pc[c] \in Holding \/ (Provider # "anthropic" /\ pc[c] # "idle")
            => req[c] \in Request

(* From the reservation to the end of the call there is a row for it. *)
RowWhileSending ==
    \A c \in Caller : pc[c] \in {"sending"} \cup Sent => estatus[req[c]] # "none"

(* Build turns draw ids of their own, and send each of them once. *)
OwnRequest ==
    Provider = "anthropic" =>
        \A c, d \in Caller :
            pc[c] \in Holding /\ pc[d] \in Holding /\ req[c] = req[d] => c = d
NotYetSent ==
    Provider = "anthropic" =>
        \A c \in Caller : pc[c] \in Asking \cup {"sending"} => sends[req[c]] = 0

IInv == TypeOK /\ HoldsRequest /\ RowWhileSending /\ OwnRequest /\ NotYetSent /\ NothingUnrecorded

----------------------------------------------------------------------------
(* Initially every type is right and no call or request exists. *)
LEMMA InitInvariant == Init => IInv
<1> SUFFICES ASSUME Init PROVE IInv
  OBVIOUS
<1>1. LeaseTypes
  BY DEF Init, LeaseTypes, LeaseState
<1>2. EventTypes
  BY LeaseAssumption DEF Init, EventTypes, EventStatus
<1>3. FounderTypes
  <2>1. quarantined \in BOOLEAN
    BY Zenon DEF Init
  <2>2. 0 \in 0..MaxVersion
    BY LeaseAssumption
  <2> QED
    BY <2>1, <2>2 DEF Init, FounderTypes
<1>6. CallTypes
  BY LeaseAssumption DEF Init, CallTypes, PC
<1>7. HistoryTypes
  BY DEF Init, HistoryTypes
<1>4. HoldsRequest /\ RowWhileSending /\ OwnRequest /\ NotYetSent
  BY DEF Init, HoldsRequest, RowWhileSending, OwnRequest, NotYetSent, Holding, Asking, Sent
<1>5. NothingUnrecorded
  BY DEF Init, NothingUnrecorded
<1> QED
  BY <1>1, <1>2, <1>3, <1>4, <1>5, <1>6, <1>7 DEF IInv, TypeOK

----------------------------------------------------------------------------
(* A call that only reads the ledger leaves its rows alone. *)
LEMMA ReadsLeaveRows ==
  ASSUME NEW c \in Caller,
         Dispatch(c) \/ Preflight(c) \/ EndCall(c) \/ Authorize(c) \/ FindRefused(c) \/ Send(c)
  PROVE  UNCHANGED <<leaseVars, late, eventVars, founderVars>>
BY DEF Dispatch, Preflight, EndCall, Authorize, FindRefused, Send

(* No step of a call touches what belongs to the founder. *)
LEMMA CallsLeaveFounder ==
  ASSUME NEW c \in Caller, Call(c)
  PROVE  UNCHANGED founderVars
BY DEF Call, Dispatch, Preflight, EndCall, Expire, Authorize, Reserve, FindRefused, Exhaust,
       ReleaseUnsent, Send, Settle, MarkUncertain

(* No step of the founder touches a call or an event, or what was sent. *)
LEMMA FounderLeavesCalls ==
  ASSUME Founder
  PROVE  UNCHANGED <<callVars, eventVars, meter, sends, answered>>
BY DEF Founder, RequestLease, Deny, CreateLease, CreateForeignLease, UpgradeLease, Resolve,
       SeeExhausted, ReportExhausted, Quarantine, historyVars

(* Returning clears the call. *)
LEMMA ReturnTypes ==
  ASSUME NEW c \in Caller, Return(c), CallTypes
  PROVE  CallTypes'
BY LeaseAssumption DEF Return, CallTypes, PC

----------------------------------------------------------------------------
(* Every step keeps the types of the lease rows. *)
LEMMA LeaseTypesKept ==
  ASSUME TypeOK, HoldsRequest, Next
  PROVE  LeaseTypes'
<1> USE LeaseAssumption, AmountAssumption
<1>1. ASSUME UNCHANGED <<leaseVars, late>> PROVE LeaseTypes'
  BY <1>1 DEF TypeOK, LeaseTypes, leaseVars
<1>2. ASSUME lstate' \in [Version -> LeaseState],
             UNCHANGED <<foreign, limit, turnLimit, actual, reserved, turns, carried, late>>
      PROVE  LeaseTypes'
  BY <1>2 DEF TypeOK, LeaseTypes
<1>3. \A v, s : s \in LeaseState => [lstate EXCEPT ![v] = s] \in [Version -> LeaseState]
  BY DEF TypeOK, LeaseTypes
<1>4. ASSUME NEW c \in Caller, Call(c) PROVE LeaseTypes'
  <2>1. CASE Dispatch(c) \/ Preflight(c) \/ EndCall(c) \/ Authorize(c) \/ FindRefused(c) \/ Send(c)
    BY <2>1, <1>1, ReadsLeaveRows
  <2>2. CASE Expire(c)
    BY <2>2, <1>2, <1>3 DEF Expire, LeaseState, TypeOK, LeaseTypes
  <2>3. CASE Exhaust(c)
    BY <2>3, <1>2, <1>3 DEF Exhaust, LeaseState, OpenState, TypeOK, LeaseTypes
  <2>4. CASE MarkUncertain(c)
    BY <2>4, <1>2, <1>3 DEF MarkUncertain, LeaseState, OpenState, TypeOK, LeaseTypes
  <2>5. CASE Reserve(c)
    <3>1. CASE UNCHANGED leaseVars
      BY <2>5, <3>1, <1>1 DEF Reserve
    <3>2. ASSUME NEW v \in Version, estatus[req[c]] = "none", Insert(req[c], v) PROVE LeaseTypes'
      <4>1. req[c] \in Request /\ Upper[req[c]] \in Nat
        BY <2>5 DEF Reserve, At, HoldsRequest, Holding, Asking
      <4>2. lstate' \in [Version -> LeaseState]
        BY <3>2 DEF Insert, TypeOK, LeaseTypes, LeaseState, OpenState
      <4>3. reserved' \in [Version -> Nat] /\ turns' \in [Version -> Nat]
        BY <3>2, <4>1 DEF Insert, TypeOK, LeaseTypes
      <4> QED
        BY <2>5, <3>2, <4>2, <4>3 DEF Insert, Reserve, TypeOK, LeaseTypes
    <3> QED
      BY <2>5, <3>1, <3>2 DEF Reserve
  <2>6. CASE ReleaseUnsent(c)
    <3>1. req[c] \in Request /\ Upper[req[c]] \in Nat /\ elease[req[c]] \in Version
      BY <2>6 DEF ReleaseUnsent, Unsent, At, HoldsRequest, Holding, TypeOK, EventTypes, Version
    <3> DEFINE v == elease[req[c]]
    <3>2. lstate' \in [Version -> LeaseState]
      BY <2>6, <3>1 DEF ReleaseUnsent, TypeOK, LeaseTypes, LeaseState, OpenState
    <3>3. Released(req[c], v) \in Nat /\ Less(turns[v], 1) \in Nat
      BY <3>1 DEF Released, Less, TypeOK, LeaseTypes
    <3>4. reserved' \in [Version -> Nat] /\ turns' \in [Version -> Nat]
      BY <2>6, <3>1, <3>3 DEF ReleaseUnsent, TypeOK, LeaseTypes
    <3> QED
      BY <2>6, <3>2, <3>4 DEF ReleaseUnsent, leaseVars, TypeOK, LeaseTypes
  <2>7. CASE Settle(c)
    <3>1. CASE UNCHANGED leaseVars
      BY <2>7, <3>1, <1>1 DEF Settle
    <3> DEFINE r == req[c]
               v == elease[r]
    <3>2. ASSUME NEW u \in Nat, NEW s, NEW overage,
                 Settleable(r), SettleRow(r, u, s, overage)
          PROVE  LeaseTypes'
      <4>1. r \in Request /\ Upper[r] \in Nat /\ v \in Version
        BY <2>7, <3>2 DEF Settle, Settleable, Outstanding, At, HoldsRequest, Holding, Sent,
                          TypeOK, EventTypes, Version
      <4>2. SettledState(v, actual[v] + u, overage) \in LeaseState
        BY <4>1 DEF SettledState, TypeOK, LeaseTypes, LeaseState, OpenState
      <4>3. Released(r, v) \in Nat /\ actual[v] + u \in Nat
        BY <4>1 DEF Released, Less, TypeOK, LeaseTypes
      <4>4. lstate' \in [Version -> LeaseState]
        BY <3>2, <4>2, <1>3 DEF SettleRow, TypeOK, LeaseTypes
      <4>5. reserved' \in [Version -> Nat] /\ actual' \in [Version -> Nat]
        BY <3>2, <4>1, <4>3 DEF SettleRow, TypeOK, LeaseTypes
      <4> QED
        BY <2>7, <3>2, <4>4, <4>5 DEF SettleRow, Settle, TypeOK, LeaseTypes
    <3>3. \A known \in BOOLEAN : UsageToSettle(c, known) \in Nat
      BY <2>7 DEF UsageToSettle, Settle, At, HoldsRequest, Holding, Sent, TypeOK, CallTypes
    <3> QED
      BY <2>7, <3>1, <3>2, <3>3 DEF Settle
  <2> QED
    BY <1>4, <2>1, <2>2, <2>3, <2>4, <2>5, <2>6, <2>7 DEF Call
<1>5. CASE RequestLease \/ Deny \/ Resolve \/ SeeExhausted \/ ReportExhausted \/ Restart
  BY <1>5, <1>1 DEF RequestLease, Deny, Resolve, SeeExhausted, ReportExhausted, Restart
<1>6. CASE CreateLease
  BY <1>6 DEF CreateLease, TypeOK, LeaseTypes, LeaseState, OpenState
<1>7. CASE CreateForeignLease
  BY <1>7 DEF CreateForeignLease, TypeOK, LeaseTypes
<1>8. CASE UpgradeLease
  <2>1. CASE UNCHANGED leaseVars
    BY <1>8, <2>1, <1>1 DEF UpgradeLease
  <2>2. CASE ~UNCHANGED leaseVars
    <3>1. PICK u \in Version :
            /\ u + 1 \in Version
            /\ lstate' = [lstate EXCEPT ![u] = "superseded", ![u + 1] = "active"]
            /\ limit' = [limit EXCEPT ![u + 1] = limit[u] + Grant]
            /\ turnLimit' = [turnLimit EXCEPT ![u + 1] = turnLimit[u] + TurnGrant]
            /\ reserved' = [reserved EXCEPT ![u + 1] = Usage(u).reserved]
            /\ actual' = [actual EXCEPT ![u + 1] = Usage(u).actual]
            /\ turns' = [turns EXCEPT ![u + 1] = turns[u]]
            /\ carried' = [carried EXCEPT ![u + 1] = Usage(u)]
            /\ UNCHANGED <<foreign, late>>
      BY <1>8, <2>2 DEF UpgradeLease
    <3>2. Usage(u) \in [reserved : Nat, actual : Nat]
      BY DEF Usage, TypeOK, LeaseTypes
    <3>3. lstate' \in [Version -> LeaseState]
      BY <3>1, <1>3 DEF TypeOK, LeaseTypes, LeaseState, OpenState
    <3>4. limit[u] + Grant \in Nat /\ turnLimit[u] + TurnGrant \in Nat
      BY DEF TypeOK, LeaseTypes
    <3> QED
      BY <3>1, <3>2, <3>3, <3>4 DEF TypeOK, LeaseTypes
  <2> QED
    BY <2>1, <2>2
<1>9. CASE Quarantine
  BY <1>9, <1>2 DEF Quarantine, TypeOK, LeaseTypes, LeaseState, OpenState
<1>10. CASE Tick
  BY <1>10 DEF Tick, Written, TypeOK, LeaseTypes, leaseVars
<1> QED
  BY <1>4, <1>5, <1>6, <1>7, <1>8, <1>9, <1>10 DEF Next, Founder

(* Every step keeps the types of the event rows and their lease numbers. *)
LEMMA EventTypesKept ==
  ASSUME TypeOK, HoldsRequest, Next
  PROVE  EventTypes'
<1> USE LeaseAssumption
<1>1. ASSUME UNCHANGED eventVars PROVE EventTypes'
  BY <1>1 DEF TypeOK, EventTypes, eventVars
<1>2. ASSUME NEW c \in Caller, Call(c) PROVE EventTypes'
  <2>1. CASE Dispatch(c) \/ Preflight(c) \/ EndCall(c) \/ Authorize(c) \/ FindRefused(c) \/ Send(c)
    BY <2>1, <1>1, ReadsLeaveRows
  <2>2. CASE Expire(c) \/ Exhaust(c)
    BY <2>2, <1>1 DEF Expire, Exhaust
  <2>3. CASE Reserve(c)
    <3>1. CASE UNCHANGED eventVars
      BY <3>1, <1>1
    <3>2. ASSUME NEW v \in Version, Insert(req[c], v) PROVE EventTypes'
      <4>1. v \in 0..MaxVersion /\ v # 0 /\ turns[v] + 1 \in Nat
        <5>1. v \in 0..MaxVersion /\ v # 0
          BY DEF Version
        <5>2. turns[v] \in Nat
          BY DEF TypeOK, LeaseTypes
        <5> QED
          BY <5>1, <5>2
      <4> QED
        BY <3>2, <4>1 DEF Insert, TypeOK, EventTypes, EventStatus, Outstanding
    <3> QED
      BY <2>3, <3>1, <3>2 DEF Reserve
  <2>4. CASE ReleaseUnsent(c)
    <3>1. Delete(req[c]) /\ 0 \in 0..MaxVersion
      BY <2>4 DEF ReleaseUnsent
    <3> QED
      BY <3>1 DEF Delete, TypeOK, EventTypes, EventStatus
  <2>5. CASE Settle(c)
    <3>1. CASE UNCHANGED eventVars
      BY <3>1, <1>1
    <3>2. ASSUME NEW u, NEW overage, Settleable(req[c]),
                 NEW s \in {"conservative_settlement", "provider_overage", "settled"},
                 SettleRow(req[c], u, s, overage)
          PROVE  EventTypes'
      BY <3>2 DEF SettleRow, Settleable, Outstanding, TypeOK, EventTypes, EventStatus
    <3> QED
      BY <2>5, <3>1, <3>2 DEF Settle
  <2>6. CASE MarkUncertain(c)
    <3>1. CASE UNCHANGED eventVars
      BY <3>1, <1>1
    <3>2. CASE /\ estatus[req[c]] = "reserved"
               /\ estatus' = [estatus EXCEPT ![req[c]] = "uncertain_spend"]
               /\ UNCHANGED <<elease, eturn>>
      BY <3>2 DEF TypeOK, EventTypes, EventStatus, Outstanding
    <3> QED
      BY <2>6, <3>1, <3>2 DEF MarkUncertain, eventVars
  <2> QED
    BY <1>2, <2>1, <2>2, <2>3, <2>4, <2>5, <2>6 DEF Call
<1>3. CASE Founder
  BY <1>3, <1>1, FounderLeavesCalls
<1>4. CASE Tick \/ Restart
  BY <1>4, <1>1 DEF Tick, Restart
<1> QED
  BY <1>2, <1>3, <1>4 DEF Next

(* Every step keeps the types of the founder's state. *)
LEMMA FounderTypesKept ==
  ASSUME TypeOK, Next
  PROVE  FounderTypes'
<1>0. 0 \in 0..MaxVersion /\ Version \subseteq 0..MaxVersion
  BY LeaseAssumption DEF Version
<1>1. ASSUME UNCHANGED founderVars PROVE FounderTypes'
  BY <1>1 DEF TypeOK, FounderTypes, founderVars
<1>2. ASSUME NEW c \in Caller, Call(c) PROVE FounderTypes'
  BY <1>1, <1>2, CallsLeaveFounder
<1>3. CASE CreateForeignLease \/ Tick
  BY <1>3, <1>1 DEF CreateForeignLease, Tick
<1>4. quarantined' \in BOOLEAN
  <2>1. CASE UNCHANGED quarantined
    BY <2>1 DEF TypeOK, FounderTypes
  <2>2. CASE Quarantine
    BY <2>2, Zenon DEF Quarantine
  <2>3. CASE Founder /\ ~Quarantine
    BY <2>3, <2>1 DEF Founder, RequestLease, Deny, CreateLease, CreateForeignLease,
                      UpgradeLease, Resolve, SeeExhausted, ReportExhausted, founderVars
  <2>4. CASE Tick \/ Restart
    BY <2>4, <2>1 DEF Tick, Restart, founderVars
  <2>5. ASSUME NEW c \in Caller, Call(c) PROVE quarantined' \in BOOLEAN
    BY <2>1, <2>5, CallsLeaveFounder DEF founderVars
  <2> QED
    BY <2>2, <2>3, <2>4, <2>5 DEF Next
<1>5. ASSUME asked' \subseteq {"lease", "upgrade"}, resolving' \subseteq {"lease", "upgrade"},
             seen' \in 0..MaxVersion, reported' \in 0..MaxVersion
      PROVE  FounderTypes'
  BY <1>4, <1>5 DEF FounderTypes
<1>6. CASE RequestLease \/ Deny
  BY <1>6, <1>5 DEF RequestLease, Deny, TypeOK, FounderTypes
<1>7. CASE CreateLease \/ Resolve
  BY <1>7, <1>5 DEF CreateLease, Resolve, TypeOK, FounderTypes
<1>8. CASE UpgradeLease
  BY <1>8, <1>5 DEF UpgradeLease, TypeOK, FounderTypes
<1>9. CASE SeeExhausted \/ ReportExhausted
  BY <1>0, <1>9, <1>5 DEF SeeExhausted, ReportExhausted, TypeOK, FounderTypes
<1>10. CASE Quarantine
  BY <1>10, <1>5 DEF Quarantine, TypeOK, FounderTypes
<1>11. CASE Restart
  BY <1>0, <1>11, <1>5 DEF Restart, TypeOK, FounderTypes
<1> QED
  BY <1>2, <1>3, <1>6, <1>7, <1>8, <1>9, <1>10, <1>11 DEF Next, Founder

(* Every step keeps the types of the calls. *)
LEMMA CallTypesKept ==
  ASSUME TypeOK, HoldsRequest, Next
  PROVE  CallTypes'
<1> USE LeaseAssumption
<1> CallTypes
  BY DEF TypeOK
<1>1. ASSUME NEW c \in Caller, NEW l \in PC, Goto(c, l), UNCHANGED <<held, req, target, cost>>
      PROVE  CallTypes'
  BY <1>1 DEF Goto, CallTypes
<1>2. ASSUME NEW c \in Caller, Call(c) PROVE CallTypes'
  <2>1. CASE Dispatch(c)
    BY <2>1 DEF Dispatch, Goto, CallTypes, PC, Version
  <2>2. CASE Preflight(c)
    BY <2>2 DEF Preflight, Goto, CallTypes, PC, Version
  <2>3. CASE EndCall(c) \/ Expire(c) \/ Exhaust(c) \/ ReleaseUnsent(c) \/ MarkUncertain(c)
    BY <2>3, ReturnTypes DEF EndCall, Expire, Exhaust, ReleaseUnsent, MarkUncertain
  <2>4. CASE Authorize(c)
    BY <2>4, <1>1, ReturnTypes DEF Authorize, PC
  <2>5. CASE Reserve(c)
    BY <2>5, <1>1, ReturnTypes DEF Reserve, PC
  <2>6. CASE FindRefused(c)
    <3>1. CASE Return(c)
      BY <3>1, ReturnTypes
    <3>2. ASSUME NEW v \in Version, NEW l \in PC, Goto(c, l),
                 target' = [target EXCEPT ![c] = v], UNCHANGED <<held, req, cost>>
          PROVE  CallTypes'
      BY <3>2 DEF Goto, CallTypes, Version
    <3> QED
      BY <2>6, <3>1, <3>2 DEF FindRefused, PC
  <2>7. CASE Send(c)
    BY <2>7, AmountAssumption DEF Send, Goto, CallTypes, PC
  <2>8. CASE Settle(c)
    <3>1. CASE Return(c)
      BY <3>1, ReturnTypes
    <3>2. CASE Goto(c, "doubting") /\ UNCHANGED <<held, req, target, cost>>
      BY <3>2, <1>1 DEF PC
    <3>3. CASE /\ Goto(c, "dispatched")
               /\ req' = [req EXCEPT ![c] = NoRequest]
               /\ cost' = [cost EXCEPT ![c] = 0]
               /\ UNCHANGED <<held, target>>
      BY <3>3 DEF Goto, CallTypes, PC
    <3> QED
      BY <2>8, <3>1, <3>2, <3>3 DEF Settle
  <2> QED
    BY <1>2, <2>1, <2>2, <2>3, <2>4, <2>5, <2>6, <2>7, <2>8 DEF Call
<1>3. CASE UNCHANGED callVars
  BY <1>3 DEF CallTypes, callVars
<1>4. CASE Founder \/ Tick
  BY <1>4, <1>3, FounderLeavesCalls DEF Tick
<1>5. CASE Restart
  BY <1>5 DEF Restart, CallTypes, PC
<1> QED
  BY <1>2, <1>4, <1>5 DEF Next

(* Every step keeps the types of the history. *)
LEMMA HistoryTypesKept ==
  ASSUME TypeOK, HoldsRequest, Next
  PROVE  HistoryTypes'
<1> HistoryTypes
  BY DEF TypeOK
<1>1. ASSUME UNCHANGED <<meter, sends, answered>> PROVE HistoryTypes'
  BY <1>1 DEF HistoryTypes
<1>2. ASSUME UNCHANGED historyVars PROVE HistoryTypes'
  BY <1>2 DEF HistoryTypes, historyVars
<1>3. ASSUME NEW c \in Caller, Call(c) PROVE HistoryTypes'
  <2>1. CASE Dispatch(c) \/ Preflight(c) \/ EndCall(c) \/ Expire(c) \/ Authorize(c)
             \/ FindRefused(c) \/ ReleaseUnsent(c)
    BY <2>1, <1>2 DEF Dispatch, Preflight, EndCall, Expire, Authorize, FindRefused, ReleaseUnsent
  <2>2. CASE Reserve(c)
    BY <2>2, <1>1 DEF Reserve, HistoryTypes
  <2>3. CASE Exhaust(c) \/ MarkUncertain(c)
    BY <2>3, <1>1 DEF Exhaust, MarkUncertain, HistoryTypes
  <2>4. CASE Send(c)
    <3>1. req[c] \in Request
      BY <2>4 DEF Send, At, HoldsRequest, Holding
    <3>2. PICK b \in Bill : meter' = [meter EXCEPT ![req[c]] = @ + b]
      BY <2>4 DEF Send
    <3>3. meter' \in [Request -> Nat] /\ sends' \in [Request -> Nat]
      BY <2>4, <3>1, <3>2, AmountAssumption DEF Send, HistoryTypes
    <3> QED
      BY <2>4, <3>3 DEF Send, HistoryTypes
  <2>5. CASE Settle(c)
    <3>1. answered' \subseteq Request
      BY <2>5 DEF Settle, At, HoldsRequest, Holding, Sent, HistoryTypes
    <3> QED
      BY <2>5, <3>1 DEF Settle, HistoryTypes
  <2> QED
    BY <1>3, <2>1, <2>2, <2>3, <2>4, <2>5 DEF Call
<1>4. CASE Founder
  BY <1>4, <1>1, FounderLeavesCalls
<1>5. CASE Tick \/ Restart
  BY <1>5, <1>2 DEF Tick, Restart
<1> QED
  BY <1>3, <1>4, <1>5 DEF Next

(* Every step keeps all the types. *)
LEMMA TypeStep ==
  ASSUME TypeOK, HoldsRequest, [Next]_vars
  PROVE  TypeOK'
<1>1. CASE Next
  BY <1>1, LeaseTypesKept, EventTypesKept, FounderTypesKept, CallTypesKept, HistoryTypesKept
     DEF TypeOK
<1>2. CASE UNCHANGED vars
  BY <1>2 DEF vars, TypeOK, LeaseTypes, EventTypes, FounderTypes, CallTypes, HistoryTypes
<1> QED
  BY <1>1, <1>2

----------------------------------------------------------------------------
(* What one call does to its own label and request id, and that it leaves  *)
(* those of the others alone.                                              *)
LEMMA OthersStay ==
  ASSUME TypeOK, NEW c \in Caller, Call(c), NEW d \in Caller \ {c}
  PROVE  pc'[d] = pc[d] /\ req'[d] = req[d]
BY DEF TypeOK, CallTypes, Call, Dispatch, Preflight, EndCall, Expire, Authorize, Reserve,
       FindRefused, Exhaust, ReleaseUnsent, Send, Settle, MarkUncertain, Goto, Return

(* A call that still holds an id after a step held the same id before it,  *)
(* unless the step was the preflight that drew it (or the start of a       *)
(* review).                                                                *)
LEMMA IdStays ==
  ASSUME TypeOK, NEW c \in Caller, Call(c), pc'[c] \in Holding, ~Preflight(c)
  PROVE  req'[c] = req[c] /\ pc[c] \in Holding
BY DEF TypeOK, CallTypes, Call, Dispatch, EndCall, Expire, Authorize, Reserve, FindRefused,
       Exhaust, ReleaseUnsent, Send, Settle, MarkUncertain, Goto, Return, At, Holding, Asking,
       Sent, Unsent

(* Every step keeps the id of a call that is past its preflight. *)
LEMMA HoldsRequestKept ==
  ASSUME IInv, [Next]_vars
  PROVE  HoldsRequest'
<1> USE DEF IInv
<1>1. ASSUME NEW c \in Caller, Call(c) PROVE HoldsRequest'
  <2> SUFFICES ASSUME NEW d \in Caller,
                      pc'[d] \in Holding \/ (Provider # "anthropic" /\ pc'[d] # "idle")
               PROVE  req'[d] \in Request
    BY DEF HoldsRequest
  <2>1. CASE d # c
    BY <1>1, <2>1, OthersStay DEF HoldsRequest
  <2>2. CASE d = c /\ Preflight(c)
    BY <2>2 DEF Preflight, At, Goto, HoldsRequest, TypeOK, CallTypes, Holding, Asking, Sent
  <2>3. CASE d = c /\ ~Preflight(c) /\ pc'[c] \in Holding
    BY <1>1, <2>3, IdStays DEF HoldsRequest
  <2>4. CASE d = c /\ ~Preflight(c) /\ pc'[c] \notin Holding
    <3>1. Provider # "anthropic" /\ pc'[c] # "idle"
      BY <2>4
    <3>2. Dispatch(c)
      BY <1>1, <2>4, <3>1 DEF Call, EndCall, Expire, Authorize, Reserve, FindRefused, Exhaust,
            ReleaseUnsent, Send, Settle, MarkUncertain, Goto, Return, TypeOK, CallTypes, Holding,
            Asking, Sent
    <3> QED
      BY <3>1, <3>2, <2>4 DEF Dispatch, TypeOK, CallTypes
  <2> QED
    BY <2>1, <2>2, <2>3, <2>4
<1>2. CASE UNCHANGED callVars
  BY <1>2 DEF HoldsRequest, callVars
<1>3. CASE Founder \/ Tick \/ UNCHANGED vars
  BY <1>3, <1>2, FounderLeavesCalls DEF Tick, vars, callVars
<1>4. CASE Restart
  BY <1>4 DEF Restart, HoldsRequest, Holding, Asking, Sent
<1> QED
  BY <1>1, <1>3, <1>4 DEF Next

(* Rows disappear only through the release of an unsent build turn. *)
LEMMA RowsStay ==
  ASSUME TypeOK, NEW c \in Caller, Call(c), NEW r \in Request,
         estatus[r] # "none", estatus'[r] = "none"
  PROVE  ReleaseUnsent(c) /\ r = req[c]
<1>1. CASE Dispatch(c) \/ Preflight(c) \/ EndCall(c) \/ Authorize(c) \/ FindRefused(c) \/ Send(c)
  BY <1>1, ReadsLeaveRows DEF eventVars
<1>2. CASE Expire(c) \/ Exhaust(c)
  BY <1>2 DEF Expire, Exhaust, eventVars
<1>3. CASE Reserve(c)
  BY <1>3 DEF Reserve, Insert, eventVars, TypeOK, EventTypes
<1>4. CASE Settle(c) \/ MarkUncertain(c)
  BY <1>4 DEF Settle, SettleRow, MarkUncertain, eventVars, TypeOK, EventTypes
<1>5. CASE ReleaseUnsent(c)
  BY <1>5 DEF ReleaseUnsent, Delete, TypeOK, EventTypes
<1> QED
  BY <1>1, <1>2, <1>3, <1>4, <1>5 DEF Call

(* Every step keeps the row of a call that is sending. *)
LEMMA RowWhileSendingKept ==
  ASSUME IInv, [Next]_vars
  PROVE  RowWhileSending'
<1> USE DEF IInv
<1> DEFINE Late == {"sending"} \cup Sent
<1>1. ASSUME NEW c \in Caller, Call(c) PROVE RowWhileSending'
  <2> SUFFICES ASSUME NEW d \in Caller, pc'[d] \in Late PROVE estatus'[req'[d]] # "none"
    BY DEF RowWhileSending
  <2>1. ASSUME pc[d] \in Late, req'[d] = req[d] PROVE estatus'[req'[d]] # "none"
    <3>1. req[d] \in Request /\ estatus[req[d]] # "none"
      BY <2>1 DEF HoldsRequest, RowWhileSending, Holding
    <3>2. SUFFICES ASSUME estatus'[req[d]] = "none" PROVE FALSE
      BY <2>1
    <3>3. ReleaseUnsent(c) /\ req[d] = req[c]
      BY <1>1, <3>1, <3>2, RowsStay
    <3>4. pc[c] \in Holding /\ pc[d] \in Holding /\ Provider = "anthropic"
      BY <2>1, <3>3 DEF ReleaseUnsent, Unsent, At, Holding
    <3>5. c = d
      BY <3>3, <3>4 DEF OwnRequest
    <3> QED
      BY <3>3, <3>5 DEF ReleaseUnsent, Return, TypeOK, CallTypes, Sent
  <2>2. CASE d # c
    BY <1>1, <2>1, <2>2, OthersStay
  <2>3. CASE d = c /\ Reserve(c)
    <3>1. req[c] \in Request /\ req'[c] = req[c]
      BY <2>3 DEF Reserve, At, HoldsRequest, Holding, Asking, Return, Goto, TypeOK, CallTypes, Sent
    <3> QED
      BY <2>3, <3>1 DEF Reserve, Insert, Return, Goto, eventVars, TypeOK, CallTypes, EventTypes, Sent
  <2>4. CASE d = c /\ ~Reserve(c)
    <3>1. pc[c] \in Late
      BY <1>1, <2>4 DEF Call, Dispatch, Preflight, EndCall, Expire, Authorize, FindRefused, Exhaust,
            ReleaseUnsent, Send, Settle, MarkUncertain, Goto, Return, At, TypeOK, CallTypes, Sent
    <3>2. ~Preflight(c)
      BY <3>1 DEF Preflight, At, Sent
    <3> QED
      BY <1>1, <2>1, <2>4, <3>1, <3>2, IdStays DEF Holding
  <2> QED
    BY <2>2, <2>3, <2>4
<1>2. CASE UNCHANGED <<callVars, eventVars>>
  BY <1>2 DEF RowWhileSending, callVars, eventVars
<1>3. CASE Founder \/ Tick \/ UNCHANGED vars
  BY <1>3, <1>2, FounderLeavesCalls DEF Tick, vars, callVars, eventVars
<1>4. CASE Restart
  BY <1>4 DEF Restart, RowWhileSending, Sent
<1> QED
  BY <1>1, <1>3, <1>4 DEF Next

(* Every step keeps the ids of build turns apart: a preflight draws one    *)
(* that no call holds.                                                     *)
LEMMA OwnRequestKept ==
  ASSUME IInv, [Next]_vars
  PROVE  OwnRequest'
<1> USE DEF IInv
<1>1. ASSUME NEW c \in Caller, Call(c) PROVE OwnRequest'
  <2> SUFFICES ASSUME Provider = "anthropic", NEW d \in Caller, NEW e \in Caller, d # e,
                      pc'[d] \in Holding, pc'[e] \in Holding, req'[d] = req'[e]
               PROVE  FALSE
    BY DEF OwnRequest
  <2>1. CASE ~Preflight(c)
    <3>1. \A x \in {d, e} : req'[x] = req[x] /\ pc[x] \in Holding
      BY <1>1, <2>1, OthersStay, IdStays
    <3> QED
      BY <3>1 DEF OwnRequest
  <2>2. CASE Preflight(c)
    <3>1. pc'[c] \in Holding => \A x \in Caller : req[x] # req'[c]
      BY <2>2 DEF Preflight, Goto, TypeOK, CallTypes, Holding, Asking, Sent
    <3> QED
      BY <1>1, <3>1, OthersStay DEF OwnRequest
  <2> QED
    BY <2>1, <2>2
<1>2. CASE UNCHANGED callVars
  BY <1>2 DEF OwnRequest, callVars
<1>3. CASE Founder \/ Tick \/ UNCHANGED vars
  BY <1>3, <1>2, FounderLeavesCalls DEF Tick, vars, callVars
<1>4. CASE Restart
  BY <1>4 DEF Restart, OwnRequest, Holding, Asking, Sent
<1> QED
  BY <1>1, <1>3, <1>4 DEF Next

(* Every step keeps the ids of build turns that have not sent unsent. *)
LEMMA NotYetSentKept ==
  ASSUME IInv, [Next]_vars
  PROVE  NotYetSent'
<1> USE DEF IInv
<1> DEFINE Early == Asking \cup {"sending"}
<1>1. ASSUME NEW c \in Caller, Call(c) PROVE NotYetSent'
  <2> SUFFICES ASSUME Provider = "anthropic", NEW d \in Caller, pc'[d] \in Early
               PROVE  sends'[req'[d]] = 0
    BY DEF NotYetSent
  <2>1. CASE Send(c)
    <3>1. d # c
      BY <2>1 DEF Send, Goto, TypeOK, CallTypes, Asking
    <3>2. pc[d] \in Early /\ req'[d] = req[d] /\ pc[c] \in Holding
      BY <1>1, <2>1, <3>1, OthersStay DEF Send, At, Holding
    <3>3. req[d] # req[c] /\ req[d] \in Request /\ sends[req[d]] = 0
      BY <3>1, <3>2 DEF OwnRequest, HoldsRequest, NotYetSent, Holding
    <3> QED
      BY <2>1, <3>2, <3>3 DEF Send, TypeOK, HistoryTypes
  <2>2. CASE ~Send(c)
    <3>1. UNCHANGED sends
      BY <1>1, <2>2 DEF Call, Dispatch, Preflight, EndCall, Expire, Authorize, Reserve, FindRefused,
            Exhaust, ReleaseUnsent, Settle, MarkUncertain, historyVars
    <3>2. CASE d # c
      BY <1>1, <3>1, <3>2, OthersStay DEF NotYetSent
    <3>3. CASE d = c /\ Preflight(c)
      BY <3>1, <3>3 DEF Preflight, Goto, TypeOK, CallTypes, Asking
    <3>4. CASE d = c /\ ~Preflight(c)
      <4>1. req'[c] = req[c]
        BY <1>1, <3>4, IdStays DEF Holding
      <4>2. pc[c] \in Early
        BY <1>1, <3>4, <2>2 DEF Call, Dispatch, EndCall, Expire, Authorize, Reserve, FindRefused,
            Exhaust, ReleaseUnsent, Settle, MarkUncertain, Goto, Return, At, TypeOK, CallTypes,
            Asking
      <4> QED
        BY <3>1, <3>4, <4>1, <4>2 DEF NotYetSent
    <3> QED
      BY <3>2, <3>3, <3>4
  <2> QED
    BY <2>1, <2>2
<1>2. CASE UNCHANGED <<callVars, sends>>
  BY <1>2 DEF NotYetSent, callVars
<1>3. CASE Founder \/ Tick \/ UNCHANGED vars
  BY <1>3, <1>2, FounderLeavesCalls DEF Tick, vars, callVars, historyVars
<1>4. CASE Restart
  BY <1>4 DEF Restart, NotYetSent, Asking
<1> QED
  BY <1>1, <1>3, <1>4 DEF Next

(* Every step keeps the row of a request that was sent: a row is deleted   *)
(* only while its id has not been sent, and one is there at every send.    *)
LEMMA NothingUnrecordedKept ==
  ASSUME IInv, [Next]_vars
  PROVE  NothingUnrecorded'
<1> USE DEF IInv
<1>1. ASSUME NEW c \in Caller, Call(c) PROVE NothingUnrecorded'
  <2> SUFFICES ASSUME NEW r \in Request, sends'[r] > 0, estatus'[r] = "none" PROVE FALSE
    BY DEF NothingUnrecorded
  <2>1. CASE Send(c)
    <3>1. UNCHANGED estatus
      BY <2>1, ReadsLeaveRows DEF eventVars
    <3>2. estatus[req[c]] # "none"
      BY <2>1 DEF Send, At, RowWhileSending
    <3>3. sends[r] > 0
      BY <2>1, <3>1, <3>2 DEF Send, TypeOK, HistoryTypes
    <3> QED
      BY <3>1, <3>3 DEF NothingUnrecorded
  <2>2. CASE ~Send(c)
    <3>1. UNCHANGED sends
      BY <1>1, <2>2 DEF Call, Dispatch, Preflight, EndCall, Expire, Authorize, Reserve, FindRefused,
            Exhaust, ReleaseUnsent, Settle, MarkUncertain, historyVars
    <3>2. estatus[r] # "none"
      BY <3>1 DEF NothingUnrecorded
    <3>3. ReleaseUnsent(c) /\ r = req[c]
      BY <1>1, <3>2, RowsStay
    <3>4. sends[r] = 0
      BY <3>3 DEF ReleaseUnsent, Unsent, At, NotYetSent
    <3> QED
      BY <3>1, <3>4
  <2> QED
    BY <2>1, <2>2
<1>2. CASE UNCHANGED <<eventVars, sends>>
  BY <1>2 DEF NothingUnrecorded, eventVars
<1>3. CASE Founder \/ Tick \/ Restart \/ UNCHANGED vars
  BY <1>3, <1>2, FounderLeavesCalls DEF Tick, Restart, vars, eventVars, historyVars
<1> QED
  BY <1>1, <1>3 DEF Next

----------------------------------------------------------------------------
(* The strengthened invariant holds in every reachable state. *)
THEOREM LedgerInvariance == Spec => []IInv
<1>1. IInv /\ [Next]_vars => IInv'
  BY TypeStep, HoldsRequestKept, RowWhileSendingKept, OwnRequestKept, NotYetSentKept,
     NothingUnrecordedKept DEF IInv
<1> QED
  BY <1>1, InitInvariant, PTL DEF Spec

(* TypeOK: the rows, the calls and the history keep their types, and an    *)
(* event has a lease exactly while it has a row.                           *)
THEOREM LedgerTypes == Spec => []TypeOK
<1>1. IInv => TypeOK
  BY DEF IInv
<1> QED
  BY <1>1, LedgerInvariance, PTL

(* NothingUnrecorded: a request that left the process has a row for ever,  *)
(* for any number of concurrent calls and over restarts.                   *)
THEOREM SendsAreRecorded == Spec => []NothingUnrecorded
<1>1. IInv => NothingUnrecorded
  BY DEF IInv
<1> QED
  BY <1>1, LedgerInvariance, PTL

(* SettledIsFinal: no step, late answer or second settlement of a shared   *)
(* request id rewrites a settled event or moves it to another lease.       *)
THEOREM SettlementsAreFinal == Spec => SettledIsFinal
<1> DEFINE Final == \A r \in Request :
        estatus[r] \notin Outstanding \cup {"none"} => estatus'[r] = estatus[r] /\ elease'[r] = elease[r]
<1>1. ASSUME IInv, [Next]_vars PROVE Final
  <2> USE DEF IInv
  <2>1. CASE UNCHANGED eventVars
    BY <2>1 DEF eventVars
  <2>2. ASSUME NEW c \in Caller, Call(c) PROVE Final
    <3>1. CASE Dispatch(c) \/ Preflight(c) \/ EndCall(c) \/ Authorize(c) \/ FindRefused(c) \/ Send(c)
      BY <3>1, <2>1, ReadsLeaveRows
    <3>2. CASE Expire(c) \/ Exhaust(c)
      BY <3>2, <2>1 DEF Expire, Exhaust
    <3>3. CASE Reserve(c)
      <4>1. ASSUME NEW v, estatus[req[c]] = "none", Insert(req[c], v) PROVE Final
        BY <4>1 DEF Insert, TypeOK, EventTypes
      <4> QED
        BY <3>3, <4>1, <2>1 DEF Reserve
    <3>4. CASE ReleaseUnsent(c)
      BY <3>4 DEF ReleaseUnsent, Delete, TypeOK, EventTypes, Outstanding
    <3>5. CASE Settle(c)
      <4>1. ASSUME NEW u, NEW s, NEW overage, Settleable(req[c]), SettleRow(req[c], u, s, overage)
            PROVE  Final
        BY <4>1 DEF SettleRow, Settleable, TypeOK, EventTypes
      <4> QED
        BY <3>5, <4>1, <2>1 DEF Settle
    <3>6. CASE MarkUncertain(c)
      <4>1. UNCHANGED elease
        BY <3>6 DEF MarkUncertain
      <4>2. \/ UNCHANGED estatus
            \/ estatus[req[c]] = "reserved" /\ estatus' = [estatus EXCEPT ![req[c]] = "uncertain_spend"]
        BY <3>6 DEF MarkUncertain
      <4>3. \A r \in Request : estatus[r] # "reserved" => estatus'[r] = estatus[r]
        BY <1>1, <4>2 DEF TypeOK, EventTypes
      <4> QED
        BY <4>1, <4>3 DEF Outstanding
    <3> QED
      BY <2>2, <3>1, <3>2, <3>3, <3>4, <3>5, <3>6 DEF Call
  <2>3. CASE Founder \/ Tick \/ Restart \/ UNCHANGED vars
    BY <2>3, <2>1, FounderLeavesCalls DEF Tick, Restart, vars, eventVars
  <2> QED
    BY <1>1, <2>2, <2>3 DEF Next
<1>2. ASSUME IInv, [Next]_vars PROVE [Final]_vars
  BY <1>1, <1>2
<1> QED
  BY <1>2, LedgerInvariance, PTL DEF Spec, SettledIsFinal

----------------------------------------------------------------------------
(* Sums. Sum counts units, so that what it computes follows from the       *)
(* theorems about finite sets, without an induction over the set.          *)

(* A unit of f over S belongs to one element. *)
LEMMA UnitsOf ==
  ASSUME NEW f, NEW S, NEW u
  PROVE  u \in Units(f, S) <=> \E x \in S : \E i \in 1..f[x] : u = <<x, i>>
BY DEF Units

(* Over a finite set the sum of naturals is a natural. *)
LEMMA SumNat ==
  ASSUME NEW S, IsFiniteSet(S), NEW f, \A x \in S : f[x] \in Nat
  PROVE  IsFiniteSet(Units(f, S)) /\ Sum(f, S) \in Nat
<1> DEFINE Piece == [x \in S |-> {x} \X (1..f[x])]
           Pieces == {{x} \X (1..f[x]) : x \in S}
<1>1. Piece \in Surjection(S, Pieces)
  BY DEF Surjection
<1>2. IsFiniteSet(Pieces)
  BY <1>1, FS_Surjection
<1>3. ASSUME NEW x \in S PROVE IsFiniteSet({x} \X (1..f[x]))
  <2> DEFINE A == {x}
             B == 1..f[x]
  <2>1. IsFiniteSet(A) /\ IsFiniteSet(B)
    <3>1. f[x] \in Int /\ 1 \in Int
      OBVIOUS
    <3> QED
      BY <3>1, FS_Singleton, FS_Interval, Zenon
  <2> HIDE DEF A, B
  <2>2. IsFiniteSet(A \X B)
    BY <2>1, FS_Product, Zenon
  <2> QED
    BY <2>2 DEF A, B
<1>4. IsFiniteSet(UNION Pieces)
  BY <1>2, <1>3, FS_UNION
<1> QED
  BY <1>4, FS_CardinalityType DEF Units, Sum

(* A sum depends on the values over its set only. *)
LEMMA SumSame ==
  ASSUME NEW S, NEW f, NEW g, \A x \in S : f[x] = g[x]
  PROVE  Sum(f, S) = Sum(g, S)
<1>1. \A u : u \in Units(f, S) <=> u \in Units(g, S)
  BY UnitsOf
<1>2. Units(f, S) = Units(g, S)
  BY <1>1
<1> QED
  BY <1>2 DEF Sum

(* A sum of larger values is larger. *)
LEMMA SumLE ==
  ASSUME NEW S, IsFiniteSet(S), NEW f, NEW g,
         \A x \in S : f[x] \in Nat /\ g[x] \in Nat /\ f[x] <= g[x]
  PROVE  Sum(f, S) <= Sum(g, S)
<1>1. \A x \in S : 1..f[x] \subseteq 1..g[x]
  OBVIOUS
<1>2. Units(f, S) \subseteq Units(g, S)
  BY <1>1 DEF Units
<1> QED
  BY <1>2, SumNat, FS_Subset DEF Sum

(* One element sums to its value. *)
LEMMA SumOne ==
  ASSUME NEW x, NEW f, f[x] \in Nat
  PROVE  Sum(f, {x}) = f[x]
<1> DEFINE A == {x}
           B == 1..f[x]
<1>1. Units(f, {x}) = A \X B
  BY DEF Units
<1>2. IsFiniteSet(A) /\ Cardinality(A) = 1
  BY FS_Singleton
<1>3. IsFiniteSet(B) /\ Cardinality(B) = f[x]
  BY FS_Interval
<1> HIDE DEF A, B
<1>4. Cardinality(A \X B) = Cardinality(A) * Cardinality(B)
  BY <1>2, <1>3, FS_Product, Zenon
<1>5. Sum(f, {x}) = Cardinality(A \X B)
  BY <1>1, Zenon DEF Sum
<1>6. 1 * f[x] = f[x]
  OBVIOUS
<1> QED
  BY <1>2, <1>3, <1>4, <1>5, <1>6

(* Disjoint sets add up. *)
LEMMA SumUnion ==
  ASSUME NEW S, IsFiniteSet(S), NEW T, IsFiniteSet(T), S \cap T = {},
         NEW f, \A x \in S \cup T : f[x] \in Nat
  PROVE  Sum(f, S \cup T) = Sum(f, S) + Sum(f, T)
<1> DEFINE A == Units(f, S)
           B == Units(f, T)
<1>1. Units(f, S \cup T) = A \cup B
  BY DEF Units
<1>2. A \cap B = {}
  BY UnitsOf
<1>3. IsFiniteSet(A) /\ IsFiniteSet(B)
  BY SumNat
<1>4. Sum(f, S) = Cardinality(A) /\ Sum(f, T) = Cardinality(B)
      /\ Sum(f, S \cup T) = Cardinality(A \cup B)
  BY <1>1, Zenon DEF Sum
<1>5. Sum(f, S) \in Nat /\ Sum(f, T) \in Nat
  BY SumNat
<1> HIDE DEF A, B
<1>6. Cardinality(A \cup B) = Cardinality(A) + Cardinality(B) - Cardinality(A \cap B)
  BY <1>3, FS_Union
<1>7. Cardinality(A \cap B) = 0
  BY <1>2, FS_EmptySet
<1> QED
  BY <1>4, <1>5, <1>6, <1>7

(* Changing one value changes the sum by as much. *)
LEMMA SumUpdate ==
  ASSUME NEW S, IsFiniteSet(S), NEW x \in S,
         NEW f \in [S -> Nat], NEW g \in [S -> Nat],
         \A y \in S \ {x} : g[y] = f[y]
  PROVE  /\ Sum(f, S) \in Nat
         /\ f[x] <= Sum(f, S)
         /\ Sum(g, S) = Sum(f, S) - f[x] + g[x]
<1> DEFINE R == S \ {x}
<1>1. S = R \cup {x} /\ R \cap {x} = {}
  OBVIOUS
<1>2. IsFiniteSet(R) /\ IsFiniteSet({x})
  BY FS_Difference, FS_Singleton
<1>3. Sum(f, S) = Sum(f, R) + Sum(f, {x})
  <2> HIDE DEF R
  <2> QED BY <1>1, <1>2, SumUnion
<1>4. Sum(g, S) = Sum(g, R) + Sum(g, {x})
  <2> HIDE DEF R
  <2> QED BY <1>1, <1>2, SumUnion
<1>5. Sum(f, R) = Sum(g, R) /\ Sum(f, R) \in Nat
  <2>1. \A y \in R : f[y] = g[y] /\ f[y] \in Nat
    OBVIOUS
  <2> QED BY <2>1, <1>2, SumSame, SumNat
<1>6. Sum(f, {x}) = f[x] /\ Sum(g, {x}) = g[x]
  BY SumOne
<1> QED
  BY <1>3, <1>4, <1>5, <1>6

(* Sums add up value by value. *)
LEMMA SumAdd ==
  ASSUME NEW S, IsFiniteSet(S), NEW f \in [S -> Nat], NEW g \in [S -> Nat]
  PROVE  Sum([x \in S |-> f[x] + g[x]], S) = Sum(f, S) + Sum(g, S)
<1> DEFINE h == [x \in S |-> f[x] + g[x]]
           Upon == {<<u[1], f[u[1]] + u[2]>> : u \in Units(g, S)}
           raise == [u \in Units(g, S) |-> <<u[1], f[u[1]] + u[2]>>]
<1>1. \A u \in Units(g, S) : /\ u[1] \in S /\ u[2] \in 1..g[u[1]] /\ u = <<u[1], u[2]>>
  BY UnitsOf
<1>2. raise \in Bijection(Units(g, S), Upon)
  <2>1. raise \in Surjection(Units(g, S), Upon)
    BY DEF Surjection
  <2>2. ASSUME NEW t \in Units(g, S), NEW u \in Units(g, S), raise[t] = raise[u] PROVE t = u
    BY <1>1, <2>2
  <2> QED
    BY <2>1, <2>2, Zenon DEF Bijection, Injection, IsInjective, Surjection
<1>3. IsFiniteSet(Units(g, S)) /\ IsFiniteSet(Units(f, S)) /\ Sum(f, S) \in Nat /\ Sum(g, S) \in Nat
  BY SumNat
<1>4. IsFiniteSet(Upon) /\ Cardinality(Upon) = Sum(g, S)
  BY <1>2, <1>3, FS_Bijection DEF ExistsBijection, Sum
<1>5. Units(h, S) = Units(f, S) \cup Upon
  <2>1. ASSUME NEW u \in Units(h, S) PROVE u \in Units(f, S) \cup Upon
    <3>1. PICK x \in S, i \in Nat : i \in 1..(f[x] + g[x]) /\ u = <<x, i>>
      BY UnitsOf
    <3>2. CASE i <= f[x]
      BY <3>1, <3>2, UnitsOf
    <3>3. CASE i > f[x]
      <4>1. <<x, i - f[x]>> \in Units(g, S)
        BY <3>1, <3>3, UnitsOf
      <4>2. u = <<x, f[x] + (i - f[x])>>
        BY <3>1
      <4> QED
        BY <4>1, <4>2
    <3> QED
      BY <3>2, <3>3
  <2>2. ASSUME NEW u \in Units(f, S) PROVE u \in Units(h, S)
    <3>1. PICK x \in S, i \in Nat : i \in 1..f[x] /\ u = <<x, i>>
      BY UnitsOf
    <3>2. i \in 1..h[x]
      BY <3>1
    <3> QED
      BY <3>1, <3>2, UnitsOf
  <2>3. ASSUME NEW u \in Upon PROVE u \in Units(h, S)
    <3>1. PICK t \in Units(g, S) : u = <<t[1], f[t[1]] + t[2]>>
      OBVIOUS
    <3>2. t[1] \in S /\ f[t[1]] + t[2] \in 1..h[t[1]]
      BY <1>1
    <3> QED
      BY <3>1, <3>2, UnitsOf
  <2> QED
    BY <2>1, <2>2, <2>3
<1>6. Units(f, S) \cap Upon = {}
  <2> SUFFICES ASSUME NEW u \in Units(f, S), u \in Upon PROVE FALSE
    OBVIOUS
  <2>1. PICK x \in S, i \in Nat : i \in 1..f[x] /\ u = <<x, i>>
    BY UnitsOf
  <2>2. PICK t \in Units(g, S) : u = <<t[1], f[t[1]] + t[2]>>
    OBVIOUS
  <2> QED
    BY <1>1, <2>1, <2>2
<1> DEFINE A == Units(f, S)
<1>7. Sum(h, S) = Cardinality(A \cup Upon) /\ Sum(f, S) = Cardinality(A)
  BY <1>5, Zenon DEF Sum
<1> HIDE DEF A, Upon, h
<1>8. Cardinality(A \cup Upon) = Cardinality(A) + Cardinality(Upon) - Cardinality(A \cap Upon)
  BY <1>3, <1>4, FS_Union DEF A
<1>9. Cardinality(A \cap Upon) = 0
  BY <1>6, FS_EmptySet DEF A
<1>10. Sum(h, S) = Sum(f, S) + Sum(g, S)
  BY <1>3, <1>4, <1>7, <1>8, <1>9
<1> QED
  BY <1>10 DEF h

(* A sum over elements found again, one by one, in another set is smaller. *)
LEMMA SumShift ==
  ASSUME NEW S, NEW T, IsFiniteSet(T), NEW h \in Injection(S, T),
         NEW f, NEW g \in [T -> Nat], \A x \in S : f[x] = g[h[x]]
  PROVE  Sum(f, S) <= Sum(g, T)
<1> DEFINE move == [u \in Units(f, S) |-> <<h[u[1]], u[2]>>]
<1>1. \A u \in Units(f, S) : u[1] \in S /\ u[2] \in 1..f[u[1]] /\ u = <<u[1], u[2]>>
  BY UnitsOf
<1>2. \A x \in S : h[x] \in T
  BY DEF Injection
<1>3. \A u \in Units(f, S) : move[u] \in Units(g, T)
  BY <1>1, <1>2, UnitsOf
<1>4. ASSUME NEW t \in Units(f, S), NEW u \in Units(f, S), move[t] = move[u] PROVE t = u
  <2>1. h[t[1]] = h[u[1]] /\ t[2] = u[2]
    BY <1>4
  <2> QED
    BY <1>1, <2>1 DEF Injection, IsInjective
<1>5. move \in Injection(Units(f, S), Units(g, T))
  BY <1>3, <1>4 DEF Injection, IsInjective
<1>6. IsFiniteSet(Units(g, T))
  BY SumNat
<1> QED
  BY <1>5, <1>6, FS_Injection DEF Sum

(* Summing the sums over the fibers of h is summing over all. *)
LEMMA SumFibers ==
  ASSUME NEW S, IsFiniteSet(S), NEW V, IsFiniteSet(V), NEW h \in [S -> V],
         NEW f \in [S -> Nat]
  PROVE  Sum([v \in V |-> Sum(f, {x \in S : h[x] = v})], V) = Sum(f, S)
<1> DEFINE Fiber(v) == {x \in S : h[x] = v}
           F == [v \in V |-> Sum(f, Fiber(v))]
           B(v) == Bijection(1..F[v], Units(f, Fiber(v)))
           count == [v \in V |-> CHOOSE b : b \in B(v)]
           place == [u \in Units(F, V) |-> count[u[1]][u[2]]]
<1>1. ASSUME NEW v \in V PROVE F[v] \in Nat /\ count[v] \in B(v)
  <2>1. IsFiniteSet(Fiber(v)) /\ \A x \in Fiber(v) : f[x] \in Nat
    BY FS_Subset
  <2>2. IsFiniteSet(Units(f, Fiber(v))) /\ F[v] \in Nat
    BY <2>1, SumNat
  <2>3. B(v) # {}
    BY <2>2, FS_CardinalityType DEF ExistsBijection, Sum
  <2> QED
    BY <2>2, <2>3
<1>2. \A u \in Units(F, V) : u[1] \in V /\ u[2] \in 1..F[u[1]] /\ u = <<u[1], u[2]>>
  BY UnitsOf
<1>3. ASSUME NEW u \in Units(F, V) PROVE place[u] \in Units(f, Fiber(u[1]))
  BY <1>1, <1>2 DEF Bijection, Injection
<1>4. ASSUME NEW v \in V, NEW u \in Units(f, Fiber(v))
      PROVE  u \in Units(f, S) /\ u[1] \in S /\ h[u[1]] = v
  BY UnitsOf
<1>5. ASSUME NEW u \in Units(F, V) PROVE place[u] \in Units(f, S) /\ h[place[u][1]] = u[1]
  <2> DEFINE w == place[u]
  <2>1. w \in Units(f, Fiber(u[1])) /\ u[1] \in V
    BY <1>2, <1>3
  <2> HIDE DEF w
  <2>2. w \in Units(f, S) /\ h[w[1]] = u[1]
    BY <1>4, <2>1
  <2> QED
    BY <2>2 DEF w
<1>6. ASSUME NEW t \in Units(F, V), NEW u \in Units(F, V), place[t] = place[u] PROVE t = u
  <2>1. t[1] = u[1]
    <3> HIDE DEF place
    <3> QED
      BY <1>5, <1>6
  <2> DEFINE b == count[t[1]]
  <2>2. t[2] \in 1..F[t[1]] /\ u[2] \in 1..F[t[1]] /\ t[1] \in V
    BY <1>2, <2>1
  <2>3. b[t[2]] = b[u[2]]
    BY <1>6, <2>1
  <2>4. b \in B(t[1])
    BY <1>1, <2>2
  <2>5. t[2] = u[2]
    <3> HIDE DEF b, F, Fiber
    <3> QED
      BY <2>2, <2>3, <2>4 DEF Bijection, Injection, IsInjective
  <2> QED
    BY <1>2, <2>1, <2>5
<1>7. ASSUME NEW u \in Units(f, S) PROVE \E t \in Units(F, V) : place[t] = u
  <2>1. PICK x \in S, i \in Nat : i \in 1..f[x] /\ u = <<x, i>>
    BY UnitsOf
  <2> DEFINE v == h[x]
  <2>2. v \in V /\ u \in Units(f, Fiber(v))
    BY <2>1, UnitsOf
  <2>3. PICK k \in 1..F[v] : count[v][k] = u
    BY <1>1, <2>2 DEF Bijection, Surjection
  <2>4. <<v, k>> \in Units(F, V)
    BY <2>2, <2>3, UnitsOf
  <2> QED
    BY <2>3, <2>4
<1>8. place \in Bijection(Units(F, V), Units(f, S))
  <2>1. place \in [Units(F, V) -> Units(f, S)]
    BY <1>5
  <2> HIDE DEF place, F
  <2> QED
    BY <1>6, <1>7, <2>1, Zenon DEF Bijection, Injection, Surjection, IsInjective
<1>9. IsFiniteSet(Units(F, V))
  BY <1>1, SumNat
<1>10. Sum(f, S) = Sum(F, V)
  BY <1>8, <1>9, FS_Bijection DEF ExistsBijection, Sum
<1> QED
  BY <1>10

(* The same value over and over. *)
LEMMA SumConst ==
  ASSUME NEW S, IsFiniteSet(S), NEW k \in Nat
  PROVE  Sum([x \in S |-> k], S) = k * Cardinality(S)
<1> DEFINE f == [x \in S |-> k]
           B == 1..k
<1>1. Units(f, S) = S \X B
  BY UnitsOf
<1>2. IsFiniteSet(B) /\ Cardinality(B) = k
  BY FS_Interval
<1>3. Cardinality(S) \in Nat
  BY FS_CardinalityType
<1> HIDE DEF B
<1>4. Cardinality(S \X B) = Cardinality(S) * Cardinality(B)
  BY <1>2, FS_Product, Zenon
<1>5. Sum(f, S) = Cardinality(S \X B)
  BY <1>1, Zenon DEF Sum
<1>6. Sum(f, S) = Cardinality(S) * k
  BY <1>2, <1>4, <1>5
<1> HIDE DEF f
<1>7. Sum(f, S) = k * Cardinality(S)
  BY <1>3, <1>6
<1> QED
  BY <1>7 DEF f

----------------------------------------------------------------------------
(* What the sums of the ledger are made of, and what holds of them.        *)

(* What a request weighs in the ledger: its reservation while that stands, *)
(* then what the provider charged for it as far as it was reserved.        *)
Load == [r \in Request |->
    IF estatus[r] \in Outstanding THEN Upper[r]
    ELSE IF estatus[r] = "none" THEN 0 ELSE Charged[r]]
LoadAt(v) == [r \in Request |-> IF elease[r] = v THEN Load[r] ELSE 0]
HeldAt(v) == [r \in Request |->
    IF elease[r] = v /\ estatus[r] \in Outstanding THEN Upper[r] ELSE 0]

Held(v) == Sum(HeldAt(v), Request)
Own(v) == Sum(LoadAt(v), Request)

Unused == [reserved |-> 0, actual |-> 0]
Carried(v) == carried[v].actual + carried[v].reserved

(* A lease number without a row has no limits, no usage and no events. *)
Blank ==
    /\ \A v \in Version :
           /\ lstate[v] = "none" =>
                limit[v] = 0 /\ actual[v] = 0 /\ reserved[v] = 0 /\ carried[v] = Unused
           /\ lstate[v] # "none" => limit[v] >= Grant
    /\ \A r \in Request : estatus[r] # "none" => lstate[elease[r]] # "none"

(* What a lease reserves is what it began with and what its rows hold. *)
ReservedHeld == \A v \in Version : reserved[v] = carried[v].reserved + Held(v)

(* The totals of a lease cover what it began with and what its rows weigh. *)
TotalsCover ==
    \A v \in Version : Carried(v) + Own(v) <= actual[v] + reserved[v]

(* A superseded lease left its totals with its successor; its rows only    *)
(* weigh less from then on.                                                *)
SupersededCarried ==
    \A u \in Version : lstate[u] = "superseded" =>
        u + 1 \in Written /\ Carried(u) + Own(u) <= Carried(u + 1)

(* A lease that was never enlarged weighs what its limit allows. *)
WithinLimit ==
    \A v \in Version : limit[v] <= Grant => carried[v] = Unused /\ Own(v) <= limit[v]

(* Only the lease of a row that exists is exhausted. *)
TargetWritten == \A c \in Caller : pc[c] = "exhausting" => target[c] \in Written

(* A request that was not sent was not charged. *)
Metered == \A r \in Request : sends[r] = 0 => meter[r] = 0

(* A build turn's row stands reserved while it is sent and answered, and   *)
(* the provider charged it once.                                           *)
TurnReserved ==
    Provider = "anthropic" =>
        \A c \in Caller :
            /\ pc[c] \in {"sending"} \cup Sent => estatus[req[c]] = "reserved"
            /\ pc[c] \in Sent => meter[req[c]] = cost[c]

(* The rows of a lease have turn numbers of their own, within its limit. *)
TurnsNumbered ==
    /\ \A r \in Request : estatus[r] # "none" => eturn[r] \in 1..turnLimit[elease[r]]
    /\ \A r, s \in Request :
           r # s /\ estatus[r] # "none" /\ elease[r] = elease[s] => eturn[r] # eturn[s]
    /\ \A v \in Version : limit[v] <= Grant => turnLimit[v] <= TurnGrant
    /\ Provider = "openai" => NeverEnlarged

(* The totals of a build's ledger; a review may send one id more than once,*)
(* and then its totals do not cover what was charged.                      *)
Totals ==
    Blank /\ ReservedHeld
      /\ (Provider = "anthropic" => TotalsCover /\ SupersededCarried /\ WithinLimit)
SumInv == IInv /\ TargetWritten /\ Metered /\ TurnReserved /\ Totals /\ TurnsNumbered

----------------------------------------------------------------------------
(* What a step does to the totals: nothing; a request leaves the process;  *)
(* a row is reserved, released or settled; a lease is created or replaced  *)
(* by an enlarged one.                                                     *)
Quiet ==
    /\ UNCHANGED <<limit, turnLimit, actual, reserved, carried, elease, eturn, sends>>
    /\ \A r \in Request :
           \/ estatus'[r] = estatus[r]
           \/ estatus[r] = "reserved" /\ estatus'[r] = "uncertain_spend"
    /\ \A v \in Version :
           /\ lstate'[v] = "superseded" => lstate[v] = "superseded"
           /\ lstate'[v] = "none" <=> lstate[v] = "none"
    /\ UNCHANGED meter

Sends(c) ==
    /\ UNCHANGED <<leaseVars, eventVars>>
    /\ Send(c)

Inserts(r, v) ==
    /\ estatus[r] = "none"
    /\ lstate[v] \in Usable
    /\ Fits(r, v)
    /\ TurnFree(v)
    /\ Insert(r, v)
    /\ UNCHANGED <<meter, sends>>

Releases(r) ==
    /\ Provider = "anthropic"
    /\ estatus[r] = "reserved"
    /\ Delete(r)
    /\ reserved' = [reserved EXCEPT ![elease[r]] = Released(r, elease[r])]
    /\ lstate' = [lstate EXCEPT ![elease[r]] = IF @ = "warning" THEN "active" ELSE @]
    /\ UNCHANGED <<limit, turnLimit, actual, carried, meter, sends>>

Final == {"conservative_settlement", "provider_overage", "settled"}
Settles(r, u, s) ==
    /\ Settleable(r)
    /\ s \in Final
    /\ Provider = "anthropic" => Charged[r] <= u
    /\ \E overage : SettleRow(r, u, s, overage)
    /\ UNCHANGED <<meter, sends>>

Creates(v) ==
    /\ NextVersion(v)
    /\ lstate' = [lstate EXCEPT ![v] = "active"]
    /\ limit' = [limit EXCEPT ![v] = Grant]
    /\ turnLimit' = [turnLimit EXCEPT ![v] = TurnGrant]
    /\ UNCHANGED <<actual, reserved, carried, eventVars, meter, sends>>

Upgrades(u) ==
    /\ Provider = "anthropic"
    /\ lstate[u] \in OpenState
    /\ u + 1 \in Version /\ u + 1 \notin Taken
    /\ lstate' = [lstate EXCEPT ![u] = "superseded", ![u + 1] = "active"]
    /\ limit' = [limit EXCEPT ![u + 1] = limit[u] + Grant]
    /\ turnLimit' = [turnLimit EXCEPT ![u + 1] = turnLimit[u] + TurnGrant]
    /\ reserved' = [reserved EXCEPT ![u + 1] = reserved[u]]
    /\ actual' = [actual EXCEPT ![u + 1] = actual[u]]
    /\ carried' = [carried EXCEPT ![u + 1] = [reserved |-> reserved[u], actual |-> actual[u]]]
    /\ UNCHANGED <<eventVars, meter, sends>>

LedgerStep ==
    \/ Quiet
    \/ \E c \in Caller : Sends(c)
    \/ \E r \in Request, v \in Version : Inserts(r, v)
    \/ \E r \in Request : Releases(r)
    \/ \E r \in Request, u \in Nat, s \in Final : Settles(r, u, s)
    \/ \E v \in Version : Creates(v)
    \/ \E u \in Version : Upgrades(u)

(* Every step is one of these. *)
LEMMA StepKinds ==
  ASSUME IInv, Blank, TargetWritten, TurnReserved, [Next]_vars
  PROVE  LedgerStep
<1> USE LeaseAssumption, AmountAssumption
<1> TypeOK /\ LeaseTypes /\ EventTypes
  BY DEF IInv, TypeOK
<1>1. ASSUME UNCHANGED <<limit, turnLimit, actual, reserved, carried, eventVars, meter, sends>>,
             \A v \in Version : /\ lstate'[v] = "superseded" => lstate[v] = "superseded"
                                /\ lstate'[v] = "none" <=> lstate[v] = "none"
      PROVE  LedgerStep
  BY <1>1 DEF LedgerStep, Quiet, eventVars
<1>2. CASE UNCHANGED <<leaseVars, eventVars, meter, sends>>
  BY <1>1, <1>2 DEF leaseVars
<1>3. ASSUME NEW c \in Caller, Call(c) PROVE LedgerStep
  <2> DEFINE r == req[c]
  <2>0. pc[c] \in Holding => r \in Request /\ Upper[r] \in Nat
    BY DEF IInv, HoldsRequest
  <2>1. CASE Dispatch(c) \/ Preflight(c) \/ EndCall(c) \/ Authorize(c) \/ FindRefused(c)
    BY <2>1, <1>2 DEF Dispatch, Preflight, EndCall, Authorize, FindRefused, historyVars
  <2>2. CASE Send(c)
    BY <2>2, ReadsLeaveRows DEF LedgerStep, Sends
  <2>3. CASE Expire(c)
    BY <2>3, <1>1 DEF Expire, historyVars, Open, OpenState, LeaseTypes
  <2>4. CASE Exhaust(c)
    <3>1. lstate[target[c]] # "none"
      BY <2>4 DEF Exhaust, At, TargetWritten, Written
    <3> QED
      BY <2>4, <3>1, <1>1 DEF Exhaust, LeaseTypes
  <2>5. CASE Reserve(c)
    <3>1. CASE UNCHANGED <<leaseVars, eventVars>>
      BY <2>5, <3>1, <1>2 DEF Reserve
    <3>2. CASE ~UNCHANGED <<leaseVars, eventVars>>
      <4>1. PICK v \in Version : Inserts(r, v)
        BY <2>5, <3>2 DEF Reserve, Inserts
      <4>2. r \in Request
        BY <2>0, <2>5 DEF Reserve, At, Holding, Asking
      <4> QED
        BY <4>1, <4>2 DEF LedgerStep
    <3> QED
      BY <3>1, <3>2
  <2>6. CASE ReleaseUnsent(c)
    <3>1. Releases(r) /\ r \in Request
      BY <2>0, <2>6 DEF ReleaseUnsent, Releases, Unsent, At, Holding, historyVars
    <3> QED
      BY <3>1 DEF LedgerStep
  <2>7. CASE Settle(c)
    <3>1. CASE UNCHANGED <<leaseVars, eventVars>>
      BY <2>7, <3>1, <1>2 DEF Settle
    <3>2. CASE ~UNCHANGED <<leaseVars, eventVars>>
      <4>1. r \in Request /\ pc[c] = "waiting" /\ UNCHANGED <<meter, sends>>
        BY <2>0, <2>7 DEF Settle, At, Holding, Sent
      <4>2. PICK known \in BOOLEAN, s \in Final :
              /\ Settleable(r)
              /\ \E overage : SettleRow(r, UsageToSettle(c, known), s, overage)
        BY <2>7, <3>2, Zenon DEF Settle, Final
      <4> DEFINE u == UsageToSettle(c, known)
      <4>3. u \in Nat /\ (Provider = "anthropic" => Charged[r] <= u)
        <5>1. meter[r] \in Nat /\ Upper[r] \in Nat /\ cost[c] \in Nat
          BY <4>1 DEF TypeOK, HistoryTypes, CallTypes
        <5>2. Provider = "anthropic" => meter[r] = cost[c]
          BY <4>1 DEF TurnReserved, Sent
        <5> QED
          BY <4>1, <5>1, <5>2 DEF UsageToSettle, Charged, Least
      <4> QED
        BY <4>1, <4>2, <4>3 DEF LedgerStep, Settles
    <3> QED
      BY <3>1, <3>2
  <2>8. CASE MarkUncertain(c)
    <3>1. CASE UNCHANGED <<lstate, estatus>>
      BY <2>8, <3>1, <1>1 DEF MarkUncertain, eventVars
    <3>2. CASE /\ estatus[r] = "reserved"
               /\ estatus' = [estatus EXCEPT ![r] = "uncertain_spend"]
               /\ lstate' = [lstate EXCEPT ![elease[r]] = "paused"]
      <4>1. r \in Request /\ elease[r] \in Version /\ lstate[elease[r]] # "none"
        BY <2>0, <2>8, <3>2 DEF MarkUncertain, At, Holding, Sent, Blank, EventTypes, Version
      <4>2. Quiet
        BY <2>8, <3>2, <4>1 DEF MarkUncertain, Quiet, EventTypes, LeaseTypes
      <4> QED
        BY <4>2 DEF LedgerStep
    <3> QED
      BY <2>8, <3>1, <3>2 DEF MarkUncertain
  <2> QED
    BY <1>3, <2>1, <2>2, <2>3, <2>4, <2>5, <2>6, <2>7, <2>8 DEF Call
<1>4. CASE RequestLease \/ Deny \/ Resolve \/ SeeExhausted \/ ReportExhausted \/ Tick \/ Restart
  BY <1>4, <1>2 DEF RequestLease, Deny, Resolve, SeeExhausted, ReportExhausted, Tick, Restart,
                    historyVars
<1>5. CASE CreateForeignLease
  BY <1>5, <1>1 DEF CreateForeignLease, historyVars
<1>6. CASE Quarantine
  BY <1>6, <1>1 DEF Quarantine, historyVars, Usable
<1>7. CASE CreateLease
  BY <1>7 DEF CreateLease, LedgerStep, Creates, historyVars
<1>8. CASE UpgradeLease
  <2>1. PICK u \in Version : Upgrades(u)
    BY <1>8 DEF UpgradeLease, Upgrades, IsCurrent, Open, Usage, Taken, Written, historyVars
  <2> QED
    BY <2>1 DEF LedgerStep
<1>9. CASE UNCHANGED vars
  BY <1>9, <1>2 DEF vars, leaseVars, eventVars
<1> QED
  BY <1>3, <1>4, <1>5, <1>6, <1>7, <1>8, <1>9 DEF Next, Founder

----------------------------------------------------------------------------
(* Nothing sums to nothing. *)
LEMMA SumZero ==
  ASSUME NEW S, NEW f, \A x \in S : f[x] = 0
  PROVE  Sum(f, S) = 0
<1>1. \A x \in S : 1..f[x] = {}
  OBVIOUS
<1>2. \A u : u \notin Units(f, S)
  BY <1>1, UnitsOf
<1>3. Units(f, S) = {}
  BY <1>2
<1> QED
  BY <1>3, FS_EmptySet DEF Sum

(* The weights are naturals, and so are their sums. *)
LEMMA Weights ==
  ASSUME TypeOK, NEW v
  PROVE  /\ HeldAt(v) \in [Request -> Nat] /\ Held(v) \in Nat
         /\ LoadAt(v) \in [Request -> Nat] /\ Own(v) \in Nat
         /\ Load \in [Request -> Nat]
         /\ \A r \in Request : Charged[r] \in Nat /\ Charged[r] <= Upper[r]
<1> USE LeaseAssumption, AmountAssumption
<1>1. \A r \in Request : Charged[r] \in Nat /\ Charged[r] <= Upper[r]
  BY DEF Charged, Least, TypeOK, HistoryTypes
<1>2. HeldAt(v) \in [Request -> Nat] /\ Load \in [Request -> Nat] /\ LoadAt(v) \in [Request -> Nat]
  BY <1>1 DEF HeldAt, LoadAt, Load
<1> QED
  BY <1>1, <1>2, SumNat DEF Held, Own

(* When one request's row or charge changes, the sums change by its weight.*)
LEMMA WeightsChange ==
  ASSUME TypeOK, TypeOK', NEW v, NEW r \in Request,
         \A s \in Request \ {r} :
             elease'[s] = elease[s] /\ estatus'[s] = estatus[s] /\ meter'[s] = meter[s]
  PROVE  /\ Held(v)' = Held(v) - HeldAt(v)[r] + HeldAt(v)'[r] /\ HeldAt(v)[r] <= Held(v)
         /\ Own(v)' = Own(v) - LoadAt(v)[r] + LoadAt(v)'[r] /\ LoadAt(v)[r] <= Own(v)
<1>1. /\ HeldAt(v) \in [Request -> Nat] /\ HeldAt(v)' \in [Request -> Nat]
      /\ LoadAt(v) \in [Request -> Nat] /\ LoadAt(v)' \in [Request -> Nat]
  <2>1. HeldAt(v) \in [Request -> Nat] /\ LoadAt(v) \in [Request -> Nat]
    BY Weights
  <2>2. (HeldAt(v) \in [Request -> Nat] /\ LoadAt(v) \in [Request -> Nat])'
    BY Weights, PTL
  <2> QED
    BY <2>1, <2>2
<1>2. \A s \in Request \ {r} : HeldAt(v)'[s] = HeldAt(v)[s] /\ LoadAt(v)'[s] = LoadAt(v)[s]
  BY DEF HeldAt, LoadAt, Load, Charged
<1> QED
  BY <1>1, <1>2, SumUpdate, LeaseAssumption DEF Held, Own

(* When no weight changes, neither do the sums. *)
LEMMA WeightsStay ==
  ASSUME NEW v, UNCHANGED elease,
         \A r \in Request :
             /\ estatus'[r] \in Outstanding <=> estatus[r] \in Outstanding
             /\ estatus'[r] = "none" <=> estatus[r] = "none"
  PROVE  /\ Held(v)' = Held(v)
         /\ (\A r \in Request : estatus[r] \in Outstanding \/ meter'[r] = meter[r])
              => Own(v)' = Own(v)
<1>1. HeldAt(v)' = HeldAt(v)
  BY DEF HeldAt
<1>2. ASSUME \A r \in Request : estatus[r] \in Outstanding \/ meter'[r] = meter[r]
      PROVE  LoadAt(v)' = LoadAt(v)
  <2>1. Load' = Load
    BY <1>2 DEF Load, Charged
  <2> QED
    BY <2>1 DEF LoadAt
<1> QED
  BY <1>1, <1>2 DEF Held, Own

(* A lease number without a row weighs nothing. *)
LEMMA BlankWeighsNothing ==
  ASSUME TypeOK, Blank, NEW v \in Version, lstate[v] = "none"
  PROVE  Held(v) = 0 /\ Own(v) = 0
<1>1. \A r \in Request : elease[r] # v
  BY DEF Blank, TypeOK, EventTypes, Version
<1> QED
  BY <1>1, SumZero DEF Held, Own, HeldAt, LoadAt

----------------------------------------------------------------------------
(* Each kind of step keeps the totals. *)

LEMMA QuietKeepsTotals ==
  ASSUME TypeOK, TypeOK', Totals, Quiet
  PROVE  Totals'
<1>1. \A v : Held(v)' = Held(v) /\ Own(v)' = Own(v)
  BY WeightsStay DEF Quiet, Outstanding
<1>2. Blank'
  BY DEF Totals, Blank, Quiet, TypeOK, EventTypes, Version
<1>3. UNCHANGED <<limit, actual, reserved, carried>> /\ \A v : Carried(v)' = Carried(v)
  BY DEF Quiet, Carried
<1>4. ReservedHeld'
  BY <1>1, <1>3 DEF Totals, ReservedHeld
<1>5. Provider = "anthropic" => TotalsCover' /\ WithinLimit'
  BY <1>1, <1>3 DEF Totals, TotalsCover, WithinLimit
<1>6. Provider = "anthropic" => SupersededCarried'
  BY <1>1, <1>3 DEF Totals, SupersededCarried, Quiet, Written
<1> QED
  BY <1>2, <1>4, <1>5, <1>6 DEF Totals

LEMMA SendKeepsTotals ==
  ASSUME IInv, TypeOK', Totals, TurnReserved, NEW c \in Caller, Sends(c)
  PROVE  Totals'
<1>1. UNCHANGED <<lstate, foreign, limit, actual, reserved, carried, estatus, elease>>
      /\ \A v : Carried(v)' = Carried(v)
  BY DEF Sends, leaseVars, eventVars, Carried
<1>2. \A v : Held(v)' = Held(v)
  BY <1>1, WeightsStay
<1>3. Blank' /\ ReservedHeld'
  BY <1>1, <1>2 DEF Totals, Blank, ReservedHeld
<1>4. ASSUME Provider = "anthropic" PROVE \A v : Own(v)' = Own(v)
  <2>1. estatus[req[c]] \in Outstanding
    BY <1>4 DEF Sends, Send, At, TurnReserved, Outstanding
  <2>2. \A r \in Request \ {req[c]} : meter'[r] = meter[r]
    BY DEF Sends, Send, IInv, TypeOK, HistoryTypes
  <2> QED
    BY <1>1, <2>1, <2>2, WeightsStay
<1>5. Provider = "anthropic" => TotalsCover' /\ WithinLimit' /\ SupersededCarried'
  BY <1>1, <1>4 DEF Totals, TotalsCover, WithinLimit, SupersededCarried, Written
<1> QED
  BY <1>3, <1>5 DEF Totals

LEMMA InsertKeepsTotals ==
  ASSUME TypeOK, TypeOK', Totals, NEW r \in Request, NEW v \in Version, Inserts(r, v)
  PROVE  Totals'
<1> USE AmountAssumption
<1>1. /\ limit \in [Version -> Nat] /\ actual \in [Version -> Nat] /\ reserved \in [Version -> Nat]
      /\ carried \in [Version -> [reserved : Nat, actual : Nat]]
      /\ lstate \in [Version -> LeaseState] /\ estatus \in [Request -> EventStatus]
      /\ elease \in [Request -> 0..MaxVersion] /\ v # 0
  BY DEF TypeOK, LeaseTypes, EventTypes, Version
<1>2. /\ estatus[r] = "none" /\ elease[r] = 0 /\ estatus'[r] = "reserved" /\ elease'[r] = v
      /\ \A s \in Request \ {r} :
             elease'[s] = elease[s] /\ estatus'[s] = estatus[s] /\ meter'[s] = meter[s]
  BY <1>1 DEF Inserts, Insert, TypeOK, EventTypes
<1>3. ASSUME NEW w \in Version
      PROVE  /\ Held(w)' = Held(w) + IF w = v THEN Upper[r] ELSE 0
             /\ Own(w)' = Own(w) + IF w = v THEN Upper[r] ELSE 0
             /\ Held(w) \in Nat /\ Own(w) \in Nat
  <2>1. w # 0
    BY DEF Version
  <2>2. HeldAt(w)[r] = 0 /\ LoadAt(w)[r] = 0
    BY <1>2, <2>1 DEF HeldAt, LoadAt
  <2>3. HeldAt(w)'[r] = (IF w = v THEN Upper[r] ELSE 0) /\ LoadAt(w)'[r] = (IF w = v THEN Upper[r] ELSE 0)
    BY <1>2 DEF HeldAt, LoadAt, Load, Outstanding
  <2>4. Held(w) \in Nat /\ Own(w) \in Nat
    BY Weights
  <2>5. Held(w)' = Held(w) - HeldAt(w)[r] + HeldAt(w)'[r] /\ Own(w)' = Own(w) - LoadAt(w)[r] + LoadAt(w)'[r]
    BY <1>2, WeightsChange
  <2> QED
    BY <2>2, <2>3, <2>4, <2>5
<1>4. /\ UNCHANGED <<limit, actual, carried>> /\ \A w : Carried(w)' = Carried(w)
      /\ reserved' = [reserved EXCEPT ![v] = @ + Upper[r]]
      /\ lstate[v] \in Usable
      /\ \A w \in Version \ {v} : lstate'[w] = lstate[w]
      /\ lstate'[v] \in Usable
      /\ actual[v] + reserved[v] + Upper[r] <= limit[v]
  BY <1>1 DEF Inserts, Insert, Carried, Usable, Fits
<1>5. Blank'
  <2>1. \A w \in Version : lstate'[w] = "none" =>
            w # v /\ lstate[w] = "none" /\ reserved'[w] = reserved[w]
    BY <1>1, <1>4 DEF Usable
  <2>2. \A w \in Version : lstate'[w] # "none" => lstate[w] # "none"
    BY <1>4 DEF Usable
  <2>3. \A w \in Version : lstate[w] # "none" => lstate'[w] # "none"
    BY <1>4 DEF Usable
  <2>4. ASSUME NEW s \in Request, estatus'[s] # "none" PROVE lstate'[elease'[s]] # "none"
    <3>1. CASE s = r
      BY <1>2, <1>4, <3>1 DEF Usable
    <3>2. CASE s # r
      <4>1. estatus[s] # "none" /\ elease'[s] = elease[s] /\ elease[s] \in Version
        BY <1>2, <2>4, <3>2 DEF TypeOK, EventTypes, Version
      <4> QED
        BY <2>3, <4>1 DEF Totals, Blank
    <3> QED
      BY <3>1, <3>2
  <2> QED
    BY <1>4, <2>1, <2>2, <2>4 DEF Totals, Blank
<1>6. ReservedHeld'
  BY <1>1, <1>3, <1>4 DEF Totals, ReservedHeld
<1>7. ASSUME Provider = "anthropic" PROVE TotalsCover' /\ SupersededCarried' /\ WithinLimit'
  <2>1. TotalsCover'
    <3> SUFFICES ASSUME NEW w \in Version PROVE Carried(w) + Own(w)' <= actual[w] + reserved'[w]
      BY <1>4 DEF TotalsCover
    <3>1. Carried(w) + Own(w) <= actual[w] + reserved[w] /\ Carried(w) \in Nat
      BY <1>1, <1>7 DEF Totals, TotalsCover, Carried
    <3> QED
      BY <1>1, <1>3, <1>4, <3>1
  <2>2. SupersededCarried'
    BY <1>3, <1>4, <1>7 DEF Totals, SupersededCarried, Written, Usable
  <2>3. WithinLimit'
    <3> SUFFICES ASSUME NEW w \in Version, limit[w] <= Grant
                 PROVE  carried[w] = Unused /\ Own(w)' <= limit[w]
      BY <1>4 DEF WithinLimit
    <3>1. carried[w] = Unused /\ Own(w) <= limit[w]
      BY <1>7 DEF Totals, WithinLimit
    <3>2. Carried(w) = 0
      BY <3>1 DEF Carried, Unused
    <3>3. Own(w) <= actual[w] + reserved[w]
      BY <1>3, <1>7, <3>2 DEF Totals, TotalsCover
    <3> QED
      BY <1>1, <1>3, <1>4, <3>1, <3>3
  <2> QED
    BY <2>1, <2>2, <2>3
<1> QED
  BY <1>5, <1>6, <1>7 DEF Totals

LEMMA ReleaseKeepsTotals ==
  ASSUME TypeOK, TypeOK', Totals, NEW r \in Request, Releases(r)
  PROVE  Totals'
<1> USE AmountAssumption
<1> DEFINE v == elease[r]
<1>1. /\ limit \in [Version -> Nat] /\ actual \in [Version -> Nat] /\ reserved \in [Version -> Nat]
      /\ carried \in [Version -> [reserved : Nat, actual : Nat]]
      /\ lstate \in [Version -> LeaseState] /\ v \in Version
  BY DEF TypeOK, LeaseTypes, EventTypes, Version, Releases
<1>2. /\ estatus[r] = "reserved" /\ estatus'[r] = "none" /\ elease'[r] = 0
      /\ \A s \in Request \ {r} :
             elease'[s] = elease[s] /\ estatus'[s] = estatus[s] /\ meter'[s] = meter[s]
  BY DEF Releases, Delete, TypeOK, EventTypes
<1>3. ASSUME NEW w \in Version
      PROVE  /\ Held(w)' = Held(w) - IF w = v THEN Upper[r] ELSE 0
             /\ Own(w)' = Own(w) - IF w = v THEN Upper[r] ELSE 0
             /\ w = v => Upper[r] <= Held(w) /\ Upper[r] <= Own(w)
             /\ Held(w) \in Nat /\ Own(w) \in Nat
  <2>1. w # 0
    BY DEF Version
  <2>2. HeldAt(w)'[r] = 0 /\ LoadAt(w)'[r] = 0
    BY <1>2, <2>1 DEF HeldAt, LoadAt
  <2>3. HeldAt(w)[r] = (IF w = v THEN Upper[r] ELSE 0) /\ LoadAt(w)[r] = (IF w = v THEN Upper[r] ELSE 0)
    BY <1>2 DEF HeldAt, LoadAt, Load, Outstanding
  <2>4. Held(w) \in Nat /\ Own(w) \in Nat
    BY Weights
  <2>5. /\ Held(w)' = Held(w) - HeldAt(w)[r] + HeldAt(w)'[r] /\ HeldAt(w)[r] <= Held(w)
        /\ Own(w)' = Own(w) - LoadAt(w)[r] + LoadAt(w)'[r] /\ LoadAt(w)[r] <= Own(w)
    BY <1>2, WeightsChange
  <2> QED
    BY <2>2, <2>3, <2>4, <2>5
<1>4. /\ UNCHANGED <<limit, actual, carried>> /\ \A w : Carried(w)' = Carried(w)
      /\ reserved' = [reserved EXCEPT ![v] = Released(r, v)]
      /\ \A w \in Version : /\ lstate'[w] = "superseded" <=> lstate[w] = "superseded"
                            /\ lstate'[w] = "none" <=> lstate[w] = "none"
  BY <1>1 DEF Releases, Carried
<1>5. Released(r, v) = reserved[v] - Upper[r] /\ Upper[r] <= reserved[v]
  <2>1. reserved[v] = carried[v].reserved + Held(v) /\ carried[v].reserved \in Nat
    BY <1>1 DEF Totals, ReservedHeld
  <2>2. Upper[r] <= Held(v) /\ Held(v) \in Nat
    BY <1>1, <1>3
  <2> QED
    BY <1>1, <2>1, <2>2 DEF Released, Less
<1>6. Blank'
  <2>1. \A w \in Version : lstate'[w] = "none" => w # v
    BY <1>2, <1>4 DEF Totals, Blank
  <2>2. \A s \in Request \ {r} : estatus[s] # "none" => elease[s] \in Version
    BY DEF TypeOK, EventTypes, Version
  <2> QED
    BY <1>1, <1>2, <1>4, <2>1, <2>2 DEF Totals, Blank
<1> HIDE DEF v
<1>7. ReservedHeld'
  BY <1>1, <1>3, <1>4, <1>5 DEF Totals, ReservedHeld
<1>8. ASSUME Provider = "anthropic" PROVE TotalsCover' /\ SupersededCarried' /\ WithinLimit'
  <2>1. TotalsCover'
    <3> SUFFICES ASSUME NEW w \in Version PROVE Carried(w) + Own(w)' <= actual[w] + reserved'[w]
      BY <1>4 DEF TotalsCover
    <3>1. Carried(w) + Own(w) <= actual[w] + reserved[w] /\ Carried(w) \in Nat
      BY <1>1, <1>8 DEF Totals, TotalsCover, Carried
    <3> QED
      BY <1>1, <1>3, <1>4, <1>5, <3>1
  <2>2. \A w \in Version : Own(w)' <= Own(w) /\ Own(w)' \in Nat
    BY <1>3
  <2>3. SupersededCarried'
    <3> SUFFICES ASSUME NEW w \in Version, lstate[w] = "superseded"
                 PROVE  w + 1 \in Written' /\ Carried(w) + Own(w)' <= Carried(w + 1)
      BY <1>4 DEF SupersededCarried
    <3>1. w + 1 \in Written /\ Carried(w) + Own(w) <= Carried(w + 1)
      BY <1>8 DEF Totals, SupersededCarried
    <3>2. w + 1 \in Written'
      BY <1>4, <3>1 DEF Written
    <3>3. Carried(w) \in Nat /\ Carried(w + 1) \in Nat
      BY <1>1, <3>1 DEF Written, Carried
    <3> QED
      BY <1>3, <2>2, <3>1, <3>2, <3>3
  <2>4. WithinLimit'
    <3> SUFFICES ASSUME NEW w \in Version, limit[w] <= Grant
                 PROVE  carried[w] = Unused /\ Own(w)' <= limit[w]
      BY <1>4 DEF WithinLimit
    <3>1. carried[w] = Unused /\ Own(w) <= limit[w]
      BY <1>8 DEF Totals, WithinLimit
    <3> QED
      BY <1>1, <1>3, <2>2, <3>1
  <2> QED
    BY <2>1, <2>3, <2>4
<1> QED
  BY <1>6, <1>7, <1>8 DEF Totals

LEMMA SettleKeepsTotals ==
  ASSUME TypeOK, TypeOK', Totals, NEW r \in Request, NEW u \in Nat, NEW s \in Final,
         Settles(r, u, s)
  PROVE  Totals'
<1> USE AmountAssumption
<1> DEFINE v == elease[r]
<1>1. /\ limit \in [Version -> Nat] /\ actual \in [Version -> Nat] /\ reserved \in [Version -> Nat]
      /\ carried \in [Version -> [reserved : Nat, actual : Nat]]
      /\ lstate \in [Version -> LeaseState] /\ v \in Version
  <2>1. estatus[r] # "none"
    BY DEF Settles, Settleable, Outstanding
  <2>2. v \in Version
    BY <2>1, LeaseAssumption DEF TypeOK, EventTypes, Version
  <2> QED
    BY <2>2 DEF TypeOK, LeaseTypes
<1>2. /\ estatus[r] \in Outstanding /\ estatus'[r] = s /\ s \notin Outstanding /\ s # "none"
      /\ UNCHANGED <<elease, meter>>
      /\ \A t \in Request \ {r} : estatus'[t] = estatus[t]
  BY DEF Settles, Settleable, SettleRow, TypeOK, EventTypes, Outstanding, Final
<1>3. ASSUME NEW w \in Version
      PROVE  /\ Held(w)' = Held(w) - IF w = v THEN Upper[r] ELSE 0
             /\ Own(w)' = Own(w) - IF w = v THEN Upper[r] - Charged[r] ELSE 0
             /\ w = v => Upper[r] <= Held(w)
             /\ Held(w) \in Nat /\ Own(w) \in Nat
             /\ Charged[r] \in Nat /\ Charged[r] <= Upper[r]
  <2>1. HeldAt(w)'[r] = 0 /\ LoadAt(w)'[r] = IF w = v THEN Charged[r] ELSE 0
    BY <1>2 DEF HeldAt, LoadAt, Load, Charged
  <2>2. HeldAt(w)[r] = (IF w = v THEN Upper[r] ELSE 0) /\ LoadAt(w)[r] = (IF w = v THEN Upper[r] ELSE 0)
    BY <1>2 DEF HeldAt, LoadAt, Load
  <2>3. Held(w) \in Nat /\ Own(w) \in Nat /\ Charged[r] \in Nat /\ Charged[r] <= Upper[r]
    BY Weights
  <2>4. /\ Held(w)' = Held(w) - HeldAt(w)[r] + HeldAt(w)'[r] /\ HeldAt(w)[r] <= Held(w)
        /\ Own(w)' = Own(w) - LoadAt(w)[r] + LoadAt(w)'[r]
    BY <1>2, WeightsChange
  <2> QED
    BY <2>1, <2>2, <2>3, <2>4
<1>4. /\ UNCHANGED <<limit, carried>> /\ \A w : Carried(w)' = Carried(w)
      /\ reserved' = [reserved EXCEPT ![v] = Released(r, v)]
      /\ actual' = [actual EXCEPT ![v] = @ + u]
      /\ Provider = "anthropic" => Charged[r] <= u
  BY DEF Settles, SettleRow, Carried
<1>5. lstate[v] # "none"
  BY <1>2 DEF Totals, Blank, Outstanding
<1>6. \A w \in Version : /\ lstate'[w] = "superseded" => lstate[w] = "superseded"
                         /\ lstate'[w] = "none" <=> lstate[w] = "none"
  BY <1>1, <1>5 DEF Settles, SettleRow, SettledState
<1>7. Released(r, v) = reserved[v] - Upper[r] /\ Upper[r] <= reserved[v]
  <2>1. reserved[v] = carried[v].reserved + Held(v) /\ carried[v].reserved \in Nat
    BY <1>1 DEF Totals, ReservedHeld
  <2>2. Upper[r] <= Held(v) /\ Held(v) \in Nat
    BY <1>1, <1>3
  <2> QED
    BY <1>1, <2>1, <2>2 DEF Released, Less
<1>8. Blank'
  <2>1. \A w \in Version : lstate'[w] = "none" => w # v
    BY <1>5, <1>6
  <2>2. \A t \in Request : estatus'[t] # "none" => estatus[t] # "none" /\ elease[t] \in Version
    BY <1>2 DEF TypeOK, EventTypes, Version, Outstanding
  <2> QED
    BY <1>1, <1>2, <1>4, <1>6, <2>1, <2>2 DEF Totals, Blank
<1> HIDE DEF v
<1>9. ReservedHeld'
  BY <1>1, <1>3, <1>4, <1>7 DEF Totals, ReservedHeld
<1>10. ASSUME Provider = "anthropic" PROVE TotalsCover' /\ SupersededCarried' /\ WithinLimit'
  <2>1. TotalsCover'
    <3> SUFFICES ASSUME NEW w \in Version PROVE Carried(w) + Own(w)' <= actual'[w] + reserved'[w]
      BY <1>4 DEF TotalsCover
    <3>1. Carried(w) + Own(w) <= actual[w] + reserved[w] /\ Carried(w) \in Nat
      BY <1>1, <1>10 DEF Totals, TotalsCover, Carried
    <3> QED
      BY <1>1, <1>3, <1>4, <1>7, <1>10, <3>1
  <2>2. \A w \in Version : Own(w)' <= Own(w)
    BY <1>3
  <2>3. SupersededCarried'
    <3> SUFFICES ASSUME NEW w \in Version, lstate[w] = "superseded"
                 PROVE  w + 1 \in Written' /\ Carried(w) + Own(w)' <= Carried(w + 1)
      BY <1>4, <1>6 DEF SupersededCarried
    <3>1. w + 1 \in Written /\ Carried(w) + Own(w) <= Carried(w + 1)
      BY <1>10 DEF Totals, SupersededCarried
    <3>2. w + 1 \in Written'
      BY <1>6, <3>1 DEF Written
    <3>3. Carried(w) \in Nat /\ Carried(w + 1) \in Nat
      BY <1>1, <3>1 DEF Written, Carried
    <3> QED
      BY <1>3, <3>1, <3>2, <3>3
  <2>4. WithinLimit'
    <3> SUFFICES ASSUME NEW w \in Version, limit[w] <= Grant
                 PROVE  carried[w] = Unused /\ Own(w)' <= limit[w]
      BY <1>4 DEF WithinLimit
    <3>1. carried[w] = Unused /\ Own(w) <= limit[w]
      BY <1>10 DEF Totals, WithinLimit
    <3> QED
      BY <1>1, <1>3, <3>1
  <2> QED
    BY <2>1, <2>3, <2>4
<1> QED
  BY <1>8, <1>9, <1>10 DEF Totals

LEMMA CreateKeepsTotals ==
  ASSUME TypeOK, Totals, NEW v \in Version, Creates(v)
  PROVE  Totals'
<1> USE AmountAssumption
<1>1. /\ limit \in [Version -> Nat] /\ lstate \in [Version -> LeaseState] /\ lstate[v] = "none"
  BY DEF TypeOK, LeaseTypes, Creates, NextVersion, Taken, Written
<1>2. /\ UNCHANGED <<actual, reserved, carried, estatus, elease, meter>>
      /\ \A w : Carried(w)' = Carried(w)
      /\ limit' = [limit EXCEPT ![v] = Grant]
      /\ lstate' = [lstate EXCEPT ![v] = "active"]
  BY DEF Creates, eventVars, Carried
<1>3. \A w : Held(w)' = Held(w) /\ Own(w)' = Own(w)
  BY <1>2, WeightsStay
<1>4. Held(v) = 0 /\ Own(v) = 0 /\ carried[v] = Unused
  BY <1>1, BlankWeighsNothing DEF Totals, Blank
<1>5. Blank'
  <2>1. \A s \in Request : estatus[s] # "none" => elease[s] \in Version
    BY DEF TypeOK, EventTypes, Version
  <2> QED
    BY <1>1, <1>2, <2>1 DEF Totals, Blank
<1>6. ReservedHeld'
  BY <1>2, <1>3 DEF Totals, ReservedHeld
<1>7. Provider = "anthropic" => TotalsCover'
  BY <1>2, <1>3 DEF Totals, TotalsCover
<1>8. Provider = "anthropic" => SupersededCarried'
  BY <1>1, <1>2, <1>3 DEF Totals, SupersededCarried, Written
<1>9. Provider = "anthropic" => WithinLimit'
  BY <1>1, <1>2, <1>3, <1>4 DEF Totals, WithinLimit
<1> QED
  BY <1>5, <1>6, <1>7, <1>8, <1>9 DEF Totals

LEMMA UpgradeKeepsTotals ==
  ASSUME TypeOK, Totals, NEW u \in Version, Upgrades(u)
  PROVE  Totals'
<1> USE AmountAssumption
<1> DEFINE v == u + 1
<1>1. /\ limit \in [Version -> Nat] /\ actual \in [Version -> Nat] /\ reserved \in [Version -> Nat]
      /\ carried \in [Version -> [reserved : Nat, actual : Nat]]
      /\ lstate \in [Version -> LeaseState]
      /\ v \in Version /\ u # v /\ lstate[v] = "none" /\ lstate[u] \in OpenState
  BY DEF TypeOK, LeaseTypes, Upgrades, Taken, Written, Version
<1>2. /\ UNCHANGED <<estatus, elease, meter>> /\ Provider = "anthropic"
      /\ limit' = [limit EXCEPT ![v] = limit[u] + Grant]
      /\ lstate' = [lstate EXCEPT ![u] = "superseded", ![v] = "active"]
      /\ reserved' = [reserved EXCEPT ![v] = reserved[u]]
      /\ actual' = [actual EXCEPT ![v] = actual[u]]
      /\ carried' = [carried EXCEPT ![v] = [reserved |-> reserved[u], actual |-> actual[u]]]
  BY DEF Upgrades, eventVars
<1>3. \A w : Held(w)' = Held(w) /\ Own(w)' = Own(w)
  BY <1>2, WeightsStay
<1>4. Held(v) = 0 /\ Own(v) = 0
  BY <1>1, BlankWeighsNothing DEF Totals
<1>5. /\ \A w \in Version \ {v} : Carried(w)' = Carried(w)
      /\ Carried(v)' = actual[u] + reserved[u]
  BY <1>1, <1>2 DEF Carried
<1>6. \A w \in Version : lstate'[w] # "none" <=> lstate[w] # "none" \/ w = v
  BY <1>1, <1>2 DEF OpenState
<1>7. limit[u] >= Grant
  BY <1>1 DEF Totals, Blank, OpenState
<1>8. Blank'
  <2>1. \A s \in Request : estatus[s] # "none" => elease[s] \in Version
    BY DEF TypeOK, EventTypes, Version
  <2> HIDE DEF v
  <2> QED
    BY <1>1, <1>2, <1>6, <1>7, <2>1 DEF Totals, Blank
<1> HIDE DEF v
<1>9. ReservedHeld'
  BY <1>1, <1>2, <1>3, <1>4 DEF Totals, ReservedHeld
<1>10. TotalsCover'
  <2> SUFFICES ASSUME NEW w \in Version PROVE (Carried(w) + Own(w) <= actual[w] + reserved[w])'
    BY DEF TotalsCover
  <2>1. CASE w = v
    BY <1>1, <1>2, <1>3, <1>4, <1>5, <2>1
  <2>2. CASE w # v
    BY <1>1, <1>2, <1>3, <1>5, <2>2 DEF Totals, TotalsCover
  <2> QED
    BY <2>1, <2>2
<1>11. SupersededCarried'
  <2> SUFFICES ASSUME NEW w \in Version, lstate'[w] = "superseded"
               PROVE  w + 1 \in Written' /\ Carried(w)' + Own(w)' <= Carried(w + 1)'
    BY DEF SupersededCarried
  <2>1. CASE w = u
    <3>1. Carried(u) + Own(u) <= actual[u] + reserved[u]
      BY <1>2 DEF Totals, TotalsCover
    <3>2. v \in Written'
      BY <1>1, <1>6 DEF Written
    <3> QED
      BY <1>1, <1>3, <1>5, <2>1, <3>1, <3>2 DEF v
  <2>2. CASE w # u
    <3>1. w # v /\ lstate[w] = "superseded"
      BY <1>1, <1>2, <2>2
    <3>2. w + 1 \in Written /\ Carried(w) + Own(w) <= Carried(w + 1)
      BY <1>2, <3>1 DEF Totals, SupersededCarried
    <3>3. w + 1 \in Written' /\ w + 1 # v /\ w + 1 \in Version
      BY <1>1, <1>6, <3>2 DEF Written
    <3> QED
      BY <1>3, <1>5, <3>1, <3>2, <3>3
  <2> QED
    BY <2>1, <2>2
<1>12. WithinLimit'
  <2> SUFFICES ASSUME NEW w \in Version, limit'[w] <= Grant
               PROVE  carried'[w] = Unused /\ Own(w)' <= limit'[w]
    BY DEF WithinLimit
  <2>1. w # v
    BY <1>1, <1>2, <1>7
  <2> QED
    BY <1>1, <1>2, <1>3, <2>1 DEF Totals, WithinLimit
<1> QED
  BY <1>8, <1>9, <1>10, <1>11, <1>12 DEF Totals

(* Every step keeps the totals. *)
LEMMA TotalsKept ==
  ASSUME IInv, TypeOK', Totals, TargetWritten, TurnReserved, [Next]_vars
  PROVE  Totals'
<1>1. LedgerStep
  BY StepKinds DEF Totals
<1>2. TypeOK
  BY DEF IInv
<1> QED
  BY <1>1, <1>2, QuietKeepsTotals, SendKeepsTotals, InsertKeepsTotals, ReleaseKeepsTotals,
     SettleKeepsTotals, CreateKeepsTotals, UpgradeKeepsTotals DEF LedgerStep

----------------------------------------------------------------------------
(* A lease that has a row keeps one. *)
LEMMA WrittenStays ==
  ASSUME TypeOK, LedgerStep, NEW v \in Version, lstate[v] # "none"
  PROVE  lstate'[v] # "none"
<1>1. lstate \in [Version -> LeaseState]
  BY DEF TypeOK, LeaseTypes
<1>2. CASE Quiet
  BY <1>2 DEF Quiet
<1>3. ASSUME NEW c \in Caller, Sends(c) PROVE lstate'[v] # "none"
  BY <1>3 DEF Sends, leaseVars
<1>4. ASSUME NEW r \in Request, NEW w \in Version, Inserts(r, w) PROVE lstate'[v] # "none"
  BY <1>1, <1>4 DEF Inserts, Insert
<1>5. ASSUME NEW r \in Request, Releases(r) PROVE lstate'[v] # "none"
  BY <1>1, <1>5 DEF Releases
<1>6. ASSUME NEW r \in Request, NEW u \in Nat, NEW s \in Final, Settles(r, u, s)
      PROVE  lstate'[v] # "none"
  BY <1>1, <1>6 DEF Settles, SettleRow, SettledState
<1>7. ASSUME NEW w \in Version, Creates(w) \/ Upgrades(w) PROVE lstate'[v] # "none"
  BY <1>1, <1>7 DEF Creates, Upgrades
<1> QED
  BY <1>2, <1>3, <1>4, <1>5, <1>6, <1>7 DEF LedgerStep

(* A call leaves the target and the charge of the others alone. *)
LEMMA OthersKeepTarget ==
  ASSUME TypeOK, NEW c \in Caller, Call(c), NEW d \in Caller \ {c}
  PROVE  target'[d] = target[d] /\ cost'[d] = cost[d]
BY DEF TypeOK, CallTypes, Call, Dispatch, Preflight, EndCall, Expire, Authorize, Reserve,
       FindRefused, Exhaust, ReleaseUnsent, Send, Settle, MarkUncertain, Goto, Return

(* Every step keeps the rows that are about to be exhausted. *)
LEMMA TargetWrittenKept ==
  ASSUME IInv, Totals, TargetWritten, TurnReserved, [Next]_vars
  PROVE  TargetWritten'
<1> TypeOK /\ Version \subseteq Version'
  BY DEF IInv, Version
<1>1. Written \subseteq Written'
  BY StepKinds, WrittenStays DEF Totals, Written
<1>2. ASSUME NEW c \in Caller, Call(c) PROVE TargetWritten'
  <2> SUFFICES ASSUME NEW d \in Caller, pc'[d] = "exhausting" PROVE target'[d] \in Written'
    BY DEF TargetWritten
  <2>1. CASE d # c
    BY <1>1, <1>2, <2>1, OthersStay, OthersKeepTarget DEF TargetWritten
  <2>2. CASE d = c
    <3>1. FindRefused(c)
      BY <1>2, <2>2 DEF Call, Dispatch, Preflight, EndCall, Expire, Authorize, Reserve, Exhaust,
            ReleaseUnsent, Send, Settle, MarkUncertain, Goto, Return, TypeOK, CallTypes
    <3>2. target'[c] \in Written
      BY <2>2, <3>1 DEF FindRefused, Goto, Return, TypeOK, CallTypes, Written, Usable
    <3> QED
      BY <1>1, <2>2, <3>2
  <2> QED
    BY <2>1, <2>2
<1>3. CASE UNCHANGED callVars
  BY <1>1, <1>3 DEF TargetWritten, callVars
<1>4. CASE Founder \/ Tick \/ UNCHANGED vars
  BY <1>3, <1>4, FounderLeavesCalls DEF Tick, vars, callVars
<1>5. CASE Restart
  BY <1>5 DEF Restart, TargetWritten
<1> QED
  BY <1>2, <1>4, <1>5 DEF Next

(* Only a call that sends is charged. *)
LEMMA ChargesComeFromSends ==
  ASSUME NEW c \in Caller, Call(c), ~Send(c)
  PROVE  UNCHANGED <<meter, sends>>
BY DEF Call, Dispatch, Preflight, EndCall, Expire, Authorize, Reserve, FindRefused, Exhaust,
       ReleaseUnsent, Settle, MarkUncertain, historyVars

(* Every step keeps what was not sent uncharged. *)
LEMMA MeteredKept ==
  ASSUME IInv, Metered, [Next]_vars
  PROVE  Metered'
<1>1. CASE UNCHANGED <<meter, sends>>
  BY <1>1 DEF Metered
<1>2. ASSUME NEW c \in Caller, Send(c) PROVE Metered'
  <2>1. req[c] \in Request /\ sends \in [Request -> Nat] /\ meter \in [Request -> Nat]
    BY <1>2 DEF Send, At, IInv, HoldsRequest, Holding, TypeOK, HistoryTypes
  <2>2. PICK b : meter' = [meter EXCEPT ![req[c]] = @ + b]
    BY <1>2 DEF Send
  <2>3. sends' = [sends EXCEPT ![req[c]] = @ + 1]
    BY <1>2 DEF Send
  <2>4. sends'[req[c]] # 0 /\ \A r \in Request \ {req[c]} : sends'[r] = sends[r] /\ meter'[r] = meter[r]
    BY <2>1, <2>2, <2>3
  <2> QED
    BY <2>4 DEF Metered
<1>3. CASE Founder \/ Tick \/ Restart \/ UNCHANGED vars
  BY <1>1, <1>3, FounderLeavesCalls DEF Tick, Restart, vars, historyVars
<1> QED
  BY <1>1, <1>2, <1>3, ChargesComeFromSends DEF Next

(* A call touches the row and the charge of its own request only. *)
LEMMA OwnRowOnly ==
  ASSUME TypeOK, NEW c \in Caller, Call(c), NEW r \in Request,
         r # req[c] \/ pc[c] \notin Holding
  PROVE  estatus'[r] = estatus[r] /\ meter'[r] = meter[r]
<1>1. CASE Dispatch(c) \/ Preflight(c) \/ EndCall(c) \/ Authorize(c) \/ FindRefused(c)
  BY <1>1, ReadsLeaveRows DEF eventVars, Dispatch, Preflight, EndCall, Authorize, FindRefused, historyVars
<1>2. CASE Expire(c) \/ Exhaust(c)
  BY <1>2 DEF Expire, Exhaust, eventVars, historyVars
<1>3. CASE Reserve(c)
  BY <1>3 DEF Reserve, Insert, eventVars, TypeOK, EventTypes, At, Holding, Asking
<1>4. CASE Settle(c)
  BY <1>4 DEF Settle, SettleRow, eventVars, TypeOK, EventTypes, At, Holding, Sent
<1>5. CASE MarkUncertain(c)
  BY <1>5 DEF MarkUncertain, TypeOK, EventTypes, At, Holding, Sent
<1>6. CASE ReleaseUnsent(c)
  BY <1>6 DEF ReleaseUnsent, Delete, TypeOK, EventTypes, historyVars, Unsent, At, Holding
<1>7. CASE Send(c)
  BY <1>7 DEF Send, TypeOK, HistoryTypes, eventVars, At, Holding
<1> QED
  BY <1>1, <1>2, <1>3, <1>4, <1>5, <1>6, <1>7 DEF Call

(* Every step keeps the reservation of a build turn that is being sent. *)
LEMMA TurnReservedKept ==
  ASSUME IInv, Metered, TurnReserved, [Next]_vars
  PROVE  TurnReserved'
<1> USE DEF IInv
<1> DEFINE Late == {"sending"} \cup Sent
<1>1. ASSUME NEW c \in Caller, Call(c) PROVE TurnReserved'
  <2> SUFFICES ASSUME Provider = "anthropic", NEW d \in Caller, pc'[d] \in Late
               PROVE  /\ estatus'[req'[d]] = "reserved"
                      /\ pc'[d] \in Sent => meter'[req'[d]] = cost'[d]
    BY DEF TurnReserved
  <2>1. CASE d # c
    <3>1. pc'[d] = pc[d] /\ req'[d] = req[d] /\ cost'[d] = cost[d] /\ req[d] \in Request
      BY <1>1, <2>1, OthersStay, OthersKeepTarget DEF HoldsRequest, Holding
    <3>2. req[d] # req[c] \/ pc[c] \notin Holding
      BY <2>1, <3>1 DEF OwnRequest, Holding
    <3>3. estatus'[req[d]] = estatus[req[d]] /\ meter'[req[d]] = meter[req[d]]
      BY <1>1, <3>1, <3>2, OwnRowOnly
    <3> QED
      BY <3>1, <3>3 DEF TurnReserved
  <2>2. CASE d = c
    <3>1. CASE Reserve(c)
      <4>1. req[c] \in Request /\ req'[c] = req[c] /\ pc'[c] = "sending"
        BY <2>2, <3>1 DEF Reserve, At, HoldsRequest, Holding, Asking, Return, Goto, TypeOK,
                          CallTypes, Sent
      <4>2. estatus'[req[c]] = "reserved"
        BY <2>2, <3>1, <4>1 DEF Reserve, Insert, Return, Goto, eventVars, TypeOK, CallTypes,
                                EventTypes, Sent
      <4> QED
        BY <2>2, <4>1, <4>2 DEF Sent
    <3>2. CASE Send(c)
      <4>1. req[c] \in Request /\ req'[c] = req[c] /\ estatus[req[c]] = "reserved"
        BY <3>2 DEF Send, At, HoldsRequest, Holding, TurnReserved
      <4>2. UNCHANGED estatus
        BY <3>2 DEF Send, eventVars
      <4>3. meter[req[c]] = 0
        BY <3>2, <4>1 DEF Send, At, NotYetSent, Metered
      <4>4. PICK b \in Bill : /\ cost' = [cost EXCEPT ![c] = b]
                              /\ meter' = [meter EXCEPT ![req[c]] = @ + b]
        BY <3>2 DEF Send
      <4>5. meter'[req[c]] = b /\ cost'[c] = b
        BY <4>1, <4>3, <4>4, AmountAssumption DEF TypeOK, HistoryTypes, CallTypes
      <4> QED
        BY <2>2, <4>1, <4>2, <4>5
    <3>3. CASE Settle(c)
      <4>1. UNCHANGED <<leaseVars, eventVars, held, req, target, cost, meter>> /\ pc[c] = "waiting"
        BY <2>2, <3>3 DEF Settle, Goto, Return, At, TypeOK, CallTypes, Sent
      <4> QED
        BY <2>2, <4>1 DEF eventVars, TurnReserved, Sent
    <3>4. CASE ~Reserve(c) /\ ~Send(c) /\ ~Settle(c)
      BY <1>1, <2>2, <3>4 DEF Call, Dispatch, Preflight, EndCall, Expire, Authorize, FindRefused,
            Exhaust, ReleaseUnsent, MarkUncertain, Goto, Return, TypeOK, CallTypes, Sent
    <3> QED
      BY <3>1, <3>2, <3>3, <3>4
  <2> QED
    BY <2>1, <2>2
<1>2. CASE UNCHANGED <<callVars, estatus, meter>>
  BY <1>2 DEF TurnReserved, callVars
<1>3. CASE Founder \/ Tick \/ UNCHANGED vars
  BY <1>2, <1>3, FounderLeavesCalls DEF Tick, vars, callVars, eventVars, historyVars
<1>4. CASE Restart
  BY <1>4 DEF Restart, TurnReserved, Sent
<1> QED
  BY <1>1, <1>3, <1>4 DEF Next

(* Every step keeps the turn numbers apart and within the limits: a row is *)
(* inserted with the next number, and only when no row of its lease has it.*)
LEMMA TurnsNumberedKept ==
  ASSUME TypeOK, Blank, TurnsNumbered, LedgerStep
  PROVE  TurnsNumbered'
<1> USE LeaseAssumption, AmountAssumption
<1>0. /\ limit \in [Version -> Nat] /\ turnLimit \in [Version -> Nat] /\ turns \in [Version -> Nat]
      /\ lstate \in [Version -> LeaseState]
      /\ estatus \in [Request -> EventStatus] /\ elease \in [Request -> 0..MaxVersion]
      /\ eturn \in [Request -> Nat] /\ 0 \notin Version
      /\ \A r \in Request : estatus[r] = "none" <=> elease[r] = 0
      /\ \A r \in Request : estatus[r] # "none" => elease[r] \in Version
  <2>1. \A r \in Request : estatus[r] # "none" => elease[r] \in Version
    BY DEF TypeOK, EventTypes, Version
  <2>2. 0 \notin Version
    BY DEF Version
  <2> QED
    BY <2>1, <2>2 DEF TypeOK, LeaseTypes, EventTypes
<1>1. ASSUME UNCHANGED <<limit, turnLimit, elease, eturn>>,
             \A r \in Request : estatus'[r] = "none" <=> estatus[r] = "none"
      PROVE  TurnsNumbered'
  BY <1>1 DEF TurnsNumbered, NeverEnlarged
<1>2. CASE Quiet \/ \E c \in Caller : Sends(c)
  BY <1>1, <1>2 DEF Quiet, Sends, leaseVars, eventVars
<1>3. ASSUME NEW r \in Request, NEW u \in Nat, NEW s \in Final, Settles(r, u, s) PROVE TurnsNumbered'
  BY <1>0, <1>1, <1>3 DEF Settles, SettleRow, Settleable, Outstanding, Final
<1>4. ASSUME NEW r \in Request, Releases(r) PROVE TurnsNumbered'
  <2>1. /\ UNCHANGED <<limit, turnLimit>>
        /\ estatus'[r] = "none" /\ elease'[r] = 0
        /\ \A s \in Request \ {r} :
               estatus'[s] = estatus[s] /\ elease'[s] = elease[s] /\ eturn'[s] = eturn[s]
    BY <1>0, <1>4 DEF Releases, Delete
  <2> QED
    BY <1>0, <2>1 DEF TurnsNumbered, NeverEnlarged
<1>5. ASSUME NEW r \in Request, NEW v \in Version, Inserts(r, v) PROVE TurnsNumbered'
  <2>1. /\ UNCHANGED <<limit, turnLimit>>
        /\ estatus'[r] = "reserved" /\ elease'[r] = v /\ eturn'[r] = turns[v] + 1
        /\ \A s \in Request \ {r} :
               estatus'[s] = estatus[s] /\ elease'[s] = elease[s] /\ eturn'[s] = eturn[s]
    BY <1>0, <1>5 DEF Inserts, Insert
  <2>2. turns[v] + 1 \in 1..turnLimit[v]
    BY <1>0, <1>5 DEF Inserts, Fits
  <2>3. \A s \in Request : estatus[s] # "none" /\ elease[s] = v => eturn[s] # turns[v] + 1
    BY <1>5 DEF Inserts, TurnFree
  <2>4. ASSUME NEW s \in Request, NEW t \in Request, s # t, estatus'[s] # "none", elease'[s] = elease'[t]
        PROVE  eturn'[s] # eturn'[t]
    <3>1. CASE s # r /\ t # r
      BY <2>1, <2>4, <3>1 DEF TurnsNumbered
    <3>2. CASE s = r
      BY <1>0, <2>1, <2>3, <2>4, <3>2
    <3>3. CASE t = r
      BY <1>0, <2>1, <2>3, <2>4, <3>3
    <3> QED
      BY <3>1, <3>2, <3>3
  <2>5. \A s \in Request : estatus'[s] # "none" => eturn'[s] \in 1..turnLimit'[elease'[s]]
    BY <2>1, <2>2 DEF TurnsNumbered
  <2> QED
    BY <2>1, <2>4, <2>5 DEF TurnsNumbered, NeverEnlarged
<1>6. ASSUME NEW v \in Version, lstate[v] = "none", UNCHANGED eventVars, NEW n \in Nat, NEW k \in Nat,
             limit' = [limit EXCEPT ![v] = n], turnLimit' = [turnLimit EXCEPT ![v] = k],
             \/ n > Grant /\ Provider = "anthropic"
             \/ n = Grant /\ k = TurnGrant
      PROVE  TurnsNumbered'
  <2>1. \A r \in Request : estatus[r] # "none" => elease[r] # v
    BY <1>6 DEF Blank
  <2>2. UNCHANGED <<estatus, elease, eturn>>
    BY <1>6 DEF eventVars
  <2>3. \A r \in Request : estatus'[r] # "none" => eturn'[r] \in 1..turnLimit'[elease'[r]]
    BY <1>0, <1>6, <2>1, <2>2 DEF TurnsNumbered
  <2>4. \A w \in Version : limit'[w] <= Grant => turnLimit'[w] <= TurnGrant
    BY <1>0, <1>6 DEF TurnsNumbered
  <2>5. Provider = "openai" => NeverEnlarged'
    BY <1>0, <1>6 DEF TurnsNumbered, NeverEnlarged
  <2> QED
    BY <2>2, <2>3, <2>4, <2>5 DEF TurnsNumbered
<1>7. ASSUME NEW v \in Version, Creates(v) PROVE TurnsNumbered'
  <2>1. lstate[v] = "none"
    BY <1>7 DEF Creates, NextVersion, Taken, Written
  <2>2. /\ UNCHANGED eventVars
        /\ limit' = [limit EXCEPT ![v] = Grant]
        /\ turnLimit' = [turnLimit EXCEPT ![v] = TurnGrant]
        /\ Grant \in Nat /\ TurnGrant \in Nat
    BY <1>7 DEF Creates
  <2> QED
    BY <1>6, <2>1, <2>2, Zenon
<1>8. ASSUME NEW u \in Version, Upgrades(u) PROVE TurnsNumbered'
  <2> DEFINE v == u + 1
             n == limit[u] + Grant
             k == turnLimit[u] + TurnGrant
  <2>1. n \in Nat /\ n > Grant /\ k \in Nat
    BY <1>0, <1>8 DEF Upgrades, Blank, OpenState
  <2>2. lstate[v] = "none" /\ v \in Version
    BY <1>8 DEF Upgrades, Taken, Written
  <2>3. /\ UNCHANGED eventVars /\ Provider = "anthropic"
        /\ limit' = [limit EXCEPT ![v] = n]
        /\ turnLimit' = [turnLimit EXCEPT ![v] = k]
    BY <1>8 DEF Upgrades
  <2>4. \/ n > Grant /\ Provider = "anthropic"
        \/ n = Grant /\ k = TurnGrant
    BY <2>1, <2>3
  <2> HIDE DEF v, n, k
  <2> QED
    BY <1>6, <2>1, <2>2, <2>3, <2>4
<1> QED
  BY <1>2, <1>3, <1>4, <1>5, <1>7, <1>8 DEF LedgerStep

----------------------------------------------------------------------------
(* Initially nothing weighs anything. *)
LEMMA InitSums == Init => SumInv
<1> SUFFICES ASSUME Init PROVE SumInv
  OBVIOUS
<1> USE LeaseAssumption, AmountAssumption
<1>1. IInv
  BY InitInvariant
<1>2. TargetWritten /\ Metered /\ TurnReserved
  BY DEF Init, TargetWritten, Metered, TurnReserved, Sent
<1>3. ASSUME NEW v \in Version PROVE Held(v) = 0 /\ Own(v) = 0
  <2>1. \A r \in Request : elease[r] # v
    BY DEF Init, Version
  <2> QED
    BY <2>1, SumZero DEF Held, Own, HeldAt, LoadAt
<1>4. Blank
  BY DEF Init, Blank, Unused
<1>5. ReservedHeld /\ TotalsCover /\ SupersededCarried /\ WithinLimit
  BY <1>3 DEF Init, ReservedHeld, TotalsCover, SupersededCarried, WithinLimit, Carried, Unused
<1>6. TurnsNumbered
  BY DEF Init, TurnsNumbered, NeverEnlarged
<1> QED
  BY <1>1, <1>2, <1>4, <1>5, <1>6 DEF SumInv, Totals

(* The sums, and what they rest on, hold in every reachable state. *)
THEOREM LedgerSums == Spec => []SumInv
<1>1. SumInv /\ [Next]_vars => SumInv'
  <2> SUFFICES ASSUME SumInv, [Next]_vars PROVE SumInv'
    OBVIOUS
  <2> USE DEF SumInv
  <2>1. IInv'
    BY TypeStep, HoldsRequestKept, RowWhileSendingKept, OwnRequestKept, NotYetSentKept,
       NothingUnrecordedKept DEF IInv
  <2>2. TypeOK /\ TypeOK' /\ Blank /\ LedgerStep
    BY <2>1, StepKinds DEF IInv, Totals
  <2>3. Totals' /\ TurnsNumbered'
    BY <2>2, TotalsKept, TurnsNumberedKept
  <2>4. TargetWritten' /\ Metered' /\ TurnReserved'
    BY TargetWrittenKept, MeteredKept, TurnReservedKept
  <2> QED
    BY <2>1, <2>3, <2>4
<1> QED
  BY <1>1, InitSums, PTL DEF Spec

----------------------------------------------------------------------------
(* Summing over a part is summing with nothing elsewhere. *)
LEMMA SumPart ==
  ASSUME NEW S, NEW T \in SUBSET S, NEW f
  PROVE  Sum(f, T) = Sum([x \in S |-> IF x \in T THEN f[x] ELSE 0], S)
<1> DEFINE g == [x \in S |-> IF x \in T THEN f[x] ELSE 0]
<1>1. \A u : u \in Units(f, T) <=> u \in Units(g, S)
  <2> SUFFICES ASSUME NEW u
               PROVE  (\E x \in T : \E i \in 1..f[x] : u = <<x, i>>)
                        <=> (\E x \in S : \E i \in 1..g[x] : u = <<x, i>>)
    BY UnitsOf
  <2>1. \A x \in T : g[x] = f[x]
    OBVIOUS
  <2>2. \A x \in S \ T : 1..g[x] = {}
    OBVIOUS
  <2> QED
    BY <2>1, <2>2
<1>2. Units(f, T) = Units(g, S)
  BY <1>1
<1> QED
  BY <1>2 DEF Sum

(* ReservedAgrees: at every moment what a lease reserves is what it began  *)
(* with and what its outstanding rows reserve, whatever was released,      *)
(* settled, marked uncertain or cut by a restart.                          *)
THEOREM ReservationsAgree == Spec => []ReservedAgrees
<1>1. SumInv => ReservedAgrees
  <2> SUFFICES ASSUME SumInv, NEW v \in Version
               PROVE  reserved[v] = carried[v].reserved
                        + Sum(Upper, {r \in Request : elease[r] = v /\ estatus[r] \in Outstanding})
    BY DEF ReservedAgrees
  <2> DEFINE T == {r \in Request : elease[r] = v /\ estatus[r] \in Outstanding}
  <2>1. [r \in Request |-> IF r \in T THEN Upper[r] ELSE 0] = HeldAt(v)
    BY DEF HeldAt
  <2>2. T \in SUBSET Request
    OBVIOUS
  <2> HIDE DEF T
  <2>3. Sum(Upper, T) = Held(v)
    BY <2>1, <2>2, SumPart DEF Held
  <2> QED
    BY <2>3 DEF T, SumInv, Totals, ReservedHeld
<1> QED
  BY <1>1, LedgerSums, PTL

(* What the provider charged is within the weights of the written leases.  *)
LEMMA ChargesAreWeighed ==
  ASSUME SumInv
  PROVE  /\ IsFiniteSet(Written)
         /\ [v \in Written |-> Own(v)] \in [Written -> Nat]
         /\ Sum(Charged, Request) \in Nat
         /\ Sum(Charged, Request) <= Sum([v \in Written |-> Own(v)], Written)
<1> USE LeaseAssumption
<1> DEFINE Rows == {r \in Request : estatus[r] # "none"}
           Fiber(v) == {r \in Rows : elease[r] = v}
           W == Written
           F == [v \in W |-> Sum(Load, Fiber(v))]
           h == [r \in Rows |-> elease[r]]
           l == [r \in Rows |-> Load[r]]
           G == [v \in W |-> Sum(l, {r \in Rows : h[r] = v})]
<1>1. TypeOK /\ Load \in [Request -> Nat]
      /\ \A r \in Request : Charged[r] \in Nat /\ Charged[r] <= Upper[r] /\ Upper[r] \in Nat
  BY Weights, AmountAssumption DEF SumInv, IInv
<1>2. IsFiniteSet(W) /\ IsFiniteSet(Rows)
  <2>1. IsFiniteSet(Version)
    BY FS_Interval DEF Version
  <2>2. W \in SUBSET Version /\ Rows \in SUBSET Request
    BY DEF Written
  <2> QED
    BY <2>1, <2>2, FS_Subset
<1>3. \A r \in Request : Charged[r] <= Load[r]
  <2>1. \A r \in Request : estatus[r] = "none" => Charged[r] = 0
    <3> SUFFICES ASSUME NEW r \in Request, estatus[r] = "none" PROVE Charged[r] = 0
      OBVIOUS
    <3>1. sends[r] \in Nat /\ ~(sends[r] > 0)
      BY DEF SumInv, IInv, NothingUnrecorded, TypeOK, HistoryTypes
    <3>2. meter[r] = 0
      BY <3>1 DEF SumInv, Metered
    <3> QED
      BY <1>1, <3>2 DEF Charged, Least
  <2> QED
    BY <1>1, <2>1 DEF Load
<1>4. Sum(Charged, Request) \in Nat /\ Sum(Charged, Request) <= Sum(Load, Request)
  <2> HIDE DEF Rows
  <2> QED
    BY <1>1, <1>3, SumLE, SumNat
<1>5. Sum(Load, Request) = Sum(Load, Rows)
  <2>1. Load = [x \in Request |-> IF x \in Rows THEN Load[x] ELSE 0]
    BY DEF Load, Outstanding
  <2>2. Rows \in SUBSET Request
    OBVIOUS
  <2> HIDE DEF Rows
  <2>3. Sum(Load, Rows) = Sum([x \in Request |-> IF x \in Rows THEN Load[x] ELSE 0], Request)
    BY <2>2, SumPart, Zenon
  <2> QED
    BY <2>1, <2>3
<1>6. h \in [Rows -> W] /\ l \in [Rows -> Nat]
  <2>1. \A r \in Rows : elease[r] \in Version
    BY <1>1 DEF TypeOK, EventTypes, Version
  <2>2. \A r \in Rows : elease[r] \in W
    BY <2>1 DEF SumInv, Totals, Blank, Written
  <2> QED
    BY <1>1, <2>2
<1>7. Sum(l, Rows) = Sum(Load, Rows) /\ \A v : Sum(l, {r \in Rows : h[r] = v}) = Sum(Load, Fiber(v))
  <2>1. \A r \in Rows : l[r] = Load[r]
    OBVIOUS
  <2>2. \A v : {r \in Rows : h[r] = v} = Fiber(v)
    OBVIOUS
  <2>3. \A v : \A r \in Fiber(v) : l[r] = Load[r]
    OBVIOUS
  <2> HIDE DEF Rows, l, h, Fiber
  <2> QED
    BY <2>1, <2>2, <2>3, SumSame
<1>8. Sum(G, W) = Sum(l, Rows)
  <2> HIDE DEF Rows, l, h, W
  <2> QED
    BY <1>2, <1>6, SumFibers
<1>9. \A v \in W : G[v] = Own(v)
  <2> SUFFICES ASSUME NEW v \in W PROVE Sum(Load, Fiber(v)) = Own(v)
    BY <1>7
  <2> DEFINE T == Fiber(v)
  <2>1. [r \in Request |-> IF r \in T THEN Load[r] ELSE 0] = LoadAt(v)
    BY DEF LoadAt, Load, Outstanding
  <2>2. T \in SUBSET Request
    OBVIOUS
  <2> HIDE DEF T
  <2>3. Sum(Load, T) = Sum([r \in Request |-> IF r \in T THEN Load[r] ELSE 0], Request)
    BY <2>2, SumPart, Zenon
  <2>4. Sum(Load, T) = Own(v)
    BY <2>1, <2>3 DEF Own
  <2> QED
    BY <2>4 DEF T
<1>10. Sum(G, W) = Sum([v \in W |-> Own(v)], W)
  <2> DEFINE O == [v \in W |-> Own(v)]
  <2>1. \A v \in W : G[v] = O[v]
    BY <1>9
  <2> HIDE DEF G, O
  <2>2. Sum(G, W) = Sum(O, W)
    BY <2>1, SumSame
  <2> QED
    BY <2>2 DEF O
<1>11. \A v \in W : Own(v) \in Nat
  BY <1>1, Weights
<1> QED
  BY <1>2, <1>4, <1>5, <1>7, <1>8, <1>10, <1>11

(* SpendWithinGrants: as long as no lease was enlarged, build turns never  *)
(* spend more than the approvals granted together, whatever the calls,     *)
(* renewals and restarts between them.                                     *)
THEOREM SpendIsGranted ==
  ASSUME Provider = "anthropic"
  PROVE  Spec => []SpendWithinGrants
<1>1. SumInv => SpendWithinGrants
  <2> SUFFICES ASSUME SumInv, NeverEnlarged PROVE Sum(Charged, Request) <= Granted
    BY DEF SpendWithinGrants
  <2> DEFINE W == Written
             O == [v \in W |-> Own(v)]
             K == [v \in W |-> Grant]
  <2>1. IsFiniteSet(W) /\ O \in [W -> Nat] /\ Sum(Charged, Request) \in Nat
        /\ Sum(Charged, Request) <= Sum(O, W)
    BY ChargesAreWeighed
  <2>2. \A v \in W : O[v] <= K[v] /\ K[v] \in Nat
    <3> SUFFICES ASSUME NEW v \in W PROVE Own(v) <= Grant
      BY AmountAssumption
    <3>1. v \in Version /\ limit[v] <= Grant /\ limit[v] \in Nat
      BY DEF Written, NeverEnlarged, SumInv, IInv, TypeOK, LeaseTypes
    <3>2. Own(v) <= limit[v] /\ Own(v) \in Nat
      BY <2>1, <3>1, Weights DEF SumInv, IInv, Totals, WithinLimit
    <3> QED
      BY <3>1, <3>2, AmountAssumption
  <2>3. Sum(K, W) = Grant * Cardinality(W)
    <3> HIDE DEF W
    <3> QED
      BY <2>1, SumConst, AmountAssumption
  <2>4. Sum(O, W) <= Sum(K, W)
    <3> HIDE DEF O, K, W
    <3> QED
      BY <2>1, <2>2, SumLE
  <2>5. Sum(O, W) \in Nat /\ Sum(K, W) \in Nat
    <3> HIDE DEF O, K, W
    <3> QED
      BY <2>1, <2>2, SumNat
  <2> HIDE DEF O, K
  <2> QED
    BY <2>1, <2>3, <2>4, <2>5 DEF Granted
<1> QED
  BY <1>1, LedgerSums, PTL

(* SpendCovered: the totals the ceilings are checked against never lose    *)
(* what the provider charged for build turns.                              *)
THEOREM SpendIsCovered ==
  ASSUME Provider = "anthropic"
  PROVE  Spec => []SpendCovered
<1>1. SumInv => SpendCovered
  <2> SUFFICES ASSUME SumInv
               PROVE  Sum(Charged, Request) <= Sum(actual, Ledger) + Sum(reserved, Ledger)
    BY DEF SpendCovered
  <2> DEFINE W == Written
             L == Ledger
             P == {v \in Version : lstate[v] = "superseded"}
             O == [v \in W |-> Own(v)]
             C == [v \in W |-> Carried(v)]
             CO == [v \in W |-> C[v] + O[v]]
             A == [v \in L |-> actual[v]]
             R == [v \in L |-> reserved[v]]
             AR == [v \in L |-> A[v] + R[v]]
             N == [v \in P |-> C[v + 1]]
             next == [v \in P |-> v + 1]
  <2>1. /\ IsFiniteSet(W) /\ O \in [W -> Nat] /\ Sum(Charged, Request) \in Nat
        /\ Sum(Charged, Request) <= Sum(O, W)
    BY ChargesAreWeighed
  <2>2. W = L \cup P /\ L \cap P = {} /\ L \in SUBSET W /\ P \in SUBSET W /\ W \in SUBSET Version
    BY DEF Ledger, Written
  <2>3. IsFiniteSet(L) /\ IsFiniteSet(P)
    <3> HIDE DEF W, L, P
    <3> QED
      BY <2>1, <2>2, FS_Subset
  <2>4. /\ actual \in [Version -> Nat] /\ reserved \in [Version -> Nat]
        /\ carried \in [Version -> [reserved : Nat, actual : Nat]]
    BY DEF SumInv, IInv, TypeOK, LeaseTypes
  <2>5. C \in [W -> Nat] /\ CO \in [W -> Nat]
    BY <2>1, <2>2, <2>4 DEF Carried
  <2>6. A \in [L -> Nat] /\ R \in [L -> Nat] /\ AR \in [L -> Nat]
    BY <2>2, <2>4
  <2>7. \A v \in L : CO[v] <= AR[v]
    <3> SUFFICES ASSUME NEW v \in L PROVE Carried(v) + Own(v) <= actual[v] + reserved[v]
      BY <2>2
    <3> QED
      BY <2>2 DEF SumInv, Totals, TotalsCover
  <2>8. next \in Injection(P, W) /\ \A v \in P : N[v] = C[next[v]] /\ N[v] \in Nat /\ CO[v] <= N[v]
    <3>1. ASSUME NEW v \in P PROVE v + 1 \in W /\ Carried(v) + Own(v) <= Carried(v + 1)
      BY <3>1 DEF SumInv, Totals, SupersededCarried
    <3>2. \A u, v \in P : u + 1 = v + 1 => u = v
      BY DEF Version
    <3>3. next \in Injection(P, W)
      BY <3>1, <3>2 DEF Injection, IsInjective
    <3> QED
      BY <2>2, <2>5, <3>1, <3>3
  <2> HIDE DEF W, L, P
  <2>9. Sum(CO, W) = Sum(C, W) + Sum(O, W)
    <3> HIDE DEF C, O
    <3> QED
      BY <2>1, <2>5, SumAdd
  <2>10. Sum(AR, L) = Sum(A, L) + Sum(R, L)
    <3> HIDE DEF A, R
    <3> QED
      BY <2>3, <2>6, SumAdd
  <2>11. Sum(A, L) = Sum(actual, L) /\ Sum(R, L) = Sum(reserved, L)
    <3>1. \A v \in L : A[v] = actual[v] /\ R[v] = reserved[v]
      OBVIOUS
    <3> HIDE DEF A, R
    <3> QED
      BY <3>1, SumSame
  <2> HIDE DEF O, C, CO, A, R, AR, N, next
  <2>12. Sum(CO, W) = Sum(CO, L) + Sum(CO, P)
    BY <2>2, <2>3, <2>5, SumUnion
  <2>13. Sum(CO, L) <= Sum(AR, L)
    BY <2>2, <2>3, <2>5, <2>6, <2>7, SumLE
  <2>14. Sum(CO, P) <= Sum(N, P)
    BY <2>2, <2>3, <2>5, <2>8, SumLE
  <2>15. Sum(N, P) <= Sum(C, W)
    BY <2>1, <2>5, <2>8, SumShift
  <2>16. /\ Sum(CO, W) \in Nat /\ Sum(CO, L) \in Nat /\ Sum(CO, P) \in Nat /\ Sum(C, W) \in Nat
         /\ Sum(O, W) \in Nat /\ Sum(N, P) \in Nat /\ Sum(A, L) \in Nat /\ Sum(R, L) \in Nat
         /\ Sum(AR, L) \in Nat
    BY <2>1, <2>2, <2>3, <2>5, <2>6, <2>8, SumNat
  <2> QED
    BY <2>1, <2>9, <2>10, <2>11, <2>12, <2>13, <2>14, <2>15, <2>16 DEF L
<1> QED
  BY <1>1, LedgerSums, PTL

(* A lease that was not enlarged sends no more requests than its turns:    *)
(* their rows have numbers of their own, within its limit.                 *)
LEMMA TurnsOfLeases ==
  ASSUME SumInv, NeverEnlarged
  PROVE  TurnsWithinGrants
<1> USE LeaseAssumption, AmountAssumption
<1> DEFINE S == {r \in Request : sends[r] > 0}
           W == Written
           B == 1..TurnGrant
           number == [r \in S |-> <<elease[r], eturn[r]>>]
<1>1. TypeOK /\ NothingUnrecorded
  BY DEF SumInv, IInv
<1>2. ASSUME NEW r \in S PROVE estatus[r] # "none" /\ elease[r] \in W /\ eturn[r] \in B
  <2>1. estatus[r] # "none" /\ elease[r] \in W
    BY <1>1 DEF NothingUnrecorded, SumInv, Totals, Blank, Written, TypeOK, EventTypes, Version
  <2>2. eturn[r] \in 1..turnLimit[elease[r]] /\ turnLimit[elease[r]] <= TurnGrant
    BY <2>1 DEF SumInv, TurnsNumbered, NeverEnlarged, Written
  <2>3. turnLimit[elease[r]] \in Nat
    BY <1>1, <2>1 DEF TypeOK, LeaseTypes, Written
  <2> QED
    BY <2>1, <2>2, <2>3
<1>3. number \in [S -> W \X B]
  BY <1>2
<1>4. ASSUME NEW r \in S, NEW s \in S, number[r] = number[s] PROVE r = s
  <2>1. elease[r] = elease[s] /\ eturn[r] = eturn[s]
    BY <1>4
  <2> QED
    BY <1>2, <2>1 DEF SumInv, TurnsNumbered
<1>5. number \in Injection(S, W \X B)
  BY <1>3, <1>4 DEF Injection, IsInjective
<1>6. IsFiniteSet(W) /\ IsFiniteSet(B) /\ Cardinality(B) = TurnGrant
  BY ChargesAreWeighed, FS_Interval
<1> HIDE DEF W, B, S, number
<1>7. IsFiniteSet(W \X B) /\ Cardinality(W \X B) = Cardinality(W) * Cardinality(B)
  BY <1>6, FS_Product, Zenon
<1>8. Cardinality(S) <= Cardinality(W \X B)
  BY <1>5, <1>7, FS_Injection
<1>9. Cardinality(W) \in Nat
  BY <1>6, FS_CardinalityType
<1>10. Cardinality(S) <= TurnGrant * Cardinality(W)
  BY <1>6, <1>7, <1>8, <1>9
<1> QED
  BY <1>10 DEF TurnsWithinGrants, TurnsGranted, S, W

(* TurnsWithinGrants: no more requests leave the process than the          *)
(* approvals granted turns; always for reviews, whose leases nothing       *)
(* enlarges, and for build turns as long as no lease was enlarged.         *)
THEOREM TurnsAreGranted ==
  Spec => [](NeverEnlarged \/ Provider = "openai" => TurnsWithinGrants)
<1>1. SumInv => (NeverEnlarged \/ Provider = "openai" => TurnsWithinGrants)
  BY TurnsOfLeases DEF SumInv, TurnsNumbered
<1> QED
  BY <1>1, LedgerSums, PTL
=============================================================================
