--------------------------- MODULE TelegramAdapter ---------------------------
(***************************************************************************)
(* TelegramAdapter: the thread that fetches the founder's messages from    *)
(* the Bot API and hands each to the channel flow, over a connection on    *)
(* which a request or its answer can be lost, in a kernel that can die.    *)
(*                                                                         *)
(* An update is its update_id. The Bot API keeps an update until a later   *)
(* one is asked for. What the flow makes of a message, and whether the     *)
(* reply is sent, no later step looks at: an error of either is caught.    *)
(* The loop is stopped only when its process exits, which ends it anyway.  *)
(***************************************************************************)
EXTENDS Naturals

CONSTANT MaxUpdate     \* bound: updates sent to the bot

ASSUME AdapterAssumption == MaxUpdate \in Nat

VARIABLES
    arrived,   \* updates 1..arrived were sent to the bot ...
    kept,      \* ... and Telegram keeps those after this one
    phase,     \* where the thread is
    offset,    \* _offset, or None
    batch,     \* the answer's updates still to be handled
    running,   \* _running
    routed,    \* history: the updates routed since the process began ...
    earlier,   \* ... and by processes before it
    begun,     \* history: the last update the process is to leave alone,
    sighted    \* and did it learn of it from Telegram?

serverVars == <<arrived, kept>>
threadVars == <<phase, offset, batch, running>>
routeVars == <<routed, earlier, begun, sighted>>
adapterVars == <<serverVars, threadVars, routeVars>>

Update == 1..MaxUpdate
None == 0

AdapterTypeOK ==
    /\ arrived \in 0..MaxUpdate /\ kept \in 0..arrived
    /\ phase \in {"off", "starting", "polling", "handling"}
    /\ offset \in 0..MaxUpdate + 1
    /\ batch \subseteq Update /\ routed \subseteq Update /\ earlier \subseteq Update
    /\ running \in BOOLEAN /\ sighted \in BOOLEAN
    /\ begun \in 0..MaxUpdate

AdapterInit ==
    /\ arrived = 0 /\ kept = 0
    /\ phase = "off"
    /\ offset = None
    /\ batch = {}
    /\ running = FALSE
    /\ routed = {} /\ earlier = {}
    /\ begun = 0 /\ sighted = FALSE

Arrive ==
    /\ arrived < MaxUpdate
    /\ arrived' = arrived + 1
    /\ UNCHANGED <<kept, threadVars, routeVars>>

----------------------------------------------------------------------------
(* getUpdates, as Telegram serves it: an offset confirms every update      *)
(* before it, -1 asks for the last and forgets the rest.                   *)
Confirmed(o) == IF o > kept + 1 THEN o - 1 ELSE kept
LastOnly == IF kept < arrived THEN arrived - 1 ELSE kept

(* An answer holds at most so many updates, the oldest first.              *)
Answers(k) == {(k + 1)..n : n \in (k + 1)..arrived} \cup {s \in {{}} : k = arrived}

(* A request that fails may have reached Telegram all the same.            *)
Asked(k) == kept' \in {kept, k}

(* start: refused without a token                                          *)
StartThread ==
    /\ phase = "off"
    /\ phase' = "starting"
    /\ UNCHANGED <<serverVars, offset, batch, running, routeVars>>

(* _latest_offset *)
LatestItself == IF kept = arrived THEN None ELSE arrived
Latest == IF kept = arrived THEN None ELSE arrived + 1

(* "Start from the latest update"; a failure is passed over.               *)
SkipBacklog ==
    /\ phase = "starting"
    /\ phase' = "polling"
    /\ \/ /\ offset' = Latest
          /\ running' = TRUE
          /\ kept' = LastOnly
          /\ begun' = arrived
          /\ sighted' = TRUE
       \/ /\ offset' = None
          /\ Asked(LastOnly)
          /\ begun' = kept'
          /\ UNCHANGED <<running, sighted>>
    /\ UNCHANGED <<arrived, batch, routed, earlier>>

(* _poll_once *)
Poll ==
    /\ phase = "polling"
    /\ kept' = Confirmed(offset)
    /\ batch' \in Answers(kept')
    /\ phase' = "handling"
    /\ UNCHANGED <<arrived, offset, running, routeVars>>

(* The thread sleeps and polls again.                                      *)
PollFails ==
    /\ phase = "polling"
    /\ Asked(Confirmed(offset))
    /\ running' = FALSE
    /\ UNCHANGED <<arrived, phase, offset, batch, routeVars>>

(* Confirmed by the next poll, whatever becomes of its handling.           *)
Handle(u) ==
    /\ phase = "handling" /\ u \in batch
    /\ \A v \in batch : u <= v
    /\ offset' = u + 1
    /\ batch' = batch \ {u}
    /\ routed' = routed \cup {u}
    /\ UNCHANGED <<serverVars, phase, running, earlier, begun, sighted>>

PollDone ==
    /\ phase = "handling" /\ batch = {}
    /\ running' = TRUE
    /\ phase' = "polling"
    /\ UNCHANGED <<serverVars, offset, batch, routeVars>>

Adapting ==
    \/ SkipBacklog \/ Poll \/ PollFails \/ PollDone
    \/ \E u \in Update : Handle(u)

(* The process is gone; the next one knows nothing of the offset.          *)
EndThread ==
    /\ phase' = "off"
    /\ offset' = None
    /\ batch' = {}
    /\ running' = FALSE
    /\ earlier' = earlier \cup routed
    /\ routed' = {}
    /\ begun' = 0
    /\ sighted' = FALSE
    /\ UNCHANGED serverVars
=============================================================================
