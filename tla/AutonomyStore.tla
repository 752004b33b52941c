--------------------------- MODULE AutonomyStore ----------------------------
(***************************************************************************)
(* ProjectAutonomyStore for one project: the versioned state row, the      *)
(* events and notices written in its transaction, the lease, and the loop  *)
(* of ProjectAutonomyReporter that delivers the notices through the        *)
(* NotificationBus.                                                        *)
(*                                                                         *)
(* A method of the store is one transaction, so one step; a caller reads   *)
(* in one step and writes in a later one. The contents of the state row    *)
(* are the changes that went into it: a caller writes back the state it    *)
(* read with its own change added, and what another wrote in between is    *)
(* lost unless the version check stops it. A change is known by the notice *)
(* it owes, if any.                                                        *)
(***************************************************************************)
EXTENDS Naturals, Sequences, FiniteSets

CONSTANTS
    Client,       \* worker threads and founder requests
    Process,      \* kernel processes, by pid
    Host,         \* Host[c]: the process c runs in
    Notice,       \* dedupe keys of the founder notices
    NoNotice,
    Nobody,
    MaxVersion,   \* bound: changes of the project
    MaxAttempt    \* bound: delivery attempts of a notice

ASSUME StoreAssumption ==
    /\ Host \in [Client -> Process]
    /\ NoNotice \notin Notice
    /\ Nobody \notin Client
    /\ MaxVersion \in Nat
    /\ MaxAttempt \in Nat

VARIABLES
    version,    \* project_autonomy_states.version, 0 before the row exists
    state,      \* the changes state_json stands for
    events,     \* the changes recorded in project_events
    outbox,     \* project_autonomy_outbox, by dedupe key
    holder,     \* who the lease row names, or Nobody when there is no row
    expired,    \* is its expires_at past?
    queued,     \* <<notice, attempt>> keys a recent notification not suppressed has
    up,         \* the processes that run
    gone,       \* the pids of those that stopped
    pc,         \* where each client is
    seen,       \* the state and version it read last
    claimed,    \* the clients whose last claim or renewal succeeded
    batch,      \* the due rows a delivery loop has left, with their attempts
    current,    \* the row it is at
    result,     \* what became of its notification
    sent        \* history: the notices that reached the founder's channel

rowVars == <<version, state, events>>
leaseVars == <<holder, expired, claimed>>
clientVars == <<pc, seen, batch, current, result>>
vars == <<version, state, events, outbox, holder, expired, queued, up, gone,
          pc, seen, claimed, batch, current, result, sent>>

----------------------------------------------------------------------------
Change == Notice \cup {NoNotice}
Status == {"none", "pending", "retry", "delivered"}
Open == {"pending", "retry"}
Entry == [status : Status, attempts : Nat, due : BOOLEAN]
Result == {"unknown", "delivered", "retry"}
PC == {"idle", "deciding", "delivering", "queueing", "sending", "settling",
       "noting", "recording"}
View == [version : Nat, state : Seq(Change)]
NoView == [version |-> 0, state |-> << >>]
Row == [notice : Notice, attempts : Nat]
NoRow == [notice |-> NoNotice, attempts |-> 0]

TypeOK ==
    /\ version \in Nat
    /\ state \in Seq(Change)
    /\ events \in Seq(Change)
    /\ outbox \in [Notice -> Entry]
    /\ holder \in Client \cup {Nobody}
    /\ expired \in BOOLEAN
    /\ queued \subseteq Notice \X Nat
    /\ up \subseteq Process
    /\ gone \subseteq Process
    /\ pc \in [Client -> PC]
    /\ seen \in [Client -> View]
    /\ claimed \subseteq Client
    /\ batch \in [Client -> SUBSET Row]
    /\ current \in [Client -> Row \cup {NoRow}]
    /\ result \in [Client -> Result]
    /\ sent \subseteq Notice

Init ==
    /\ version = 0
    /\ state = << >>
    /\ events = << >>
    /\ outbox = [n \in Notice |-> [status |-> "none", attempts |-> 0, due |-> FALSE]]
    /\ holder = Nobody
    /\ expired = FALSE
    /\ queued = {}
    /\ up = {}
    /\ gone = {}
    /\ pc = [c \in Client |-> "idle"]
    /\ seen = [c \in Client |-> NoView]
    /\ claimed = {}
    /\ batch = [c \in Client |-> {}]
    /\ current = [c \in Client |-> NoRow]
    /\ result = [c \in Client |-> "unknown"]
    /\ sent = {}

Running(c) == Host[c] \in up
At(c, where) == Running(c) /\ pc[c] = where
Goto(c, where) == pc' = [pc EXCEPT ![c] = where]

----------------------------------------------------------------------------
(* ProjectAutonomyStore.get and .transition                                *)

(* get: the state a caller decides on.                                     *)
Look(c) == seen' = [seen EXCEPT ![c] = [version |-> version, state |-> state]]
Forget(c) == seen' = [seen EXCEPT ![c] = NoView]

Read(c) ==
    /\ At(c, "idle")
    /\ Look(c)
    /\ Goto(c, "deciding")
    /\ UNCHANGED <<rowVars, outbox, leaseVars, queued, up, gone, batch, current,
                   result, sent>>

Unchecked(c) == TRUE
Fresh(c) == seen[c].version = version

(* ON CONFLICT(dedupe_key) DO NOTHING: a key that is taken stays as it is.  *)
BeginsAgain(n) == TRUE
Begins(n) == outbox[n].status = "none"

(* transition, past its version check: the row, its event and the notice   *)
(* it owes in one transaction. A notice whose dedupe key is taken is       *)
(* dropped.                                                                *)
Write(c, n) ==
    /\ version' = seen[c].version + 1
    /\ state' = Append(seen[c].state, n)
    /\ events' = Append(events, n)
    /\ outbox' = [m \in Notice |->
                    IF m = n /\ Begins(m)
                    THEN [status |-> "pending", attempts |-> 0, due |-> TRUE]
                    ELSE outbox[m]]

Transition(c, n) ==
    /\ At(c, "deciding")
    /\ version < MaxVersion
    /\ Fresh(c)
    /\ Write(c, n)
    /\ Forget(c)
    /\ Goto(c, "idle")
    /\ UNCHANGED <<leaseVars, queued, up, gone, batch, current, result, sent>>

(* transition raises ProjectAutonomyConflict, or the caller changes        *)
(* nothing after all.                                                      *)
GiveUp(c) ==
    /\ At(c, "deciding")
    /\ Forget(c)
    /\ Goto(c, "idle")
    /\ UNCHANGED <<rowVars, outbox, leaseVars, queued, up, gone, batch, current,
                   result, sent>>

----------------------------------------------------------------------------
(* The lease                                                               *)

(* claim: a stale version or a live lease refuses it; an expired lease is  *)
(* replaced.                                                               *)
Claimable(c) == Fresh(c) /\ (holder = Nobody \/ expired)

Claim(c) ==
    /\ At(c, "deciding")
    /\ c \notin claimed
    /\ Claimable(c)
    /\ holder' = c
    /\ expired' = FALSE
    /\ claimed' = claimed \cup {c}
    /\ Forget(c)
    /\ Goto(c, "idle")
    /\ UNCHANGED <<rowVars, outbox, queued, up, gone, batch, current, result, sent>>

(* renew answers None to a worker whose lease expired, was cleared or was  *)
(* replaced; to any other it only moves expires_at, which is no step here. *)
Renewable(c) == holder = c /\ ~expired

Renew(c) ==
    /\ Running(c) /\ c \in claimed
    /\ ~Renewable(c)
    /\ claimed' = claimed \ {c}
    /\ UNCHANGED <<rowVars, outbox, holder, expired, queued, up, gone, clientVars, sent>>

(* release deletes the row only for the owner and run it names.            *)
MatchesAny(c) == TRUE
Matches(c) == holder = c

Release(c) ==
    /\ Running(c) /\ c \in claimed
    /\ holder' = IF Matches(c) THEN Nobody ELSE holder
    /\ expired' = IF Matches(c) THEN FALSE ELSE expired
    /\ claimed' = claimed \ {c}
    /\ UNCHANGED <<rowVars, outbox, queued, up, gone, clientVars, sent>>

(* The clock passes expires_at.                                            *)
Expire ==
    /\ holder # Nobody /\ ~expired
    /\ expired' = TRUE
    /\ UNCHANGED <<rowVars, outbox, holder, claimed, queued, up, gone, clientVars, sent>>

ClearExpired ==
    /\ up # {}
    /\ expired
    /\ holder' = Nobody
    /\ expired' = FALSE
    /\ UNCHANGED <<rowVars, outbox, claimed, queued, up, gone, clientVars, sent>>

(* clear_orphaned_process_leases: the pid in the owner is no process.      *)
Orphaned == holder # Nobody /\ Host[holder] \notin up

ClearOrphaned ==
    /\ up # {}
    /\ Orphaned
    /\ holder' = Nobody
    /\ expired' = FALSE
    /\ UNCHANGED <<rowVars, outbox, claimed, queued, up, gone, clientVars, sent>>

----------------------------------------------------------------------------
(* deliver_due_notifications                                               *)

(* due_outbox *)
FetchDue(c) ==
    /\ At(c, "idle")
    /\ LET due == {n \in Notice : outbox[n].status \in Open /\ outbox[n].due}
       IN  /\ due # {}
           /\ batch' = [batch EXCEPT ![c] =
                           {[notice |-> n, attempts |-> outbox[n].attempts] : n \in due}]
    /\ Goto(c, "delivering")
    /\ UNCHANGED <<rowVars, outbox, leaseVars, queued, up, gone, seen, current, result,
                   sent>>

(* Moves a loop on: to the next row it read, or out of the loop.           *)
NextRow(c) ==
    /\ current' = [current EXCEPT ![c] = NoRow]
    /\ result' = [result EXCEPT ![c] = "unknown"]
    /\ Goto(c, IF batch[c] = {} THEN "idle" ELSE "delivering")

(* The dedupe key a loop gives the notification: the row and the number of *)
(* the attempt by the count it read.                                       *)
Key(row) == <<row.notice, row.attempts + 1>>

(* What a loop makes of the suppressed notification of a duplicate.        *)
DuplicateTaken == "delivered"
OnDuplicate == "retry"

(* NotificationBus.notify looks for a recent notification with the key;    *)
(* the duplicate it then records is suppressed.                            *)
LookForDuplicate(c, row) ==
    /\ At(c, "delivering")
    /\ batch' = [batch EXCEPT ![c] = @ \ {row}]
    /\ current' = [current EXCEPT ![c] = row]
    /\ IF Key(row) \in queued
       THEN /\ result' = [result EXCEPT ![c] = OnDuplicate]
            /\ Goto(c, "settling")
       ELSE /\ Goto(c, "queueing")
            /\ UNCHANGED result
    /\ UNCHANGED <<rowVars, outbox, leaseVars, queued, up, gone, seen, sent>>

Queue(c) ==
    /\ At(c, "queueing")
    /\ queued' = queued \cup {Key(current[c])}
    /\ Goto(c, "sending")
    /\ UNCHANGED <<rowVars, outbox, leaseVars, up, gone, seen, batch, current, result,
                   sent>>

(* _deliver and _notification_retry_reason: the founder's channel takes    *)
(* the message, refuses it (quiet hours, the rate limit, an error), or no  *)
(* channel takes it and the notification is suppressed.                    *)
Send(c) ==
    /\ At(c, "sending")
    /\ \/ /\ sent' = sent \cup {current[c].notice}
          /\ result' = [result EXCEPT ![c] = "delivered"]
          /\ UNCHANGED queued
       \/ /\ result' = [result EXCEPT ![c] = "retry"]
          /\ queued' \in {queued, queued \ {Key(current[c])}}
          /\ UNCHANGED sent
    /\ Goto(c, "settling")
    /\ UNCHANGED <<rowVars, outbox, leaseVars, up, gone, seen, batch, current>>

Unsettled(c) == outbox[current[c].notice].status \in Open

(* One attempt more, and the status it ended in.                           *)
Attempted(n, status) ==
    [outbox EXCEPT ![n] = [status |-> status, attempts |-> @.attempts + 1, due |-> FALSE]]

(* reschedule_outbox, then the next row; the ValueError it raises for a    *)
(* row delivered meanwhile is swallowed.                                   *)
Reschedule(c) ==
    /\ At(c, "settling")
    /\ result[c] = "retry"
    /\ outbox[current[c].notice].attempts < MaxAttempt
    /\ outbox' = IF Unsettled(c)
                 THEN Attempted(current[c].notice, "retry")
                 ELSE outbox
    /\ NextRow(c)
    /\ UNCHANGED <<rowVars, leaseVars, queued, up, gone, seen, batch, sent>>

(* mark_outbox_delivered; the event of the delivery follows, unless the    *)
(* row was delivered meanwhile: the ValueError leads to the next row.      *)
MarkDelivered(c) ==
    /\ At(c, "settling")
    /\ result[c] = "delivered"
    /\ IF Unsettled(c)
       THEN /\ outbox' = Attempted(current[c].notice, "delivered")
            /\ Goto(c, "noting")
            /\ UNCHANGED <<current, result>>
       ELSE /\ NextRow(c)
            /\ UNCHANGED outbox
    /\ UNCHANGED <<rowVars, leaseVars, queued, up, gone, seen, batch, sent>>

(* The notification_delivered transition, on a state it reads first.       *)
ReadForNote(c) ==
    /\ At(c, "noting")
    /\ Look(c)
    /\ Goto(c, "recording")
    /\ UNCHANGED <<rowVars, outbox, leaseVars, queued, up, gone, batch, current, result,
                   sent>>

RecordDelivery(c) ==
    /\ At(c, "recording")
    /\ IF Fresh(c) /\ version < MaxVersion
       THEN Write(c, NoNotice)
       ELSE UNCHANGED <<rowVars, outbox>>
    /\ Forget(c)
    /\ NextRow(c)
    /\ UNCHANGED <<leaseVars, queued, up, gone, batch, sent>>

(* next_attempt_at passes.                                                 *)
ComeDue(n) ==
    /\ outbox[n].status \in Open /\ ~outbox[n].due
    /\ outbox' = [outbox EXCEPT ![n] = [status |-> @.status, attempts |-> @.attempts,
                                          due |-> TRUE]]
    /\ UNCHANGED <<rowVars, leaseVars, queued, up, gone, clientVars, sent>>

(* A notification leaves the hour _recent_duplicate looks back over.       *)
LeaveWindow(k) ==
    /\ queued' = queued \ {k}
    /\ UNCHANGED <<rowVars, outbox, leaseVars, up, gone, clientVars, sent>>

----------------------------------------------------------------------------
(* A kernel starts, under a pid of its own, and stops at any point.        *)
Start(p) ==
    /\ p \notin up \cup gone
    /\ up' = up \cup {p}
    /\ UNCHANGED <<rowVars, outbox, leaseVars, queued, gone, clientVars, sent>>

Stop(p) ==
    /\ p \in up
    /\ up' = up \ {p}
    /\ gone' = gone \cup {p}
    /\ claimed' = {c \in claimed : Host[c] # p}
    /\ UNCHANGED <<rowVars, outbox, holder, expired, queued, clientVars, sent>>

Work(c) ==
    \/ Read(c)
    \/ \E n \in Change : Transition(c, n)
    \/ GiveUp(c)
    \/ Claim(c) \/ Renew(c) \/ Release(c)

Deliver(c) ==
    \/ FetchDue(c)
    \/ \E row \in batch[c] : LookForDuplicate(c, row)
    \/ Queue(c) \/ Send(c) \/ Reschedule(c) \/ MarkDelivered(c)
    \/ ReadForNote(c) \/ RecordDelivery(c)

Next ==
    \/ \E c \in Client : Work(c) \/ Deliver(c)
    \/ Expire \/ ClearExpired \/ ClearOrphaned
    \/ \E n \in Notice : ComeDue(n)
    \/ \E k \in queued : LeaveWindow(k)
    \/ \E p \in Process : Start(p) \/ Stop(p)

Spec == Init /\ [][Next]_vars

----------------------------------------------------------------------------
(* The store implements the record it promises: every transition is made   *)
(* on top of the latest state although callers read and write in separate  *)
(* steps, a notice is on record with the change that owes it and leaves    *)
(* the record once, and a lease changes hands only when it is free or      *)
(* expired.                                                                *)
Record == INSTANCE AutonomyRecord WITH
              log <- state,
              owed <- {n \in Notice : outbox[n].status # "none"},
              settled <- {n \in Notice : outbox[n].status = "delivered"},
              holder <- IF expired THEN Nobody ELSE holder
RefinesRecord == Record!Spec

(* The state row holds exactly the changes project_events lists: a crash   *)
(* or a conflict leaves neither without the other.                         *)
StateIsHistory == state = events /\ version = Len(events)

(* A notice that a change owes is never lost in silence: it is waiting in  *)
(* the outbox, or it has reached the founder's channel. Two loops, a       *)
(* restart or the notifications' own deduplication do not settle it early. *)
NoticeKept ==
    \A i \in 1..Len(events) :
        events[i] # NoNotice =>
            \/ outbox[events[i]].status \in Open
            \/ outbox[events[i]].status = "delivered" /\ events[i] \in sent

(* A worker that goes by its claim loses the lease to time alone: the only *)
(* step that takes a live lease from a running worker is its own release.  *)
LeaseNotTaken ==
    [][\A c \in claimed :
         (holder = c /\ ~expired /\ holder' # c /\ Host[c] \in up') => c \notin claimed']_vars
=============================================================================
