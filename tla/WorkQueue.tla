----------------------------- MODULE WorkQueue ------------------------------
(***************************************************************************)
(* One work item and the approval requests about it, under the calls that  *)
(* the kernel's threads make at the same time: WorkQueueService.enqueue    *)
(* and queue_delegation, which make the item; run_next, which claims and   *)
(* runs it; and ApprovalService, by which the founder approves, denies,    *)
(* defers, edits and dispatches it.                                        *)
(*                                                                         *)
(* A step is one connect() block of the database, and SELECT and INSERT of *)
(* one block are two steps: sqlite3 opens the transaction at the INSERT.   *)
(* No write looks at what it overwrites, except the claim.                 *)
(*                                                                         *)
(* Titles, priorities, due dates, metadata and the typed phrase are left   *)
(* out, and a proposal is what the authority makes of it. A run that asks  *)
(* for an approval of its own (the hybrid engine), the handlers' access    *)
(* switch and the parent of a founder decision are not modelled.           *)
(***************************************************************************)
EXTENDS Naturals, Sequences, FiniteSets

CONSTANTS
    Creator,       \* calls of enqueue, or of queue_delegation, with one key
    Runner,        \* callers of run_next: scheduler and API
    Desk,          \* the founder's calls
    Proposal,      \* what the item may propose
    First,         \* what it may propose when it is made
    Authority,     \* Authority[p]: what AuthorityPolicy.evaluate says
    Directions,    \* may the item be a directed delegation, or not?
    Ops,           \* what the founder does
    MaxRequest,    \* bound: requests about the item
    MaxFault       \* bound: crashes and failed writes

Verdict == {"allow", "approval_required", "deny"}

ASSUME QueueAssumption ==
    /\ Creator \cap Runner = {} /\ Creator \cap Desk = {} /\ Runner \cap Desk = {}
    /\ First \subseteq Proposal
    /\ "none" \notin Proposal
    /\ Authority \in [Proposal -> Verdict]
    /\ Directions \subseteq BOOLEAN
    /\ Ops \subseteq {"approve", "run", "deny", "defer", "edit", "dispatch"}
    /\ MaxRequest \in Nat
    /\ MaxFault \in Nat

Caller == Creator \cup Runner \cup Desk

VARIABLES
    item,        \* the row of work_items
    requests,    \* the rows of approval_requests about it, in id order
    asked,       \* what the calls that make it propose
    directed,    \* is it a directed delegation ("founder_command")?
    up,          \* is the kernel process running?
    faults,      \* crashes and failed writes so far
    pc,          \* where each call is
    op,          \* what a desk does
    view,        \* the row a call goes by, and what it will write
    req,         \* the request it is about
    granted,     \* history: has the founder commanded or approved the item?
    early,       \* history: was it claimed before it was classified?
    cut          \* history: was a call cut off while it had the item to run?

rowVars == <<item, requests, asked, directed>>
callVars == <<pc, op, view, req>>
vars == <<rowVars, up, faults, callVars, granted, early, cut>>

----------------------------------------------------------------------------
(* The statuses a row takes here. stored: does its result tell of a run?   *)
ItemStatus == {"none", "pending", "running", "approval_required", "approved", "denied",
               "deferred", "blocked", "done", "error"}
Decision == Verdict \cup {"unknown"}
Row == [status : ItemStatus, proposal : Proposal \cup {"none"}, decision : Decision, stored : BOOLEAN]
NoRow == [status |-> "none", proposal |-> "none", decision |-> "unknown", stored |-> FALSE]

RequestStatus == {"pending", "deferred", "approved", "denied"}
RequestRow == [status : RequestStatus, decision : Decision]

Where == {"idle", "classifying", "looking", "filing", "reusing", "claimed",
          "reading", "opening", "resolving", "syncing", "starting", "marking",
          "calling", "finishing", "excepting"}

TypeOK ==
    /\ item \in Row
    /\ requests \in Seq(RequestRow) /\ Len(requests) <= MaxRequest
    /\ asked \in Proposal
    /\ directed \in BOOLEAN
    /\ up \in BOOLEAN
    /\ faults \in 0..MaxFault
    /\ pc \in [Caller -> Where]
    /\ op \in [Desk -> Ops \cup {"none"}]
    /\ view \in [Caller -> Row]
    /\ req \in [Caller -> 0..MaxRequest]
    /\ granted \in BOOLEAN
    /\ early \in BOOLEAN
    /\ cut \in BOOLEAN

(* What a founder's command delegates is external: it would need approval. *)
Init ==
    /\ item = NoRow
    /\ requests = <<>>
    /\ asked \in First
    /\ directed \in Directions
    /\ directed => Authority[asked] = "approval_required"
    /\ up = TRUE
    /\ faults = 0
    /\ pc = [c \in Caller |-> "idle"]
    /\ op = [d \in Desk |-> "none"]
    /\ view = [c \in Caller |-> NoRow]
    /\ req = [c \in Caller |-> 0]
    /\ granted = directed
    /\ early = FALSE
    /\ cut = FALSE

At(c, where) == up /\ pc[c] = where
Goto(c, where) == pc' = [pc EXCEPT ![c] = where]
See(c, row) == view' = [view EXCEPT ![c] = row]

(* A call returns, or raises: what it read is gone.                        *)
Return(c) ==
    /\ Goto(c, "idle")
    /\ See(c, NoRow)
    /\ req' = [req EXCEPT ![c] = 0]
    /\ op' = [d \in Desk |-> IF d = c THEN "none" ELSE op[d]]

With(row, status, decision, stored) ==
    [status |-> status, proposal |-> row.proposal, decision |-> decision, stored |-> stored]

(* update_work_item: whatever the row was.                                 *)
WriteItem(status, decision, stored) == item' = With(item, status, decision, stored)

(* _queue_status_for_decision *)
QueueStatus(verdict) ==
    CASE verdict = "allow" -> "pending"
      [] verdict = "deny" -> "denied"
      [] OTHER -> "approval_required"

----------------------------------------------------------------------------
(* enqueue, queue_delegation                                               *)

(* enqueue_work_item: the row starts as pending. A second call with the    *)
(* same key finds it.                                                      *)
Fresh(decision) == [status |-> "pending", proposal |-> asked,
                    decision |-> decision, stored |-> FALSE]

Insert(c) ==
    /\ At(c, "idle") /\ c \in Creator
    /\ IF item.status = "none"
       THEN /\ item' = Fresh("unknown")
            /\ See(c, Fresh(Authority[asked]))
            /\ Goto(c, "classifying")
       ELSE /\ directed
            /\ Goto(c, "reusing")
            /\ UNCHANGED <<item, view>>
    /\ UNCHANGED <<requests, asked, directed, up, faults, op, req, granted, early, cut>>

(* The status the authority's verdict asks for, in a write of its own.     *)
Classify(c) ==
    /\ At(c, "classifying")
    /\ WriteItem(IF directed THEN "approved" ELSE QueueStatus(Authority[asked]),
                 Authority[asked], FALSE)
    /\ IF directed
       THEN Goto(c, "calling") /\ UNCHANGED <<op, view, req>>
       ELSE IF Authority[asked] = "approval_required"
            THEN Goto(c, "looking") /\ UNCHANGED <<op, view, req>>
            ELSE Return(c)
    /\ UNCHANGED <<requests, asked, directed, up, faults, granted, early, cut>>

(* queue_delegation on a row it did not make: run, unless it was.          *)
AlreadyDispatched(row) == row.status \in {"running", "done", "error"} \/ row.stored

Reuse(c) ==
    /\ At(c, "reusing")
    /\ IF AlreadyDispatched(item)
       THEN Return(c)
       ELSE See(c, item) /\ Goto(c, "calling") /\ UNCHANGED <<op, req>>
    /\ UNCHANGED <<rowVars, up, faults, granted, early, cut>>

----------------------------------------------------------------------------
(* run_next                                                                *)

(* claim_next_work_item: one UPDATE.                                       *)
ClaimableTwice(row) == row.status \in {"pending", "running"}
Claimable(row) == row.status = "pending"

Claim(r) ==
    /\ At(r, "idle") /\ r \in Runner
    /\ Claimable(item)
    /\ LET claimed == With(item, "running", item.decision, item.stored)
       IN  item' = claimed /\ See(r, claimed)
    /\ Goto(r, "claimed")
    /\ early' = (early \/ \E c \in Creator : pc[c] = "classifying")
    /\ UNCHANGED <<requests, asked, directed, up, faults, op, req, granted, cut>>

(* The authority is asked again about what was claimed.                    *)
TakenAsAllowed(verdict) == TRUE
MayRun(verdict) == verdict = "allow"

Evaluate(r) ==
    /\ At(r, "claimed")
    /\ LET verdict == Authority[view[r].proposal]
       IN  IF MayRun(verdict)
           THEN /\ WriteItem("running", verdict, FALSE)
                /\ See(r, With(view[r], "running", verdict, FALSE))
                /\ Goto(r, "calling")
                /\ UNCHANGED <<op, req>>
           ELSE /\ WriteItem(QueueStatus(verdict), verdict, FALSE)
                /\ Return(r)
    /\ UNCHANGED <<requests, asked, directed, up, faults, granted, early, cut>>

(* The invocations of the day are used up: the item is left as it is.      *)
Unrun(c) ==
    /\ At(c, "calling") /\ c \in Creator
    /\ Return(c)
    /\ UNCHANGED <<rowVars, up, faults, granted, early, cut>>

(* The handler returns what became of the item, or raises: of a creator's  *)
(* that is an outcome too, of the others' it goes to their except.         *)
Call(c, outcome) ==
    /\ At(c, "calling")
    /\ See(c, With(view[c], outcome, view[c].decision, TRUE))
    /\ Goto(c, "finishing")
    /\ UNCHANGED <<rowVars, up, faults, op, req, granted, early, cut>>

Except(c) ==
    /\ See(c, With(view[c], "error", view[c].decision, FALSE))
    /\ Goto(c, "excepting")

Raise(c) ==
    /\ At(c, "calling") /\ c \notin Creator
    /\ Except(c)
    /\ UNCHANGED <<rowVars, up, faults, op, req, granted, early, cut>>

OnlyReturned(row) == row.stored
Recorded(row) == TRUE

(* What became of the item is written over the row, whoever wrote it       *)
(* meanwhile: the outcome, or the error of the except.                     *)
WriteOutcome(c) ==
    WriteItem(view[c].status,
              IF c \in Creator THEN item.decision ELSE view[c].decision, view[c].stored)

Finish(c) ==
    /\ At(c, "finishing") \/ At(c, "excepting")
    /\ IF Recorded(view[c]) THEN WriteOutcome(c) ELSE UNCHANGED item
    /\ Return(c)
    /\ UNCHANGED <<requests, asked, directed, up, faults, granted, early, cut>>

----------------------------------------------------------------------------
(* ApprovalService                                                         *)

QueuedOnly == {"deferred", "pending"}
Undecided == {"approval_required", "deferred", "pending"}
IsOpen(status) == status \in {"pending", "deferred"}
Open == {n \in 1..Len(requests) : IsOpen(requests[n].status)}
Latest == {n \in Open : \A m \in Open : m <= n}

(* The routes by request id; the list may have been read long before.      *)
Begin(d, o, n) ==
    /\ At(d, "idle") /\ d \in Desk
    /\ o \in Ops \ {"dispatch"} /\ n \in 1..Len(requests)
    /\ op' = [op EXCEPT ![d] = o]
    /\ req' = [req EXCEPT ![d] = n]
    /\ Goto(d, "opening")
    /\ UNCHANGED <<rowVars, up, faults, view, granted, early, cut>>

(* The routes by work item: _request_for_work_item looks for an open       *)
(* request first and files one for an item that is still undecided.        *)
Find(d, o) ==
    /\ At(d, "idle") /\ d \in Desk
    /\ o \in Ops \ {"dispatch"} /\ item.status # "none"
    /\ op' = [op EXCEPT ![d] = o]
    /\ \/ \E n \in Latest : req' = [req EXCEPT ![d] = n] /\ Goto(d, "opening")
       \/ Open = {} /\ Goto(d, "reading") /\ UNCHANGED req
    /\ UNCHANGED <<rowVars, up, faults, view, granted, early, cut>>

Read(d) ==
    /\ At(d, "reading")
    /\ IF item.status \in Undecided
       THEN See(d, item) /\ Goto(d, "looking") /\ UNCHANGED <<op, req>>
       ELSE Return(d)
    /\ UNCHANGED <<rowVars, up, faults, granted, early, cut>>

(* ensure_approval_request, for a backfill or at the end of enqueue.       *)
Look(c) ==
    /\ At(c, "looking")
    /\ \/ Open = {} /\ Goto(c, "filing") /\ UNCHANGED <<op, view, req>>
       \/ /\ c \in Desk
          /\ \E n \in Latest : req' = [req EXCEPT ![c] = n]
          /\ Goto(c, "opening")
          /\ UNCHANGED <<op, view>>
       \/ Open # {} /\ c \notin Desk /\ Return(c)
    /\ UNCHANGED <<rowVars, up, faults, granted, early, cut>>

File(c) ==
    /\ At(c, "filing")
    /\ Len(requests) < MaxRequest
    /\ requests' = Append(requests, [status |-> "pending", decision |-> view[c].decision])
    /\ IF c \in Desk
       THEN /\ req' = [req EXCEPT ![c] = Len(requests) + 1]
            /\ Goto(c, "opening")
            /\ UNCHANGED <<op, view>>
       ELSE Return(c)
    /\ UNCHANGED <<item, asked, directed, up, faults, granted, early, cut>>

(* _load_open_request, and what approve_request refuses.                   *)
Load(d) ==
    /\ At(d, "opening")
    /\ LET request == requests[req[d]]
       IN  IF IsOpen(request.status)
              /\ (op[d] \in {"approve", "run"} => request.decision # "deny")
           THEN /\ See(d, With(NoRow, request.status, request.decision, FALSE))
                /\ Goto(d, "resolving")
                /\ UNCHANGED <<op, req>>
           ELSE Return(d)
    /\ UNCHANGED <<rowVars, up, faults, granted, early, cut>>

(* resolve_approval_request and update_approval_request: whatever became   *)
(* of the request meanwhile.                                               *)
Resolution(o) ==
    CASE o = "deny" -> "denied" [] o = "defer" -> "deferred" [] OTHER -> "approved"

Resolve(d) ==
    /\ At(d, "resolving") /\ op[d] # "edit"
    /\ requests' = [requests EXCEPT ![req[d]].status = Resolution(op[d])]
    /\ See(d, With(view[d], Resolution(op[d]), requests[req[d]].decision, FALSE))
    /\ granted' = (granted \/ op[d] \in {"approve", "run"})
    /\ Goto(d, "syncing")
    /\ UNCHANGED <<item, asked, directed, up, faults, op, req, early, cut>>

(* _sync_work_item *)
Sync(d) ==
    /\ At(d, "syncing") /\ op[d] # "edit"
    /\ WriteItem(view[d].status, view[d].decision, FALSE)
    /\ IF op[d] = "run"
       THEN Goto(d, "starting") /\ UNCHANGED <<op, view, req>>
       ELSE Return(d)
    /\ UNCHANGED <<requests, asked, directed, up, faults, granted, early, cut>>

(* edit_request: the request and then the item, by the status it had.      *)
EditRequest(d, p) ==
    /\ At(d, "resolving") /\ op[d] = "edit"
    /\ LET verdict == Authority[p]
       IN  /\ requests' = [requests EXCEPT ![req[d]] =
                 [status |-> IF verdict = "deny" THEN "denied" ELSE view[d].status,
                  decision |-> verdict]]
           /\ See(d, [status |-> CASE verdict = "deny" -> "denied"
                                   [] view[d].status = "deferred" -> "deferred"
                                   [] OTHER -> "approval_required",
                      proposal |-> p, decision |-> verdict, stored |-> FALSE])
    /\ Goto(d, "syncing")
    /\ UNCHANGED <<item, asked, directed, up, faults, op, req, granted, early, cut>>

EditItem(d) ==
    /\ At(d, "syncing") /\ op[d] = "edit"
    /\ item' = view[d]
    /\ Return(d)
    /\ UNCHANGED <<requests, asked, directed, up, faults, granted, early, cut>>

(* dispatch_work_item, on its own or behind an approval.                   *)
BeginDispatch(d) ==
    /\ At(d, "idle") /\ d \in Desk
    /\ "dispatch" \in Ops /\ item.status # "none"
    /\ op' = [op EXCEPT ![d] = "dispatch"]
    /\ Goto(d, "starting")
    /\ UNCHANGED <<rowVars, up, faults, view, req, granted, early, cut>>

AnyUndecided(row) == row.status \in {"approved", "approval_required"}
Dispatchable(row) == row.status = "approved" /\ row.decision # "deny"

Start(d) ==
    /\ At(d, "starting")
    /\ IF Dispatchable(item)
       THEN See(d, item) /\ Goto(d, "marking") /\ UNCHANGED <<op, req>>
       ELSE Return(d)
    /\ UNCHANGED <<rowVars, up, faults, granted, early, cut>>

Mark(d) ==
    /\ At(d, "marking")
    /\ WriteItem("running", view[d].decision, FALSE)
    /\ Goto(d, "calling")
    /\ UNCHANGED <<requests, asked, directed, up, faults, op, view, req, granted, early, cut>>

----------------------------------------------------------------------------
(* A write waits more than 5 s for the lock and raises. The try of         *)
(* run_next has its except, also behind the audit row that follows the     *)
(* outcome; anywhere else, the except included, the call is over.          *)
Writing == {"classifying", "filing", "claimed", "resolving", "syncing", "marking",
            "finishing", "excepting"}
InTry(c) == c \in Runner /\ pc[c] = "finishing"
Holds(c) == c \notin Creator /\ pc[c] \in {"claimed", "calling", "finishing", "excepting"}

LockTimeout(c) ==
    /\ up /\ faults < MaxFault
    /\ faults' = faults + 1
    /\ \/ /\ pc[c] \in Writing /\ ~InTry(c)
          /\ Return(c)
          /\ cut' = (cut \/ Holds(c))
          /\ UNCHANGED item
       \/ /\ InTry(c)
          /\ Except(c)
          /\ UNCHANGED item \/ WriteOutcome(c)
          /\ UNCHANGED <<op, req, cut>>
    /\ UNCHANGED <<requests, asked, directed, up, granted, early>>

(* Nothing looks at the rows a dead process left: a running item stays so. *)
Crash ==
    /\ up /\ faults < MaxFault
    /\ up' = FALSE
    /\ faults' = faults + 1
    /\ cut' = (cut \/ \E c \in Caller : Holds(c))
    /\ pc' = [c \in Caller |-> "idle"]
    /\ op' = [d \in Desk |-> "none"]
    /\ view' = [c \in Caller |-> NoRow]
    /\ req' = [c \in Caller |-> 0]
    /\ UNCHANGED <<rowVars, granted, early>>

Restart ==
    /\ ~up
    /\ up' = TRUE
    /\ UNCHANGED <<rowVars, faults, callVars, granted, early, cut>>

Outcome == {"done", "error", "blocked"}

Running(c) ==
    Unrun(c) \/ (\E outcome \in Outcome : Call(c, outcome)) \/ Raise(c) \/ Finish(c)
Creating(c) == Insert(c) \/ Classify(c) \/ Reuse(c)
Deciding(d) ==
    \/ Read(d) \/ Load(d) \/ Resolve(d) \/ Sync(d)
    \/ (\E p \in Proposal : EditRequest(d, p)) \/ EditItem(d)
    \/ Start(d) \/ Mark(d)
Beginning(d) ==
    \/ \E o \in Ops : Find(d, o)
    \/ \E o \in Ops, n \in 1..MaxRequest : Begin(d, o, n)
    \/ BeginDispatch(d)

Next ==
    \/ \E c \in Creator : Creating(c)
    \/ \E r \in Runner : Claim(r) \/ Evaluate(r)
    \/ \E d \in Desk : Beginning(d) \/ Deciding(d)
    \/ \E c \in Caller : Look(c) \/ File(c) \/ Running(c) \/ LockTimeout(c)
    \/ Crash \/ Restart

Spec == Init /\ [][Next]_vars

(* A call that began goes on while the process runs; the scheduler comes   *)
(* back to the queue, and the founder to what waits for her: she denies it *)
(* by its work item, if nothing else.                                      *)
Fairness ==
    /\ WF_vars(Restart)
    /\ \A c \in Caller : WF_vars(Classify(c) \/ Reuse(c) \/ Look(c) \/ File(c) \/ Running(c))
    /\ \A r \in Runner : WF_vars(Claim(r) \/ Evaluate(r))
    /\ \A d \in Desk : WF_vars(Deciding(d))
    /\ \A d \in Desk : SF_vars(Find(d, "deny"))

LiveSpec == Spec /\ Fairness

----------------------------------------------------------------------------
(* Only what the authority allows, or the founder commanded or approved,   *)
(* is run, also when the item is claimed before its verdict is written,    *)
(* or edited while a call goes by what it was (run_next, dispatch).        *)
Authorised ==
    \A c \in Caller : pc[c] \in {"calling", "finishing", "excepting"} =>
        granted \/ Authority[view[c].proposal] = "allow"

(* The scheduler and the API never run one item both (the docstring of     *)
(* claim_next_work_item), as long as no runner claims it between its       *)
(* insertion and the write of its verdict: see OneRunner.                  *)
AtWork == {r \in Runner : pc[r] # "idle"}
OneRunner == Cardinality(AtWork) <= 1
QueueRunsOnce == early \/ OneRunner

(* What awaits the founder can be decided, by its work item, also after a  *)
(* crash before its request was filed, and when it was deferred            *)
(* (_request_for_work_item, _load_open_request).                           *)
Decidable == (up /\ item.status \in {"approval_required", "deferred"})
                ~> item.status \notin {"approval_required", "deferred"}

(* What is queued is taken up, and what runs ends in a result, whatever    *)
(* else writes the row: when the handler raises, and when run_next's own   *)
(* write of the outcome does. Excepted is an item whose call was cut off   *)
(* by the end of the process or by a write with no except behind it.       *)
Drains ==
    /\ item.status = "pending" ~> item.status # "pending"
    /\ item.status = "running" ~> (item.status # "running" \/ cut)

(* Whatever runs ends in a result.                                         *)
RunEndsInResult == item.status = "running" ~> item.status # "running"
=============================================================================
