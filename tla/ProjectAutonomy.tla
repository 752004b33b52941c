-------------------------- MODULE ProjectAutonomy ---------------------------
(***************************************************************************)
(* ProjectAutonomyOrchestrator on one project: the worker threads that     *)
(* claim it, plan it, build and verify one criterion after another, and    *)
(* the founder's requests that reach the same state while they do.         *)
(*                                                                         *)
(* A method of the reporter is one step here: AutonomyStore shows that its *)
(* transition is made on the state it read or not at all (Conflict). What  *)
(* a worker read in an earlier method it keeps in its view. An attempt     *)
(* ends before the lease does (_renew succeeds), and no lease has to       *)
(* expire for the project to get on.                                       *)
(***************************************************************************)
EXTENDS ProjectPhases

CONSTANTS
    Worker,        \* worker threads of the process
    Nobody,
    Orphan,        \* holds a lease whose process is gone
    Plans,         \* the sets of criteria a planner may derive
    Questions,     \* the questions planner and agent come up with
    Requests,      \* the requests the founder makes besides answering
    MaxAttempt,    \* repair_attempts: attempts are 0..MaxAttempt
    MaxFault       \* bound: crashes, conflicts and calls of the founder's that fail

ASSUME AutonomyAssumption ==
    /\ {Nobody, Orphan} \cap Worker = {} /\ Nobody # Orphan
    /\ Plans \subseteq (SUBSET Criterion) \ {{}}
    /\ Questions \subseteq Question
    /\ Requests \subseteq {"pause", "resume", "replan", "reopen"}
    /\ MaxAttempt \in Nat
    /\ MaxFault \in Nat

VARIABLES
    state,       \* the state row
    lease,       \* the owner of the lease
    items,       \* the founder_decision work item of each question
    result,      \* the stored result of each attempt of the current increment
    tree,        \* the working tree of the repository
    up,          \* is the kernel process running?
    faults,      \* crashes, conflicts and failed calls so far
    pc,          \* where each worker is
    view,        \* the state it read last
    crit,        \* the criterion it works on
    attempt,     \* its attempt
    moved,       \* has it committed in this increment?
    fpc,         \* where the founder's replan or answer is
    freplans,    \* did the replan find the MVP achieved?
    fquestion,   \* the question answered
    proven       \* history: criteria whose committed work passed its checks

workerVars == <<pc, view, crit, attempt, moved>>
founderVars == <<fpc, freplans, fquestion>>
vars == <<state, lease, items, result, tree, up, faults, workerVars,
          founderVars, proven>>

----------------------------------------------------------------------------
Attempt == 0..MaxAttempt
Report == {"ok", "bad", "choice", "question"}
NoResult == [a \in Attempt |-> "none"]
Where == {"idle", "claiming", "entering", "preparing", "planning", "reading", "choosing",
          "dispatching", "running", "judging", "filing", "asking",
          "withdrawing", "proving", "verifying", "recording", "exhausted", "finishing",
          "waiting", "closing", "releasing"}

TypeOK ==
    /\ state \in State
    /\ lease \in Worker \cup {Nobody, Orphan}
    /\ items \in [Question -> {"none", "open", "resolved", "approved", "done"}]
    /\ result \in [Attempt -> Report \cup {"none"}]
    /\ tree \in {"clean", "existing", "attempt", "manifest"}
    /\ up \in BOOLEAN
    /\ faults \in 0..MaxFault
    /\ pc \in [Worker -> Where]
    /\ view \in [Worker -> State]
    /\ crit \in [Worker -> Criterion \cup {NoCriterion}]
    /\ attempt \in [Worker -> Attempt]
    /\ moved \in [Worker -> BOOLEAN]
    /\ fpc \in {"idle", "planning", "filing", "asking", "approving", "concluding", "applying"}
    /\ freplans \in BOOLEAN
    /\ fquestion \in Question
    /\ proven \subseteq Criterion

Init ==
    /\ state = DefaultState
    /\ lease = Nobody
    /\ items = [q \in Question |-> "none"]
    /\ result = NoResult
    /\ tree \in {"clean", "existing"}
    /\ up = TRUE
    /\ faults = 0
    /\ pc = [w \in Worker |-> "idle"]
    /\ view = [w \in Worker |-> DefaultState]
    /\ crit = [w \in Worker |-> NoCriterion]
    /\ attempt = [w \in Worker |-> 0]
    /\ moved = [w \in Worker |-> FALSE]
    /\ fpc = "idle"
    /\ freplans = FALSE
    /\ fquestion = NoCriterion
    /\ proven = {}

At(w, where) == up /\ pc[w] = where
Goto(w, where) == pc' = [pc EXCEPT ![w] = where]
Forget(w) == view' = [view EXCEPT ![w] = DefaultState]

(* A reporter method past its checks, or raising; a worker that meets an   *)
(* error anywhere but in the attempt's own try ends in _worker_loop.       *)
Call(can, next) == state' = IF can THEN next ELSE state

----------------------------------------------------------------------------
(* claim_ready                                                             *)

(* list_views: the worker takes the project for runnable.                  *)
Look(w) ==
    /\ At(w, "idle")
    /\ IsRunnable(state)
    /\ Goto(w, "claiming")
    /\ UNCHANGED <<state, lease, items, result, tree, up, faults, view, crit,
                   attempt, moved, founderVars, proven>>

Claimable == lease = Nobody

(* store.claim, with the version of the moment: the state may be another   *)
(* by now.                                                                 *)
Claim(w) ==
    /\ At(w, "claiming")
    /\ IF Claimable
       THEN lease' = w /\ Goto(w, "entering")
       ELSE Goto(w, "idle") /\ UNCHANGED lease
    /\ UNCHANGED <<state, items, result, tree, up, faults, view, crit, attempt, moved,
                   founderVars, proven>>

(* release_claim, in the finally of run_once. The results of an increment  *)
(* that is over are never asked for again: the next has keys of its own.   *)
Release(w) ==
    /\ At(w, "releasing")
    /\ lease' = Nobody
    /\ Goto(w, "idle")
    /\ Forget(w)
    /\ crit' = [crit EXCEPT ![w] = NoCriterion]
    /\ attempt' = [attempt EXCEPT ![w] = 0]
    /\ moved' = [moved EXCEPT ![w] = FALSE]
    /\ result' = IF CanBind(state) THEN result ELSE NoResult
    /\ UNCHANGED <<state, items, tree, up, faults, founderVars, proven>>

----------------------------------------------------------------------------
(* _execute_claim: up to the choice of a criterion                         *)

Enter(w) ==
    /\ At(w, "entering")
    /\ view' = [view EXCEPT ![w] = state]
    /\ Goto(w, "preparing")
    /\ UNCHANGED <<state, lease, items, result, tree, up, faults, crit, attempt,
                   moved, founderVars, proven>>

(* A continuation without criteria has to be planned.                      *)
Derelict(s) ==
    /\ s.achieved
    /\ s.scope = "continuation"
    /\ Planned(s) = {}
    /\ s.phase # "continuation_planning"

Reenter(w) ==
    /\ At(w, "preparing") /\ Derelict(view[w])
    /\ state' = NewScope(state)
    /\ view' = [view EXCEPT ![w] = NewScope(state)]
    /\ UNCHANGED <<lease, items, result, tree, up, faults, pc, crit, attempt,
                   moved, founderVars, proven>>

(* report_blocked at the worker's hands, then out.                         *)
Block(w, c) ==
    /\ Call(CanBlock(state, c), Blocked(state, c))
    /\ Goto(w, "releasing")

(* Paused; or the execution policy or the repository forbids to go on.     *)
TurnBack(w) ==
    /\ At(w, "preparing") /\ ~Derelict(view[w])
    /\ IF view[w].paused
       THEN Goto(w, "releasing") /\ UNCHANGED state
       ELSE Block(w, NoCriterion)
    /\ UNCHANGED <<lease, items, result, tree, up, faults, view, crit, attempt,
                   moved, founderVars, proven>>

(* A dirty tree is committed as a checkpoint outside an increment; inside  *)
(* one it is what a crash left, and goes to quarantine.                    *)
Prepare(w) ==
    /\ At(w, "preparing") /\ ~Derelict(view[w]) /\ ~view[w].paused
    /\ tree' = "clean"
    /\ Goto(w, IF Planned(view[w]) = {} THEN "planning" ELSE "choosing")
    /\ UNCHANGED <<state, lease, items, result, up, faults, view, crit, attempt,
                   moved, founderVars, proven>>

(* The planner asks the founder, its plan is invalid, or a continuation    *)
(* finds nothing left to do.                                               *)
PlanAsks(w) ==
    /\ At(w, "planning")
    /\ NoCriterion \in Questions
    /\ Goto(w, "filing")
    /\ UNCHANGED <<state, lease, items, result, tree, up, faults, view, crit,
                   attempt, moved, founderVars, proven>>

PlanFails(w) ==
    /\ At(w, "planning")
    /\ Block(w, NoCriterion)
    /\ UNCHANGED <<lease, items, result, tree, up, faults, view, crit, attempt,
                   moved, founderVars, proven>>

NothingLeft(w) ==
    /\ At(w, "planning")
    /\ view[w].scope = "continuation"
    /\ Call(MayGo(state, "awaiting_external_boundary"), Awaiting(state))
    /\ Goto(w, "releasing")
    /\ UNCHANGED <<lease, items, result, tree, up, faults, view, crit, attempt,
                   moved, founderVars, proven>>

(* begin_continuation or plan, by the scope the worker read before.        *)
Adopt(w, criteria, reworded) ==
    /\ At(w, "planning")
    /\ LET scope == view[w].scope
           can == scope = "mvp" \/ CanContinue(state)
       IN  /\ Call(can, Plan(state, criteria, scope, reworded))
           /\ Goto(w, IF can THEN "reading" ELSE "releasing")
    /\ UNCHANGED <<lease, items, result, tree, up, faults, view, crit, attempt,
                   moved, founderVars, proven>>

Reread(w) ==
    /\ At(w, "reading")
    /\ view' = [view EXCEPT ![w] = state]
    /\ Goto(w, "choosing")
    /\ UNCHANGED <<state, lease, items, result, tree, up, faults, crit, attempt,
                   moved, founderVars, proven>>

(* begin_increment at a queue boundary, bind_run inside an increment.      *)
AtBoundary(w) == view[w].phase \in {"planning", "ready_for_next_increment"}

Choose(w) ==
    /\ At(w, "choosing")
    /\ \E c \in NextReady(view[w]) :
         LET can == IF AtBoundary(w) THEN CanBegin(state, c) ELSE CanBind(state)
         IN  /\ Call(can /\ AtBoundary(w), Begun(state, c))
             /\ result' = IF can /\ AtBoundary(w) THEN NoResult ELSE result
             /\ crit' = [crit EXCEPT ![w] = IF can THEN c ELSE @]
             /\ Forget(w)
             /\ Goto(w, IF can THEN "dispatching" ELSE "releasing")
    /\ UNCHANGED <<lease, items, tree, up, faults, attempt, moved,
                   founderVars, proven>>

ChooseNone(w) ==
    /\ At(w, "choosing")
    /\ NextReady(view[w]) = {}
    /\ IF Pending(view[w]) # {}
       THEN Block(w, NoCriterion)
       ELSE Goto(w, "finishing") /\ UNCHANGED state
    /\ Forget(w)
    /\ UNCHANGED <<lease, items, result, tree, up, faults, crit, attempt,
                   moved, founderVars, proven>>

----------------------------------------------------------------------------
(* The attempts at a criterion                                             *)

Result(w) == result[attempt[w]]

(* queue_delegation, with a key of its own for each attempt: the agent     *)
(* runs, again if a crash cut its first run short, which stored nothing.   *)
Dispatch(w) ==
    /\ At(w, "dispatching")
    /\ Result(w) = "none"
    /\ Goto(w, "running")
    /\ UNCHANGED <<state, lease, items, result, tree, up, faults, view, crit,
                   attempt, moved, founderVars, proven>>

(* A key with a stored result answers with it, and one without answers     *)
(* with nothing when today's invocations are used up.                      *)
Unrun(w) ==
    /\ At(w, "dispatching")
    /\ Goto(w, "judging")
    /\ UNCHANGED <<state, lease, items, result, tree, up, faults, view, crit,
                   attempt, moved, founderVars, proven>>

(* The coding agent works on the tree and reports.                         *)
Run(w, report, work) ==
    /\ At(w, "running")
    /\ report = "question" => crit[w] \in Questions
    /\ tree' = work
    /\ result' = [result EXCEPT ![attempt[w]] = report]
    /\ Goto(w, "judging")
    /\ UNCHANGED <<state, lease, items, up, faults, view, crit, attempt, moved,
                   founderVars, proven>>

(* A protected manifest was rewritten: rolled back and blocked.            *)
RejectManifest(w) ==
    /\ At(w, "judging")
    /\ tree = "manifest"
    /\ tree' = "clean"
    /\ Block(w, crit[w])
    /\ UNCHANGED <<lease, items, result, up, faults, view, crit, attempt, moved,
                   founderVars, proven>>

(* The loop goes on, or is through.                                        *)
NextAttemptTooMany(w) == attempt' = [attempt EXCEPT ![w] = @ + 1] /\ Goto(w, "dispatching")
NextAttempt(w) ==
    IF attempt[w] < MaxAttempt
    THEN attempt' = [attempt EXCEPT ![w] = @ + 1] /\ Goto(w, "dispatching")
    ELSE Goto(w, "exhausted") /\ UNCHANGED attempt

(* A reversible local choice is made for the founder.                      *)
TakeChoice(w) ==
    /\ At(w, "judging")
    /\ tree # "manifest"
    /\ Result(w) = "choice"
    /\ tree' = "clean"
    /\ NextAttempt(w)
    /\ UNCHANGED <<state, lease, items, result, up, faults, view, crit, moved,
                   founderVars, proven>>

AskFounder(w) ==
    /\ At(w, "judging")
    /\ tree # "manifest"
    /\ Result(w) = "question"
    /\ Goto(w, "filing")
    /\ UNCHANGED <<state, lease, items, result, tree, up, faults, view, crit,
                   attempt, moved, founderVars, proven>>

Judged(w) ==
    /\ At(w, "judging")
    /\ tree # "manifest"
    /\ Result(w) \notin {"choice", "question"}

StopPaused(w) ==
    /\ Judged(w) /\ state.paused
    /\ tree' = "clean"
    /\ Goto(w, "releasing")
    /\ UNCHANGED <<state, lease, items, result, up, faults, view, crit, attempt,
                   moved, founderVars, proven>>

(* No passing report, or one with no change to show: repaired in place.    *)
Repair(w) ==
    /\ Judged(w) /\ ~state.paused
    /\ Result(w) # "ok" \/ tree = "clean"
    /\ NextAttempt(w)
    /\ UNCHANGED <<state, lease, items, result, tree, up, faults, view, crit,
                   moved, founderVars, proven>>

(* _commit_increment *)
Commit(w) ==
    /\ Judged(w) /\ ~state.paused
    /\ Result(w) = "ok" /\ tree # "clean"
    /\ tree' = "clean"
    /\ moved' = [moved EXCEPT ![w] = TRUE]
    /\ Goto(w, "proving")
    /\ UNCHANGED <<state, lease, items, result, up, faults, view, crit, attempt,
                   founderVars, proven>>

(* The checks of the attempt run again on the commit.                      *)
Prove(w) ==
    /\ At(w, "proving")
    /\ proven' = proven \cup {crit[w]}
    /\ Goto(w, "verifying")
    /\ UNCHANGED <<state, lease, items, result, tree, up, faults, view, crit,
                   attempt, moved, founderVars>>

FailProof(w) ==
    /\ At(w, "proving")
    /\ tree' \in {"clean", "attempt"}
    /\ NextAttempt(w)
    /\ UNCHANGED <<state, lease, items, result, up, faults, view, crit, moved,
                   founderVars, proven>>

(* begin_verification, if the project is still building.                   *)
Verify(w) ==
    /\ At(w, "verifying")
    /\ Call(state.phase = "building", [state EXCEPT !.phase = "verifying"])
    /\ Goto(w, "recording")
    /\ UNCHANGED <<lease, items, result, tree, up, faults, view, crit, attempt,
                   moved, founderVars, proven>>

RecordComplete(w) ==
    /\ At(w, "recording")
    /\ IF CanComplete(state, crit[w])
       THEN /\ state' = CriterionComplete(state, crit[w])
            /\ Goto(w, "finishing")
            /\ UNCHANGED attempt
       ELSE NextAttempt(w) /\ UNCHANGED state
    /\ UNCHANGED <<lease, items, result, tree, up, faults, view, crit, moved,
                   founderVars, proven>>

(* The budget is spent: what was not committed goes to quarantine, unless  *)
(* an attempt moved HEAD, and the criterion back to the queue.             *)
Exhaust(w) ==
    /\ At(w, "exhausted")
    /\ tree' = IF moved[w] THEN tree ELSE "clean"
    /\ Call(CanRequeue(state, crit[w]), Requeued(state, crit[w]))
    /\ Goto(w, "releasing")
    /\ UNCHANGED <<lease, items, result, up, faults, view, crit, attempt, moved,
                   founderVars, proven>>

----------------------------------------------------------------------------
(* A question for the founder                                              *)

(* _file_decision: the item of a question is made once; one that comes     *)
(* from an attempt may be a new item of its own.                           *)
Unfiled(q, before) == {before}
Filed(q, before) ==
    IF before = "none" THEN {"open"} ELSE IF q = NoCriterion THEN {before} ELSE {before, "open"}

File(w) ==
    /\ At(w, "filing")
    /\ \E after \in Filed(crit[w], items[crit[w]]) :
         items' = [items EXCEPT ![crit[w]] = after]
    /\ Goto(w, "asking")
    /\ UNCHANGED <<state, lease, result, tree, up, faults, view, crit, attempt,
                   moved, founderVars, proven>>

(* report_needs_decision *)
Ask(w) ==
    /\ At(w, "asking")
    /\ LET can == MayGo(state, "needs_decision")
       IN  /\ Call(can, Asking(state, crit[w]))
           /\ Goto(w, IF can THEN "withdrawing" ELSE "releasing")
    /\ UNCHANGED <<lease, items, result, tree, up, faults, view, crit, attempt,
                   moved, founderVars, proven>>

(* The attempt that asked is rolled back.                                  *)
Withdraw(w) ==
    /\ At(w, "withdrawing")
    /\ tree' = IF crit[w] = NoCriterion THEN tree ELSE "clean"
    /\ Goto(w, "releasing")
    /\ UNCHANGED <<state, lease, items, result, up, faults, view, crit, attempt,
                   moved, founderVars, proven>>

----------------------------------------------------------------------------
(* _complete_if_ready                                                      *)

(* Without fresh evidence of an increment the declared checks run first,   *)
(* and may fail; there are none to run when the plan is gone.              *)
Finish(w, passed) ==
    /\ At(w, "finishing")
    /\ LET shown == crit[w] # NoCriterion \/ (Planned(state) # {} /\ passed)
       IN  Goto(w, IF Pending(state) # {} \/ ~shown THEN "releasing"
                   ELSE IF state.scope = "continuation" THEN "waiting" ELSE "closing")
    /\ UNCHANGED <<state, lease, items, result, tree, up, faults, view, crit,
                   attempt, moved, founderVars, proven>>

AwaitBoundary(w) ==
    /\ At(w, "waiting")
    /\ Call(MayGo(state, "awaiting_external_boundary"), Awaiting(state))
    /\ Goto(w, "releasing")
    /\ UNCHANGED <<lease, items, result, tree, up, faults, view, crit, attempt,
                   moved, founderVars, proven>>

Close(w) ==
    /\ At(w, "closing")
    /\ Call(CanAchieve(state), MvpAchieved(state))
    /\ Goto(w, "releasing")
    /\ UNCHANGED <<lease, items, result, tree, up, faults, view, crit, attempt,
                   moved, founderVars, proven>>

(* A reporter method raises ProjectAutonomyConflict: another wrote between *)
(* its read and its write.                                                 *)
Conflict(w) ==
    /\ up /\ faults < MaxFault
    /\ faults' = faults + 1
    /\ \/ /\ pc[w] \in {"planning", "choosing", "asking", "exhausted", "waiting", "closing"}
          /\ Goto(w, "releasing")
          /\ UNCHANGED attempt
       \/ /\ pc[w] \in {"verifying", "recording"}
          /\ NextAttempt(w)
    /\ UNCHANGED <<state, lease, items, result, tree, up, view, crit, moved,
                   founderVars, proven>>

Step(w) ==
    \/ Look(w) \/ Claim(w) \/ Release(w) \/ Enter(w) \/ Reenter(w) \/ Prepare(w)
    \/ PlanAsks(w) \/ PlanFails(w) \/ NothingLeft(w) \/ TurnBack(w)
    \/ \E criteria \in Plans, reworded \in BOOLEAN : Adopt(w, criteria, reworded)
    \/ Reread(w) \/ Choose(w) \/ ChooseNone(w) \/ Dispatch(w) \/ Unrun(w)
    \/ \E report \in Report, work \in {tree, "attempt", "manifest"} : Run(w, report, work)
    \/ RejectManifest(w) \/ TakeChoice(w) \/ AskFounder(w) \/ StopPaused(w)
    \/ Repair(w) \/ Commit(w) \/ Prove(w) \/ FailProof(w) \/ Verify(w)
    \/ RecordComplete(w) \/ Exhaust(w) \/ File(w) \/ Ask(w) \/ Withdraw(w)
    \/ \E passed \in BOOLEAN : Finish(w, passed)
    \/ AwaitBoundary(w) \/ Close(w)

----------------------------------------------------------------------------
(* The founder                                                             *)

(* A request that is one call of the reporter.                             *)
Request(name, can, next) ==
    /\ up /\ name \in Requests
    /\ can
    /\ state' = next
    /\ UNCHANGED <<lease, items, result, tree, up, faults, workerVars,
                   founderVars, proven>>

Pause == Request("pause", ~state.paused, [state EXCEPT !.paused = TRUE])
Resume == Request("resume", CanResume(state), Resumed(state))
Reopen == Request("reopen", CanReopen(state), Reopened(state))

FounderAt(where) == up /\ fpc = where
FounderDone ==
    /\ fpc' = "idle"
    /\ freplans' = FALSE
    /\ fquestion' = NoCriterion

(* replan, which takes no lease: a project with an achieved MVP leaves its *)
(* scope at once, and the planner runs after that.                         *)
Replan ==
    /\ FounderAt("idle") /\ "replan" \in Requests
    /\ freplans' = state.achieved
    /\ Call(state.achieved, NewScope(state))
    /\ fpc' = "planning"
    /\ UNCHANGED <<lease, items, result, tree, up, faults, workerVars, fquestion,
                   proven>>

ReplanFails ==
    /\ FounderAt("planning")
    /\ FounderDone
    /\ UNCHANGED <<state, lease, items, result, tree, up, faults, workerVars, proven>>

ReplanAdopts(criteria, reworded) ==
    /\ FounderAt("planning")
    /\ IF freplans
       THEN Call(CanContinue(state), Plan(state, criteria, "continuation", reworded))
       ELSE state' = Plan(state, criteria, "mvp", reworded)
    /\ FounderDone
    /\ UNCHANGED <<lease, items, result, tree, up, faults, workerVars, proven>>

ReplanAsks ==
    /\ FounderAt("planning")
    /\ NoCriterion \in Questions
    /\ state' = NewScope(state)
    /\ fpc' = "filing"
    /\ fquestion' = NoCriterion
    /\ UNCHANGED <<lease, items, result, tree, up, faults, workerVars, freplans,
                   proven>>

FileReplan ==
    /\ FounderAt("filing")
    /\ \E after \in Filed(NoCriterion, items[NoCriterion]) :
         items' = [items EXCEPT ![NoCriterion] = after]
    /\ fpc' = "asking"
    /\ UNCHANGED <<state, lease, result, tree, up, faults, workerVars, freplans,
                   fquestion, proven>>

AskReplan ==
    /\ FounderAt("asking")
    /\ Call(MayGo(state, "needs_decision"), Asking(state, NoCriterion))
    /\ FounderDone
    /\ UNCHANGED <<lease, items, result, tree, up, faults, workerVars, proven>>

(* resolve_decision, in transactions of its own each: the item's request   *)
(* is resolved, the item approved, then done, and only then does the       *)
(* project hear of it. As long as the item is not approved it gets another *)
(* request, and one that is done is answered again while the project waits *)
(* on it; one that was left approved is refused.                           *)
Answer(q) ==
    /\ FounderAt("idle")
    /\ items[q] \in {"open", "resolved"}
    /\ items' = [items EXCEPT ![q] = "resolved"]
    /\ fquestion' = q
    /\ fpc' = "approving"
    /\ UNCHANGED <<state, lease, result, tree, up, faults, workerVars, freplans,
                   proven>>

NeverAgain(q) == FALSE
AnswerDone(q) == items[q] = "done" /\ Waiting(state, q)

AnswerAgain(q) ==
    /\ FounderAt("idle")
    /\ AnswerDone(q)
    /\ fquestion' = q
    /\ fpc' = "applying"
    /\ UNCHANGED <<state, lease, items, result, tree, up, faults, workerVars,
                   freplans, proven>>

(* A write to the item answered, which is not the question's any more when *)
(* a new one was filed meanwhile.                                          *)
Advance(where, before, after, next) ==
    /\ FounderAt(where)
    /\ items' = [items EXCEPT ![fquestion] = IF @ = before THEN after ELSE @]
    /\ fpc' = next
    /\ UNCHANGED <<state, lease, result, tree, up, faults, workerVars, freplans,
                   fquestion, proven>>

Approve == Advance("approving", "resolved", "approved", "concluding")
Conclude == Advance("concluding", "approved", "done", "applying")

(* The decision listener: resume_after_decision, and a wake.               *)
Apply ==
    /\ FounderAt("applying")
    /\ Call(Waiting(state, fquestion) /\ items[fquestion] = "done", AfterDecision(state))
    /\ FounderDone
    /\ UNCHANGED <<lease, items, result, tree, up, faults, workerVars, proven>>

(* A lock timeout or a conflict ends the call with what it had done.       *)
AnswerFails ==
    /\ up /\ fpc \in {"approving", "concluding", "applying"}
    /\ faults < MaxFault
    /\ faults' = faults + 1
    /\ FounderDone
    /\ UNCHANGED <<state, lease, items, result, tree, up, workerVars, proven>>

Answering ==
    \/ \E q \in Question : Answer(q) \/ AnswerAgain(q)
    \/ Approve \/ Conclude \/ Apply
Replanning ==
    \/ Replan \/ ReplanFails \/ ReplanAsks \/ FileReplan \/ AskReplan
    \/ \E criteria \in Plans, reworded \in BOOLEAN : ReplanAdopts(criteria, reworded)
Founder == Pause \/ Resume \/ Reopen \/ Replanning \/ Answering \/ AnswerFails

----------------------------------------------------------------------------
(* The process dies with its threads and requests; the row, the items, the *)
(* stored results and the tree stay.                                       *)
Crash ==
    /\ up /\ faults < MaxFault
    /\ faults' = faults + 1
    /\ up' = FALSE
    /\ lease' = IF lease = Nobody THEN Nobody ELSE Orphan
    /\ pc' = [w \in Worker |-> "idle"]
    /\ view' = [w \in Worker |-> DefaultState]
    /\ crit' = [w \in Worker |-> NoCriterion]
    /\ attempt' = [w \in Worker |-> 0]
    /\ moved' = [w \in Worker |-> FALSE]
    /\ FounderDone
    /\ tree' \in IF \E w \in Worker : pc[w] = "running" THEN {tree, "attempt"} ELSE {tree}
    /\ UNCHANGED <<state, items, result, proven>>

(* recover, before the workers start: the lease of a process that is gone  *)
(* is cleared.                                                             *)
Recovered == IF lease = Orphan THEN Nobody ELSE lease

Restart ==
    /\ ~up
    /\ up' = TRUE
    /\ lease' = Recovered
    /\ UNCHANGED <<state, items, result, tree, faults, workerVars, founderVars, proven>>

Next ==
    \/ \E w \in Worker : Step(w) \/ Conflict(w)
    \/ Founder
    \/ Crash \/ Restart

Spec == Init /\ [][Next]_vars

(* A thread takes its next step as long as the process runs, a restart and *)
(* the founder's answer come in the end. Every day brings new invocations. *)
(* That an agent given any number of attempts delivers work that passes    *)
(* once is assumed of the model.                                           *)
Fairness ==
    /\ \A w \in Worker : WF_vars(Step(w))
    /\ WF_vars(Restart) /\ WF_vars(Answering)
    /\ SF_vars(\E w \in Worker : Dispatch(w))
    /\ SF_vars(\E w \in Worker : Run(w, "ok", "attempt"))
    /\ SF_vars(\E w \in Worker : Prove(w))
    /\ SF_vars(\E w \in Worker : Finish(w, TRUE))

LiveSpec == Spec /\ Fairness

----------------------------------------------------------------------------
(* A criterion is complete only in the increment begun for it, and only    *)
(* after everything it depends on: "one dependency-ready criterion at a    *)
(* time" of the orchestrator's docstring, across crashes and the replay of *)
(* stored results.                                                         *)
InOrder ==
    [][\A c \in Criterion :
         state'.status[c] = "complete" /\ state.status[c] # "complete" =>
             state.current = c /\ DependsOn[c] \subseteq Completed(state)]_vars

(* What is complete stays so as long as the plan has it, although workers, *)
(* replans and repairs write over the plan meanwhile.                      *)
CompletedKept ==
    [][\A c \in Completed(state) : state'.status[c] \in {"complete", "absent"}]_vars

(* The MVP milestone is recorded for a plan whose every criterion passed   *)
(* its checks on a commit, even when a replan lands between the worker's   *)
(* look at the plan and complete_mvp.                                      *)
MilestoneEarned ==
    [][~state.achieved /\ state'.achieved =>
         Planned(state) # {} /\ Planned(state) \subseteq proven]_vars

(* A project that waits for a decision waits on an item the founder has:   *)
(* it was filed before the project said so, by every way to ask.           *)
WaitIsAnswerable ==
    state.phase = "needs_decision" =>
        state.asked # NoQuestion /\ items[state.asked] # "none"

(* Autonomy gets on: the project comes to a point where the founder or     *)
(* nothing is left to wait for, again and again.                           *)
Settled == state.paused \/ state.phase \in TerminalPhases
Settles == []<>Settled

(* An answer reaches the project, wherever a crash or a failing write cuts *)
(* it off but between the item's approval and its "done".                  *)
Stranded(q) == items[q] = "approved" /\ ~(fpc = "concluding" /\ fquestion = q)
AnswerHeard ==
    \A q \in Question : Waiting(state, q) ~> (~Waiting(state, q) \/ Stranded(q))

(* Every wait ends in the end, by an answer however often it was cut off.  *)
EveryWaitEnds ==
    \A q \in Question : Waiting(state, q) ~> ~Waiting(state, q)

(* resume, "an explicit founder recovery action", frees every blocked      *)
(* project.                                                                *)
Recoverable == state.phase = "blocked" => CanResume(state)

(* "A build cannot start from needs_decision" (the design): only an answer *)
(* or a new plan of the founder's ends the wait, no worker does.           *)
WaitsForAnswer ==
    [][state.phase = "needs_decision" /\ state'.phase # "needs_decision" =>
         Apply \/ Replanning]_vars

(* What a failed or interrupted attempt left in the tree goes to           *)
(* quarantine, never into the checkpoint of "pre-existing work" that       *)
(* _execute_claim commits at a planning boundary.                          *)
AttemptsNotKept ==
    [][\A w \in Worker :
         Prepare(w) /\ tree = "attempt" => view[w].phase \in {"building", "verifying"}]_vars
=============================================================================
