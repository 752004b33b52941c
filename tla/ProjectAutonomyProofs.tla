----------------------- MODULE ProjectAutonomyProofs -------------------------
(***************************************************************************)
(* Proofs about ProjectAutonomy, for any plans, any number of workers and  *)
(* of attempts, and every order of the founder's requests.                 *)
(*                                                                         *)
(* What a step makes of the row is told first, from each method of the     *)
(* reporter (Moves); then where a step takes its worker, and what it       *)
(* leaves alone; then the invariants.                                      *)
(***************************************************************************)
EXTENDS ProjectAutonomy, TLAPS

(* The invariants.                                                         *)

(* A worker that has claimed the project.                                  *)
Inside(w) == pc[w] \notin {"idle", "claiming"}

(* The lease is the worker's inside: there is at most one.                 *)
LeaseKept == \A w \in Worker : Inside(w) <=> lease = w

(* Where a worker has a criterion in hand, and where it looks at the row   *)
(* it has read for one.                                                    *)
AtWork == {"dispatching", "running", "judging", "proving", "verifying", "recording",
           "exhausted"}
Looked == {"preparing", "choosing"}

(* The criterion in hand is not complete yet, and what is complete was so  *)
(* when the worker read the row: nobody else completes anything meanwhile. *)
(* It has passed its checks once they are to be recorded, and the question *)
(* it asks is filed.                                                       *)
InHand(w) ==
    /\ pc[w] \in AtWork => crit[w] \in Criterion \ Completed(state)
    /\ pc[w] \in Looked => Completed(state) \subseteq Completed(view[w])
    /\ pc[w] \in {"verifying", "recording"} => crit[w] \in proven
    /\ pc[w] = "asking" => items[crit[w]] # "none"

(* What is complete has passed its checks, and every question asked or     *)
(* about to be is filed.                                                   *)
RowKept ==
    /\ Completed(state) \subseteq proven
    /\ fpc = "asking" => items[NoCriterion] # "none"
    /\ WaitIsAnswerable

AutonomyInv == LeaseKept /\ (\A w \in Worker : InHand(w)) /\ RowKept

(* When no replan is requested: an increment is of a pending criterion     *)
(* whose dependencies are complete, and a project that awaits the outside  *)
(* has nothing planned.                                                    *)
UnderWay(s) == s.phase \in {"building", "verifying"}
NoReplan == {"idle", "approving", "concluding", "applying"}
RowInOrder ==
    /\ fpc \in NoReplan
    /\ UnderWay(state) =>
         state.current \in Pending(state) /\ DependsOn[state.current] \subseteq Completed(state)
    /\ state.phase = "awaiting_external_boundary" => Planned(state) = {}

(* What a worker saw complete still is, an increment under way is the one  *)
(* it saw, and the one it works on.                                        *)
ViewInOrder(w) ==
    /\ pc[w] \in Looked =>
         /\ Completed(view[w]) \subseteq Completed(state)
         /\ UnderWay(state) => /\ view[w].phase = state.phase
                               /\ view[w].current = state.current
                               /\ view[w].status = state.status
    /\ pc[w] \in AtWork /\ UnderWay(state) => state.current = crit[w]

OrderInv == RowInOrder /\ \A w \in Worker : ViewInOrder(w)

----------------------------------------------------------------------------
(* What the methods of the reporter make of the row.                       *)

(* What every method of the reporter but three leaves alone: it completes  *)
(* nothing, takes nothing complete back but with its criterion, records no *)
(* milestone, and asks nothing.                                            *)
Moves(s, t) ==
    /\ \A c \in Criterion : t.status[c] = "complete" => s.status[c] = "complete"
    /\ \A c \in Criterion : s.status[c] = "complete" => t.status[c] \in {"complete", "absent"}
    /\ t.achieved = s.achieved
    /\ t.phase = "needs_decision" => s.phase = "needs_decision" /\ t.asked = s.asked

(* NoCriterion is no criterion, NoQuestion no question.                    *)
LEMMA CriterionFacts ==
    /\ NoCriterion \notin Criterion /\ NoQuestion \notin Question
    /\ Criterion \subseteq Question /\ NoCriterion \in Question
<1>1. NoCriterion \in Nat /\ NoCriterion \notin Criterion /\ Criterion \subseteq Nat
  BY PhasesAssumption DEF NoCriterion
<1>2. NoQuestion \notin Nat
  BY PhasesAssumption, Zenon
<1> QED BY <1>1, <1>2, Zenon DEF Question

(* The phases, one by one.                                                 *)
LEMMA PhaseValues ==
    Phase = {"planning", "building", "verifying", "ready_for_next_increment", "needs_decision",
             "blocked", "continuation_planning", "awaiting_external_boundary"}
BY DEF Phase, AllowedTransitions

(* A project of which nothing is known has a row.                          *)
LEMMA DefaultRow == DefaultState \in State
BY PhaseValues, CriterionFacts DEF DefaultState, State, NoPlan, CriterionStatus

(* plan and begin_continuation.                                            *)
LEMMA PlanMoves ==
    ASSUME NEW s \in State, NEW criteria \in SUBSET Criterion,
           NEW scope \in {"mvp", "continuation"}, NEW reworded \in BOOLEAN
    PROVE  /\ Plan(s, criteria, scope, reworded) \in State
           /\ Moves(s, Plan(s, criteria, scope, reworded))
<1> DEFINE r == Reconciled(s, criteria)
           t == [s EXCEPT !.phase = "planning", !.scope = scope, !.status = r]
<1>1. /\ r \in [Criterion -> CriterionStatus]
      /\ \A c \in Criterion : r[c] = "complete" => s.status[c] = "complete"
      /\ \A c \in Criterion : s.status[c] = "complete" => r[c] \in {"complete", "absent"}
  BY DEF Reconciled, Planned, State, CriterionStatus
<1> HIDE DEF r
<1>2. t \in State /\ Moves(s, t)
  BY <1>1, PhaseValues DEF State, Moves
<1>3. Moves(s, s)
  BY DEF Moves
<1>4. Plan(s, criteria, scope, reworded) \in {s, t}
  BY DEF Plan, r
<1> QED BY <1>2, <1>3, <1>4

(* begin_new_scope.                                                        *)
LEMMA NewScopeMoves ==
    ASSUME NEW s \in State
    PROVE  NewScope(s) \in State /\ Moves(s, NewScope(s))
<1> USE PhaseValues, CriterionFacts
<1> DEFINE base == IF s.achieved THEN s ELSE DefaultState
           t == [base EXCEPT !.phase = "continuation_planning", !.scope = "continuation",
                             !.status = NoPlan, !.current = NoCriterion, !.asked = NoQuestion]
<1>1. CASE ~s.achieved /\ Planned(s) # {}
  BY <1>1 DEF NewScope, Moves
<1>2. CASE s.achieved \/ Planned(s) = {}
  <2>1. NewScope(s) = t
    BY <1>2 DEF NewScope
  <2>2. base \in State /\ base.achieved = s.achieved
    BY DefaultRow DEF State, DefaultState
  <2>4. NoPlan \in [Criterion -> CriterionStatus] /\ \A c \in Criterion : NoPlan[c] = "absent"
    BY DEF NoPlan, CriterionStatus
  <2> HIDE DEF base
  <2>5. t \in State
    BY <2>2, <2>4 DEF State
  <2>6. /\ t.achieved = s.achieved /\ t.phase = "continuation_planning"
        /\ \A c \in Criterion : t.status[c] = "absent"
    BY <2>2, <2>4 DEF State
  <2> HIDE DEF t
  <2> QED BY <2>1, <2>5, <2>6 DEF Moves
<1> QED BY <1>1, <1>2

(* begin_increment, begin_verification, pause, await_external_boundary,    *)
(* resume_after_decision and reopen_continuation.                          *)
LEMMA SmallMoves ==
    ASSUME NEW s \in State
    PROVE  /\ Moves(s, s)
           /\ \A c \in Criterion : Begun(s, c) \in State /\ Moves(s, Begun(s, c))
           /\ [s EXCEPT !.phase = "verifying"] \in State
           /\ Moves(s, [s EXCEPT !.phase = "verifying"])
           /\ [s EXCEPT !.paused = TRUE] \in State /\ Moves(s, [s EXCEPT !.paused = TRUE])
           /\ Awaiting(s) \in State /\ Moves(s, Awaiting(s))
           /\ AfterDecision(s) \in State /\ Moves(s, AfterDecision(s))
           /\ Reopened(s) \in State /\ Moves(s, Reopened(s))
<1> USE PhaseValues, CriterionFacts DEF State, Moves
<1>1. Moves(s, s)
  OBVIOUS
<1>2. \A c \in Criterion : Begun(s, c) \in State /\ Moves(s, Begun(s, c))
  BY DEF Begun
<1>3. /\ [s EXCEPT !.phase = "verifying"] \in State
      /\ Moves(s, [s EXCEPT !.phase = "verifying"])
  OBVIOUS
<1>4. [s EXCEPT !.paused = TRUE] \in State /\ Moves(s, [s EXCEPT !.paused = TRUE])
  OBVIOUS
<1>5. Awaiting(s) \in State /\ Moves(s, Awaiting(s))
  BY DEF Awaiting, NoPlan, CriterionStatus
<1>6. AfterDecision(s) \in State /\ Moves(s, AfterDecision(s))
  <2>1. \E p \in {"ready_for_next_increment", "continuation_planning", "planning"} :
          AfterDecision(s) = [s EXCEPT !.phase = p, !.asked = NoQuestion]
    BY DEF AfterDecision
  <2> QED BY <2>1
<1>7. Reopened(s) \in State /\ Moves(s, Reopened(s))
  BY DEF Reopened, NoPlan, CriterionStatus
<1> HIDE DEF State, Moves
<1> QED BY <1>1, <1>2, <1>3, <1>4, <1>5, <1>6, <1>7

(* resume.                                                                 *)
LEMMA ResumeMoves ==
    ASSUME NEW s \in State
    PROVE  Resumed(s) \in State /\ Moves(s, Resumed(s))
<1> USE PhaseValues, CriterionFacts
<1> DEFINE r == [c \in Criterion |-> IF c = s.current /\ s.status[c] = "blocked" THEN "pending"
                                     ELSE s.status[c]]
<1>1. \/ Resumed(s) = [s EXCEPT !.paused = FALSE]
      \/ Resumed(s) = [s EXCEPT !.phase = "planning"]
      \/ Resumed(s) = [s EXCEPT !.phase = "ready_for_next_increment", !.status = r]
  BY DEF Resumed
<1>2. /\ r \in [Criterion -> CriterionStatus]
      /\ \A c \in Criterion : r[c] = "complete" <=> s.status[c] = "complete"
  BY DEF State, CriterionStatus
<1> HIDE DEF r
<1> QED BY <1>1, <1>2 DEF State, Moves

(* requeue_mechanical_repair.                                              *)
LEMMA RequeueMoves ==
    ASSUME NEW s \in State, NEW c \in Criterion, CanRequeue(s, c)
    PROVE  Requeued(s, c) \in State /\ Moves(s, Requeued(s, c))
BY PhaseValues DEF State, Moves, CanRequeue, Pending, Completed, Requeued, CriterionStatus

(* report_blocked, of the project or of a criterion that is not complete.  *)
LEMMA BlockMoves ==
    ASSUME NEW s \in State, NEW c \in Question \ Completed(s)
    PROVE  Blocked(s, c) \in State /\ Moves(s, Blocked(s, c))
<1> DEFINE r == [d \in Criterion |-> IF d = c THEN "blocked" ELSE s.status[d]]
<1>1. Blocked(s, c) = [s EXCEPT !.phase = "blocked", !.status = r]
  BY DEF Blocked
<1>2. /\ r \in [Criterion -> CriterionStatus]
      /\ \A d \in Criterion : r[d] = "complete" <=> s.status[d] = "complete"
  BY DEF State, CriterionStatus, Completed
<1> HIDE DEF r
<1> QED BY <1>1, <1>2, PhaseValues DEF State, Moves

(* The other three: a criterion is completed, the milestone recorded, a    *)
(* question asked.                                                         *)
LEMMA CompleteRow ==
    ASSUME NEW s \in State, NEW c \in Criterion
    PROVE  /\ CriterionComplete(s, c) \in State
           /\ CriterionComplete(s, c).achieved = s.achieved
           /\ CriterionComplete(s, c).phase = "ready_for_next_increment"
           /\ \A d \in Criterion : CriterionComplete(s, c).status[d]
                                     = IF d = c THEN "complete" ELSE s.status[d]
BY PhaseValues DEF State, CriterionComplete, CriterionStatus

(* complete_mvp: nothing of the plan is left.                              *)
LEMMA AchievedRow ==
    ASSUME NEW s \in State
    PROVE  /\ MvpAchieved(s) \in State
           /\ MvpAchieved(s).phase = "continuation_planning"
           /\ \A d \in Criterion : MvpAchieved(s).status[d] = "absent"
BY PhaseValues, CriterionFacts DEF State, MvpAchieved, NoPlan, CriterionStatus

(* report_needs_decision: the row asks what it is told, and is otherwise   *)
(* as it was.                                                              *)
LEMMA AskingRow ==
    ASSUME NEW s \in State, NEW q \in Question
    PROVE  /\ Asking(s, q) \in State
           /\ Asking(s, q).achieved = s.achieved
           /\ Asking(s, q).asked = q
           /\ Asking(s, q).status = s.status
BY PhaseValues DEF State, Asking

----------------------------------------------------------------------------
(* What a step of a worker makes of the row.                               *)

(* What a step of worker w may make of the row.                            *)
RowStep(w) ==
    \/ Moves(state, state')
    \/ /\ pc[w] = "recording" /\ CanComplete(state, crit[w])
       /\ state' = CriterionComplete(state, crit[w])
    \/ pc[w] = "closing" /\ CanAchieve(state) /\ state' = MvpAchieved(state)
    \/ pc[w] = "asking" /\ state' = Asking(state, crit[w])

(* The types of what a worker reads and holds.                             *)
LEMMA WorkerFacts ==
    ASSUME TypeOK, NEW w \in Worker
    PROVE  /\ state \in State /\ view[w] \in State /\ crit[w] \in Question
           /\ pc[w] \in Where /\ attempt[w] \in Attempt
           /\ w # Nobody /\ w # Orphan
BY AutonomyAssumption DEF TypeOK, Question

(* A worker that blocks the project writes nothing else.                   *)
LEMMA BlockedRow ==
    ASSUME state \in State, NEW c \in Question \ Completed(state), NEW w, Block(w, c)
    PROVE  state' \in State /\ Moves(state, state')
BY BlockMoves, SmallMoves DEF Block, Call

(* A step of a worker is made by a process that runs, and writes the row   *)
(* by one method: one case per action.                                     *)
LEMMA WorkerRow ==
    ASSUME TypeOK, NEW w \in Worker, InHand(w), Step(w) \/ Conflict(w)
    PROVE  up /\ state' \in State /\ RowStep(w)
<1> USE WorkerFacts, SmallMoves
<1>1. CASE /\ UNCHANGED state /\ up
  BY <1>1 DEF RowStep
<1>2. ASSUME up, NEW c \in Question \ Completed(state), Block(w, c)
      PROVE  up /\ state' \in State /\ RowStep(w)
  BY <1>2, BlockedRow DEF RowStep
<1>3. NoCriterion \in Question \ Completed(state)
  BY CriterionFacts DEF Completed
<1>4. CASE Reenter(w)
  BY <1>4, NewScopeMoves DEF Reenter, At, RowStep
<1>5. CASE TurnBack(w)
  BY <1>1, <1>2, <1>3, <1>5 DEF TurnBack, At
<1>6. CASE PlanFails(w)
  BY <1>2, <1>3, <1>6 DEF PlanFails, At
<1>7. CASE NothingLeft(w)
  BY <1>7 DEF NothingLeft, At, Call, RowStep
<1>8. ASSUME NEW criteria \in Plans, NEW reworded \in BOOLEAN, Adopt(w, criteria, reworded)
      PROVE  up /\ state' \in State /\ RowStep(w)
  <2>1. criteria \in SUBSET Criterion /\ view[w].scope \in {"mvp", "continuation"}
    BY AutonomyAssumption DEF State
  <2>2. state' = state \/ state' = Plan(state, criteria, view[w].scope, reworded)
    BY <1>8 DEF Adopt, Call
  <2> QED BY <1>8, <2>1, <2>2, PlanMoves DEF Adopt, At, RowStep
<1>9. CASE Choose(w)
  <2>1. PICK c \in NextReady(view[w]) : state' = state \/ state' = Begun(state, c)
    BY <1>9 DEF Choose, Call
  <2>2. c \in Criterion
    BY <2>1 DEF NextReady, DependencyReady, Pending, Planned
  <2> QED BY <1>9, <2>1, <2>2 DEF Choose, At, RowStep
<1>10. CASE ChooseNone(w)
  BY <1>1, <1>2, <1>3, <1>10 DEF ChooseNone, At
<1>11. CASE RejectManifest(w)
  <2>1. crit[w] \in Question \ Completed(state)
    BY <1>11 DEF RejectManifest, At, InHand, AtWork
  <2> QED BY <1>2, <1>11, <2>1 DEF RejectManifest, At
<1>12. CASE Verify(w)
  BY <1>12 DEF Verify, At, Call, RowStep
<1>13. CASE RecordComplete(w)
  <2>1. crit[w] \in Criterion /\ pc[w] = "recording" /\ up
    BY <1>13 DEF RecordComplete, At, InHand, AtWork
  <2>2. \/ UNCHANGED state
        \/ CanComplete(state, crit[w]) /\ state' = CriterionComplete(state, crit[w])
    BY <1>13 DEF RecordComplete
  <2> QED BY <1>1, <2>1, <2>2, CompleteRow DEF RowStep
<1>14. CASE Exhaust(w)
  <2>1. crit[w] \in Criterion
    BY <1>14 DEF Exhaust, At, InHand, AtWork
  <2> QED BY <1>14, <2>1, RequeueMoves DEF Exhaust, At, Call, RowStep
<1>15. CASE Ask(w)
  BY <1>15, AskingRow DEF Ask, At, Call, RowStep
<1>16. CASE AwaitBoundary(w)
  BY <1>16 DEF AwaitBoundary, At, Call, RowStep
<1>17. CASE Close(w)
  BY <1>17, AchievedRow DEF Close, At, Call, RowStep
<1>18. CASE \/ Look(w) \/ Claim(w) \/ Release(w) \/ Enter(w) \/ Prepare(w) \/ PlanAsks(w)
            \/ Reread(w) \/ Dispatch(w) \/ Unrun(w) \/ TakeChoice(w) \/ AskFounder(w)
            \/ StopPaused(w) \/ Repair(w) \/ Commit(w) \/ Prove(w) \/ FailProof(w)
            \/ File(w) \/ Withdraw(w) \/ Conflict(w)
  BY <1>1, <1>18 DEF Look, Claim, Release, Enter, Prepare, PlanAsks, Reread, Dispatch, Unrun,
     TakeChoice, AskFounder, StopPaused, Repair, Commit, Prove, FailProof, File, Withdraw,
     Conflict, Judged, At
<1>19. ASSUME NEW report \in Report, NEW work \in {tree, "attempt", "manifest"},
              Run(w, report, work)
       PROVE  up /\ state' \in State /\ RowStep(w)
  BY <1>1, <1>19 DEF Run, At
<1>20. ASSUME NEW passed \in BOOLEAN, Finish(w, passed)
       PROVE  up /\ state' \in State /\ RowStep(w)
  BY <1>1, <1>20 DEF Finish, At
<1> QED BY <1>4, <1>5, <1>6, <1>7, <1>8, <1>9, <1>10, <1>11, <1>12, <1>13, <1>14, <1>15,
           <1>16, <1>17, <1>18, <1>19, <1>20 DEF Step

----------------------------------------------------------------------------
(* Where a step takes the worker.                                          *)

(* The step takes worker w to one of these places.                         *)
GoesTo(w, places) == \E p \in places : pc' = [pc EXCEPT ![w] = p]

(* Where a worker has nothing in hand that InHand is about.                *)
Free == Where \ (AtWork \cup Looked \cup {"asking"})

(* The loop over the attempts goes on within the budget or ends.           *)
LEMMA NextAttemptGoes ==
    ASSUME TypeOK, NEW w \in Worker, NextAttempt(w)
    PROVE  /\ GoesTo(w, {"dispatching", "exhausted"})
           /\ attempt' \in [Worker -> Attempt]
<1>1. \/ /\ attempt[w] < MaxAttempt /\ attempt' = [attempt EXCEPT ![w] = @ + 1]
         /\ pc' = [pc EXCEPT ![w] = "dispatching"]
      \/ attempt' = attempt /\ pc' = [pc EXCEPT ![w] = "exhausted"]
  BY DEF NextAttempt, Goto
<1>2. \A n \in Attempt : n < MaxAttempt => n + 1 \in Attempt
  BY AutonomyAssumption DEF Attempt
<1>3. attempt' \in [Worker -> Attempt]
  BY <1>1, <1>2 DEF TypeOK
<1> QED BY <1>1, <1>3 DEF GoesTo

(* Only a worker that records a completion completes anything.             *)
LEMMA Shrinks ==
    ASSUME TypeOK, NEW w \in Worker, RowStep(w), pc[w] # "recording"
    PROVE  Completed(state') \subseteq Completed(state)
BY WorkerFacts, AchievedRow, AskingRow DEF RowStep, Moves, Completed

(* A step keeps what InHand says of the worker that makes it: one case per *)
(* action.                                                                 *)
LEMMA WorkerInHand ==
    ASSUME TypeOK, NEW w \in Worker, InHand(w), Step(w) \/ Conflict(w)
    PROVE  InHand(w)'
<1>0. RowStep(w) /\ pc \in [Worker -> Where]
  BY WorkerRow DEF TypeOK
<1>1. ASSUME GoesTo(w, Free)
      PROVE  InHand(w)'
  <2>1. pc'[w] \in Free
    BY <1>0, <1>1 DEF GoesTo
  <2> QED BY <2>1 DEF Free, InHand, AtWork, Looked, Where
<1>2. ASSUME GoesTo(w, {"dispatching", "running", "judging", "exhausted", "proving"}),
             pc[w] \in AtWork, UNCHANGED crit,
             UNCHANGED state \/ pc[w] # "recording"
      PROVE  InHand(w)'
  <2>1. pc'[w] \in {"dispatching", "running", "judging", "exhausted", "proving"}
    BY <1>0, <1>2 DEF GoesTo
  <2>2. Completed(state') \subseteq Completed(state)
    BY <1>0, <1>2, Shrinks
  <2> QED BY <1>2, <2>1, <2>2 DEF InHand, AtWork, Looked
<1>3. CASE \/ Look(w) \/ Claim(w) \/ Release(w) \/ TurnBack(w) \/ PlanAsks(w) \/ PlanFails(w)
           \/ NothingLeft(w)
  BY <1>1, <1>3 DEF Look, Claim, Release, TurnBack, PlanAsks, PlanFails, NothingLeft, Block,
     Goto, GoesTo, Free, Where, AtWork, Looked
<1>4. CASE ChooseNone(w) \/ RejectManifest(w) \/ AskFounder(w) \/ StopPaused(w) \/ Exhaust(w)
  BY <1>1, <1>4 DEF ChooseNone, RejectManifest, AskFounder, StopPaused, Exhaust, Block,
     Goto, GoesTo, Free, Where, AtWork, Looked
<1>5. CASE Ask(w) \/ Withdraw(w) \/ AwaitBoundary(w) \/ Close(w)
  BY <1>1, <1>5 DEF Ask, Withdraw, AwaitBoundary, Close,
     Goto, GoesTo, Free, Where, AtWork, Looked
<1>6. ASSUME NEW criteria, NEW reworded, Adopt(w, criteria, reworded)
      PROVE  InHand(w)'
  BY <1>1, <1>6 DEF Adopt, Goto, GoesTo, Free, Where, AtWork, Looked
<1>7. ASSUME NEW passed, Finish(w, passed)
      PROVE  InHand(w)'
  <2>1. \E p \in {"releasing", "waiting", "closing"} : pc' = [pc EXCEPT ![w] = p]
    BY <1>7 DEF Finish, Goto
  <2> QED BY <1>1, <2>1 DEF GoesTo, Free, Where, AtWork, Looked
<1>8. CASE Dispatch(w) \/ Unrun(w) \/ \E report, work : Run(w, report, work)
  BY <1>2, <1>8 DEF Dispatch, Unrun, Run, At, Goto, GoesTo, AtWork
<1>9. CASE TakeChoice(w) \/ Repair(w) \/ FailProof(w)
  <2>1. NextAttempt(w) /\ pc[w] \in {"judging", "proving"} /\ UNCHANGED crit
    BY <1>9 DEF TakeChoice, Repair, FailProof, Judged, At
  <2> QED BY <1>2, <2>1, NextAttemptGoes DEF GoesTo, AtWork
<1>10. CASE Commit(w)
  BY <1>2, <1>10 DEF Commit, Judged, At, Goto, GoesTo, AtWork
<1>11. CASE RecordComplete(w)
  <2>1. \/ GoesTo(w, Free)
        \/ NextAttempt(w) /\ UNCHANGED state
    BY <1>11 DEF RecordComplete, Goto, GoesTo, Free, Where, AtWork, Looked
  <2>2. pc[w] \in AtWork /\ UNCHANGED crit
    BY <1>11 DEF RecordComplete, At, AtWork
  <2> QED BY <1>1, <1>2, <2>1, <2>2, NextAttemptGoes DEF GoesTo
<1>12. CASE Conflict(w)
  <2>1. UNCHANGED crit /\ UNCHANGED state
    BY <1>12 DEF Conflict
  <2>2. \/ GoesTo(w, Free)
        \/ NextAttempt(w) /\ pc[w] \in AtWork
    BY <1>12 DEF Conflict, Goto, GoesTo, Free, Where, AtWork, Looked
  <2> QED BY <1>1, <1>2, <2>1, <2>2, NextAttemptGoes DEF GoesTo
<1>13. CASE Enter(w) \/ Reread(w) \/ Reenter(w)
  <2>1. pc'[w] \in Looked \/ pc'[w] \in Free
    BY <1>0, <1>13 DEF Enter, Reread, Reenter, At, Goto, Looked
  <2>2. view'[w] = state'
    BY <1>13 DEF Enter, Reread, Reenter, TypeOK
  <2> QED BY <2>1, <2>2 DEF InHand, Free, Looked, AtWork
<1>14. CASE Prepare(w)
  <2>1. pc'[w] = "planning" \/ (pc'[w] = "choosing" /\ pc[w] = "preparing")
    BY <1>0, <1>14 DEF Prepare, At, Goto
  <2>2. UNCHANGED <<state, view>>
    BY <1>14 DEF Prepare
  <2> QED BY <2>1, <2>2 DEF InHand, Looked, AtWork
<1>15. CASE Choose(w)
  <2>1. PICK c \in NextReady(view[w]) :
          \/ pc' = [pc EXCEPT ![w] = "releasing"]
          \/ pc' = [pc EXCEPT ![w] = "dispatching"] /\ crit' = [crit EXCEPT ![w] = c]
    BY <1>15 DEF Choose, Goto
  <2>2. c \in Criterion /\ c \notin Completed(view[w])
    BY DEF NextReady, DependencyReady, Pending, Planned
  <2>3. c \notin Completed(state)
    BY <1>15, <2>2 DEF InHand, Choose, At, Looked
  <2>4. c \notin Completed(state')
    BY <1>0, <1>15, <2>3, Shrinks DEF Choose, At
  <2> QED BY <1>0, <2>1, <2>2, <2>4 DEF InHand, AtWork, Looked, TypeOK
<1>16. CASE Prove(w)
  <2>1. /\ pc[w] = "proving" /\ pc'[w] = "verifying" /\ UNCHANGED <<crit, state>>
        /\ proven' = proven \cup {crit[w]}
    BY <1>0, <1>16 DEF Prove, At, Goto
  <2> QED BY <2>1 DEF InHand, AtWork, Looked
<1>17. CASE Verify(w)
  <2>1. /\ pc[w] = "verifying" /\ pc'[w] = "recording" /\ UNCHANGED <<crit, proven>>
    BY <1>0, <1>17 DEF Verify, At, Goto
  <2>2. Completed(state') \subseteq Completed(state)
    BY <1>0, <2>1, Shrinks
  <2> QED BY <2>1, <2>2 DEF InHand, AtWork, Looked
<1>18. CASE File(w)
  <2>1. PICK after \in Filed(crit[w], items[crit[w]]) : items' = [items EXCEPT ![crit[w]] = after]
    BY <1>18 DEF File
  <2>2. after # "none"
    BY DEF Filed
  <2>3. crit' = crit /\ pc'[w] = "asking" /\ crit[w] \in Question
    BY <1>0, <1>18, WorkerFacts DEF File, Goto
  <2> QED BY <2>1, <2>2, <2>3 DEF InHand, AtWork, Looked, TypeOK
<1> QED BY <1>3, <1>4, <1>5, <1>6, <1>7, <1>8, <1>9, <1>10, <1>11, <1>12, <1>13, <1>14,
           <1>15, <1>16, <1>17, <1>18 DEF Step

----------------------------------------------------------------------------
(* What a step of a worker leaves alone.                                   *)

(* What a worker's step may change, variable by variable: its own place,   *)
(* view, criterion and attempt, and of what all share nothing is forgotten.*)
PcFrame(w) == pc' \in [Worker -> Where] /\ \A v \in Worker \ {w} : pc'[v] = pc[v]
ViewFrame(w) == view' \in [Worker -> State] /\ \A v \in Worker \ {w} : view'[v] = view[v]
CritFrame(w) == crit' \in [Worker -> Question] /\ \A v \in Worker \ {w} : crit'[v] = crit[v]
TriesFrame == attempt' \in [Worker -> Attempt] /\ moved' \in [Worker -> BOOLEAN]
ItemsFrame ==
    /\ items' \in [Question -> {"none", "open", "resolved", "approved", "done"}]
    /\ \A q \in Question : items[q] # "none" => items'[q] # "none"
ResultFrame == result' \in [Attempt -> Report \cup {"none"}]
TreeFrame == tree' \in {"clean", "existing", "attempt", "manifest"}
ProvenFrame == proven' \subseteq Criterion /\ proven \subseteq proven'
LeaseFrame(w) ==
    \/ UNCHANGED lease /\ (Inside(w)' <=> Inside(w))
    \/ lease = Nobody /\ lease' = w /\ ~Inside(w) /\ Inside(w)'
    \/ lease' = Nobody /\ Inside(w) /\ ~Inside(w)'

Frame(w) ==
    /\ PcFrame(w) /\ ViewFrame(w) /\ CritFrame(w) /\ TriesFrame /\ ItemsFrame /\ ResultFrame
    /\ TreeFrame /\ ProvenFrame /\ LeaseFrame(w)
    /\ up /\ UNCHANGED <<up, founderVars>> /\ faults' \in 0..MaxFault

(* A variable that a step leaves alone keeps what Frame says of it.        *)
LEMMA FrameFacts ==
    ASSUME TypeOK, NEW w \in Worker
    PROVE  /\ GoesTo(w, Where) => PcFrame(w)
           /\ UNCHANGED view => ViewFrame(w)
           /\ UNCHANGED crit => CritFrame(w)
           /\ UNCHANGED <<attempt, moved>> => TriesFrame
           /\ UNCHANGED items => ItemsFrame
           /\ UNCHANGED result => ResultFrame
           /\ tree' = "clean" \/ UNCHANGED tree => TreeFrame
           /\ UNCHANGED proven => ProvenFrame
           /\ Inside(w) /\ GoesTo(w, Where \ {"idle", "claiming"}) /\ UNCHANGED lease => LeaseFrame(w)
           /\ UNCHANGED faults => faults' \in 0..MaxFault
           /\ GoesTo(w, Where \ {"idle", "claiming"}) => GoesTo(w, Where)
<1> USE DEF TypeOK
<1>1. GoesTo(w, Where) => PcFrame(w)
  BY DEF GoesTo, PcFrame
<1>2. UNCHANGED view => ViewFrame(w)
  BY DEF ViewFrame
<1>3. UNCHANGED crit => CritFrame(w)
  BY DEF CritFrame, Question
<1>4. UNCHANGED <<attempt, moved>> => TriesFrame
  BY DEF TriesFrame
<1>5. (UNCHANGED items => ItemsFrame) /\ (UNCHANGED result => ResultFrame)
  BY DEF ItemsFrame, ResultFrame
<1>6. tree' = "clean" \/ UNCHANGED tree => TreeFrame
  BY DEF TreeFrame
<1>7. UNCHANGED proven => ProvenFrame
  BY DEF ProvenFrame
<1>8. Inside(w) /\ GoesTo(w, Where \ {"idle", "claiming"}) /\ UNCHANGED lease => LeaseFrame(w)
  BY DEF Inside, LeaseFrame, GoesTo
<1>9. UNCHANGED faults => faults' \in 0..MaxFault
  OBVIOUS
<1>10. GoesTo(w, Where \ {"idle", "claiming"}) => GoesTo(w, Where)
  BY DEF GoesTo
<1> HIDE DEF TypeOK
<1> QED BY <1>1, <1>2, <1>3, <1>4, <1>5, <1>6, <1>7, <1>8, <1>9, <1>10

(* A step inside the claim that keeps the lease and the shared store.      *)
Onward(w) == Inside(w) /\ GoesTo(w, Where \ {"idle", "claiming"}) /\ up

(* A step inside the claim that keeps the lease needs nothing else for its *)
(* frame.                                                                  *)
LEMMA OnwardFrame ==
    ASSUME TypeOK, NEW w \in Worker, Onward(w),
           UNCHANGED <<lease, up, founderVars>>,
           ViewFrame(w), CritFrame(w), TriesFrame, ItemsFrame, ResultFrame, TreeFrame,
           ProvenFrame, faults' \in 0..MaxFault
    PROVE  Frame(w)
BY FrameFacts DEF Frame, Onward

(* Every step of a worker is within its frame: one case per action.        *)
LEMMA WorkerFrame ==
    ASSUME TypeOK, NEW w \in Worker, InHand(w), Step(w) \/ Conflict(w)
    PROVE  Frame(w)
<1> USE FrameFacts, WorkerFacts
<1>1. CASE Look(w)
  <2>1. /\ up /\ pc[w] = "idle" /\ pc' = [pc EXCEPT ![w] = "claiming"]
        /\ UNCHANGED <<state, lease, items, result, tree, up, faults, view, crit,
                       attempt, moved, founderVars, proven>>
    BY <1>1 DEF Look, At, Goto
  <2>2. GoesTo(w, Where) /\ LeaseFrame(w)
    BY <2>1 DEF GoesTo, LeaseFrame, Inside, TypeOK, Where
  <2> QED BY <2>1, <2>2 DEF Frame
<1>2. CASE Claim(w)
  <2>1. /\ up /\ pc[w] = "claiming"
        /\ \/ lease = Nobody /\ lease' = w /\ pc' = [pc EXCEPT ![w] = "entering"]
           \/ lease' = lease /\ pc' = [pc EXCEPT ![w] = "idle"]
        /\ UNCHANGED <<state, items, result, tree, up, faults, view, crit,
                       attempt, moved, founderVars, proven>>
    BY <1>2 DEF Claim, Claimable, At, Goto
  <2>2. GoesTo(w, Where) /\ LeaseFrame(w)
    BY <2>1 DEF GoesTo, LeaseFrame, Inside, TypeOK, Where
  <2> QED BY <2>1, <2>2 DEF Frame
<1>3. CASE Release(w)
  <2>1. /\ up /\ pc[w] = "releasing" /\ lease' = Nobody /\ pc' = [pc EXCEPT ![w] = "idle"]
        /\ view' = [view EXCEPT ![w] = DefaultState]
        /\ crit' = [crit EXCEPT ![w] = NoCriterion]
        /\ attempt' = [attempt EXCEPT ![w] = 0] /\ moved' = [moved EXCEPT ![w] = FALSE]
        /\ result' = result \/ result' = NoResult
        /\ UNCHANGED <<state, items, tree, up, faults, founderVars, proven>>
    BY <1>3 DEF Release, At, Goto, Forget
  <2>2. GoesTo(w, Where) /\ LeaseFrame(w)
    BY <2>1 DEF GoesTo, LeaseFrame, Inside, TypeOK, Where
  <2>3. ViewFrame(w)
    BY <2>1, DefaultRow DEF ViewFrame, TypeOK
  <2>4. CritFrame(w)
    BY <2>1 DEF CritFrame, Question, TypeOK
  <2>5. TriesFrame
    BY <2>1, AutonomyAssumption DEF TriesFrame, Attempt, TypeOK
  <2>6. ResultFrame
    BY <2>1 DEF ResultFrame, NoResult, TypeOK
  <2> QED BY <2>1, <2>2, <2>3, <2>4, <2>5, <2>6 DEF Frame
<1>4. ASSUME Onward(w), UNCHANGED <<lease, items, result, up, faults, view, crit, attempt, moved,
                         founderVars, proven>>, tree' = "clean" \/ UNCHANGED tree
      PROVE  Frame(w)
  BY <1>4, OnwardFrame
<1>5. CASE TurnBack(w) \/ PlanAsks(w) \/ PlanFails(w) \/ NothingLeft(w) \/ Prepare(w)
  BY <1>4, <1>5 DEF TurnBack, PlanAsks, PlanFails, NothingLeft, Prepare, Block, At, Goto,
     Onward, GoesTo, Inside, Where
<1>6. CASE Dispatch(w) \/ Unrun(w) \/ RejectManifest(w) \/ AskFounder(w) \/ StopPaused(w)
  BY <1>4, <1>6 DEF Dispatch, Unrun, RejectManifest, AskFounder, StopPaused, Judged, Block, At,
     Goto, Onward, GoesTo, Inside, Where
<1>7. CASE Verify(w) \/ Exhaust(w) \/ Ask(w) \/ Withdraw(w) \/ AwaitBoundary(w) \/ Close(w)
  BY <1>4, <1>7 DEF Verify, Exhaust, Ask, Withdraw, AwaitBoundary, Close, At,
     Goto, Onward, GoesTo, Inside, Where
<1>8. ASSUME NEW criteria, NEW reworded, Adopt(w, criteria, reworded)
      PROVE  Frame(w)
  BY <1>4, <1>8 DEF Adopt, At, Goto, Onward, GoesTo, Inside, Where
<1>9. ASSUME NEW passed, Finish(w, passed)
      PROVE  Frame(w)
  <2>1. \E p \in {"releasing", "waiting", "closing"} : pc' = [pc EXCEPT ![w] = p]
    BY <1>9 DEF Finish, Goto
  <2> QED BY <1>4, <1>9, <2>1 DEF Finish, At, Onward, GoesTo, Inside, Where
<1>10. CASE Enter(w) \/ Reread(w) \/ Reenter(w)
  <2>1. /\ Onward(w) /\ view' = [view EXCEPT ![w] = state']
        /\ UNCHANGED <<lease, items, result, tree, up, faults, crit, attempt,
                       moved, founderVars, proven>>
    BY <1>10 DEF Enter, Reread, Reenter, At, Goto, Onward, GoesTo, Inside, Where, TypeOK
  <2>2. ViewFrame(w)
    BY <2>1, WorkerRow DEF ViewFrame, TypeOK
  <2> QED BY <2>1, <2>2, OnwardFrame
<1>11. CASE ChooseNone(w)
  <2>1. /\ Onward(w) /\ view' = [view EXCEPT ![w] = DefaultState]
        /\ UNCHANGED <<lease, items, result, tree, up, faults, crit, attempt,
                       moved, founderVars, proven>>
    BY <1>11 DEF ChooseNone, Block, Forget, At, Goto, Onward, GoesTo, Inside, Where
  <2>2. ViewFrame(w)
    BY <2>1, DefaultRow DEF ViewFrame, TypeOK
  <2> QED BY <2>1, <2>2, OnwardFrame
<1>12. CASE Choose(w)
  <2>1. PICK c \in NextReady(view[w]) :
          /\ crit' = crit \/ crit' = [crit EXCEPT ![w] = c]
          /\ result' = result \/ result' = NoResult
          /\ \/ pc' = [pc EXCEPT ![w] = "dispatching"]
             \/ pc' = [pc EXCEPT ![w] = "releasing"]
          /\ view' = [view EXCEPT ![w] = DefaultState]
    <3>1. PICK c \in NextReady(view[w]), can \in BOOLEAN :
            /\ crit' = [crit EXCEPT ![w] = IF can THEN c ELSE @]
            /\ result' = result \/ result' = NoResult
            /\ pc' = [pc EXCEPT ![w] = IF can THEN "dispatching" ELSE "releasing"]
            /\ view' = [view EXCEPT ![w] = DefaultState]
      <4> DEFINE Can(c) == IF AtBoundary(w) THEN CanBegin(state, c) ELSE CanBind(state)
      <4>1. PICK c \in NextReady(view[w]) :
              /\ crit' = [crit EXCEPT ![w] = IF Can(c) THEN c ELSE @]
              /\ result' = result \/ result' = NoResult
              /\ pc' = [pc EXCEPT ![w] = IF Can(c) THEN "dispatching" ELSE "releasing"]
              /\ view' = [view EXCEPT ![w] = DefaultState]
        BY <1>12 DEF Choose, Forget, Goto
      <4>2. CASE Can(c)
        BY <4>1, <4>2
      <4>3. CASE ~Can(c)
        BY <4>1, <4>3
      <4> QED BY <4>2, <4>3
    <3> QED BY <3>1 DEF TypeOK
  <2>2. /\ Inside(w) /\ up
        /\ UNCHANGED <<lease, items, tree, up, faults, attempt, moved, founderVars, proven>>
    BY <1>12 DEF Choose, At, Inside
  <2>3. Onward(w)
    BY <2>1, <2>2 DEF Onward, GoesTo, Where
  <2>4. ViewFrame(w)
    BY <2>1, DefaultRow DEF ViewFrame, TypeOK
  <2>5. c \in Question
    BY CriterionFacts DEF NextReady, DependencyReady, Pending, Planned
  <2>6. CritFrame(w)
    BY <2>1, <2>5 DEF CritFrame, Question, TypeOK
  <2>7. ResultFrame
    BY <2>1 DEF ResultFrame, NoResult, TypeOK
  <2> QED BY <2>2, <2>3, <2>4, <2>6, <2>7, OnwardFrame
<1>13. ASSUME NEW report \in Report, NEW work \in {tree, "attempt", "manifest"},
              Run(w, report, work)
       PROVE  Frame(w)
  <2>1. /\ Onward(w) /\ tree' = work /\ result' = [result EXCEPT ![attempt[w]] = report]
        /\ UNCHANGED <<lease, items, up, faults, view, crit, attempt, moved, founderVars, proven>>
    BY <1>13 DEF Run, At, Goto, Onward, GoesTo, Inside, Where
  <2>2. TreeFrame
    BY <2>1 DEF TreeFrame, TypeOK
  <2>3. ResultFrame
    BY <2>1 DEF ResultFrame, TypeOK
  <2> QED BY <2>1, <2>2, <2>3, OnwardFrame
<1>14. ASSUME NextAttempt(w), Inside(w), up, faults' \in 0..MaxFault, TreeFrame,
              UNCHANGED <<lease, items, result, up, view, crit, moved, founderVars, proven>>
       PROVE  Frame(w)
  <2>1. Onward(w)
    BY <1>14, NextAttemptGoes DEF Onward, GoesTo, Where
  <2>2. TriesFrame
    BY <1>14, NextAttemptGoes DEF TriesFrame, TypeOK
  <2> QED BY <1>14, <2>1, <2>2, OnwardFrame
<1>15. CASE TakeChoice(w) \/ Repair(w) \/ FailProof(w)
  <2>1. /\ NextAttempt(w) /\ Inside(w) /\ up
        /\ tree' \in {"clean", "attempt", tree}
        /\ UNCHANGED <<lease, items, result, up, faults, view, crit, moved, founderVars, proven>>
    BY <1>15 DEF TakeChoice, Repair, FailProof, Judged, At, Inside
  <2>2. TreeFrame
    BY <2>1 DEF TreeFrame, TypeOK
  <2> QED BY <1>14, <2>1, <2>2
<1>16. CASE Commit(w)
  <2>1. /\ Onward(w) /\ tree' = "clean" /\ moved' = [moved EXCEPT ![w] = TRUE]
        /\ UNCHANGED <<lease, items, result, up, faults, view, crit, attempt, founderVars, proven>>
    BY <1>16 DEF Commit, Judged, At, Goto, Onward, GoesTo, Inside, Where
  <2>2. TriesFrame
    BY <2>1 DEF TriesFrame, TypeOK
  <2> QED BY <2>1, <2>2, OnwardFrame
<1>17. CASE Prove(w)
  <2>1. /\ Onward(w) /\ pc[w] = "proving" /\ proven' = proven \cup {crit[w]}
        /\ UNCHANGED <<lease, items, result, tree, up, faults, view, crit, attempt, moved,
                       founderVars>>
    BY <1>17 DEF Prove, At, Goto, Onward, GoesTo, Inside, Where
  <2>2. ProvenFrame
    BY <2>1 DEF ProvenFrame, InHand, AtWork, TypeOK
  <2> QED BY <2>1, <2>2, OnwardFrame
<1>18. CASE RecordComplete(w)
  <2>1. /\ Inside(w) /\ up
        /\ UNCHANGED <<lease, items, result, tree, up, faults, view, crit, moved, founderVars,
                       proven>>
        /\ \/ Onward(w) /\ UNCHANGED attempt
           \/ NextAttempt(w)
    BY <1>18 DEF RecordComplete, At, Goto, Onward, GoesTo, Inside, Where
  <2> QED BY <1>4, <1>14, <2>1
<1>19. CASE File(w)
  <2>1. PICK after \in Filed(crit[w], items[crit[w]]) : items' = [items EXCEPT ![crit[w]] = after]
    BY <1>19 DEF File
  <2>2. after \in {"open", items[crit[w]]} /\ after # "none"
    BY DEF Filed
  <2>3. ItemsFrame
    BY <2>1, <2>2 DEF ItemsFrame, TypeOK
  <2>4. /\ Onward(w)
        /\ UNCHANGED <<lease, result, tree, up, faults, view, crit, attempt, moved, founderVars,
                       proven>>
    BY <1>19 DEF File, At, Goto, Onward, GoesTo, Inside, Where
  <2> QED BY <2>3, <2>4, OnwardFrame
<1>20. CASE Conflict(w)
  <2>1. /\ up /\ Inside(w) /\ faults < MaxFault /\ faults' = faults + 1
        /\ UNCHANGED <<state, lease, items, result, tree, up, view, crit, moved,
                       founderVars, proven>>
        /\ \/ pc' = [pc EXCEPT ![w] = "releasing"] /\ UNCHANGED attempt
           \/ NextAttempt(w)
    BY <1>20 DEF Conflict, Inside, Goto
  <2>2. faults' \in 0..MaxFault
    BY <2>1, AutonomyAssumption DEF TypeOK
  <2>3. CASE NextAttempt(w)
    BY <1>14, <2>1, <2>2, <2>3
  <2>4. CASE pc' = [pc EXCEPT ![w] = "releasing"] /\ UNCHANGED attempt
    <3>1. Onward(w)
      BY <2>1, <2>4 DEF Onward, GoesTo, Where
    <3> QED BY <2>1, <2>2, <2>4, <3>1, OnwardFrame
  <2> QED BY <2>1, <2>3, <2>4
<1> QED BY <1>1, <1>2, <1>3, <1>5, <1>6, <1>7, <1>8, <1>9, <1>10, <1>11, <1>12, <1>13,
           <1>15, <1>16, <1>17, <1>18, <1>19, <1>20 DEF Step

----------------------------------------------------------------------------
(* The invariant.                                                          *)

(* The founder's requests touch no worker, and forget no item.             *)
FounderFrame ==
    /\ UNCHANGED <<lease, result, tree, up, workerVars, proven>>
    /\ ItemsFrame /\ faults' \in 0..MaxFault
    /\ fpc' \in {"idle", "planning", "filing", "asking", "approving", "concluding", "applying"}
    /\ freplans' \in BOOLEAN /\ fquestion' \in Question
    /\ fpc' = "asking" => fpc = "asking" \/ items'[NoCriterion] # "none"
(* The founder writes what completes nothing, or asks about a question     *)
(* that is filed.                                                          *)
FounderRow ==
    /\ state' \in State
    /\ Moves(state, state') \/ (fpc = "asking" /\ state' = Asking(state, NoCriterion))

(* Every request of the founder's is within that frame: one case per       *)
(* action.                                                                 *)
LEMMA FounderSteps ==
    ASSUME TypeOK, Founder
    PROVE  FounderFrame /\ FounderRow
<1> USE SmallMoves, CriterionFacts
<1>0. /\ state \in State /\ faults \in 0..MaxFault
      /\ \A q \in Question : items[q] \in {"none", "open", "resolved", "approved", "done"}
      /\ UNCHANGED items => ItemsFrame
      /\ FounderDone => /\ fpc' = "idle" /\ fquestion' \in Question /\ freplans' \in BOOLEAN
  <2>1. FounderDone => freplans' \in BOOLEAN
    BY Zenon DEF FounderDone
  <2>2. FounderDone => fpc' = "idle" /\ fquestion' \in Question
    BY DEF FounderDone
  <2> QED BY <2>1, <2>2 DEF TypeOK, ItemsFrame
<1>1. ASSUME UNCHANGED <<lease, items, result, tree, up, faults, workerVars, proven>>,
             FounderDone, FounderRow
      PROVE  FounderFrame /\ FounderRow
  BY <1>0, <1>1 DEF FounderFrame
<1>2. CASE Pause \/ Resume \/ Reopen
  <2>1. /\ state' \in {[state EXCEPT !.paused = TRUE], Resumed(state), Reopened(state)}
        /\ UNCHANGED <<lease, items, result, tree, up, faults, workerVars, fpc, freplans,
                       fquestion, proven>>
    BY <1>2 DEF Pause, Resume, Reopen, Request, founderVars
  <2>2. FounderRow
    BY <1>0, <2>1, ResumeMoves DEF FounderRow
  <2> QED BY <1>0, <2>1, <2>2 DEF FounderFrame, TypeOK
<1>3. CASE Replan
  <2>1. /\ state' = state \/ state' = NewScope(state)
        /\ freplans' = state.achieved /\ fpc' = "planning"
        /\ UNCHANGED <<lease, items, result, tree, up, faults, workerVars, fquestion, proven>>
    BY <1>3 DEF Replan, Call
  <2>2. state.achieved \in BOOLEAN
    BY <1>0 DEF State
  <2>3. FounderRow
    BY <1>0, <2>1, NewScopeMoves DEF FounderRow
  <2> QED BY <1>0, <2>1, <2>2, <2>3 DEF FounderFrame, TypeOK
<1>4. CASE ReplanFails
  BY <1>0, <1>1, <1>4 DEF ReplanFails, FounderRow
<1>5. ASSUME NEW criteria \in Plans, NEW reworded \in BOOLEAN, ReplanAdopts(criteria, reworded)
      PROVE  FounderFrame /\ FounderRow
  <2>1. criteria \in SUBSET Criterion
    BY AutonomyAssumption
  <2>2. \/ state' = state
        \/ state' = Plan(state, criteria, "continuation", reworded)
        \/ state' = Plan(state, criteria, "mvp", reworded)
    BY <1>5, ZenonT(30) DEF ReplanAdopts, Call
  <2>3. FounderRow
    <3>1. \A scope \in {"mvp", "continuation"} :
            /\ Plan(state, criteria, scope, reworded) \in State
            /\ Moves(state, Plan(state, criteria, scope, reworded))
      BY <1>0, <2>1, PlanMoves, Zenon
    <3>2. state' \in State /\ Moves(state, state')
      BY <1>0, <2>2, <3>1, Zenon
    <3> QED BY <3>2 DEF FounderRow
  <2>4. /\ UNCHANGED <<lease, items, result, tree, up, faults, workerVars, proven>>
        /\ FounderDone
    BY <1>5, Zenon DEF ReplanAdopts
  <2> QED BY <1>1, <2>3, <2>4
<1>6. CASE ReplanAsks
  <2>1. FounderRow
    BY <1>0, <1>6, NewScopeMoves DEF ReplanAsks, FounderRow
  <2> QED BY <1>0, <1>6, <2>1 DEF ReplanAsks, FounderFrame, TypeOK
<1>7. CASE FileReplan
  <2>1. PICK after \in Filed(NoCriterion, items[NoCriterion]) :
          items' = [items EXCEPT ![NoCriterion] = after]
    BY <1>7 DEF FileReplan
  <2>2. after \in {"open", "resolved", "approved", "done"}
    BY <1>0 DEF Filed
  <2>3. ItemsFrame /\ items'[NoCriterion] # "none"
    BY <2>1, <2>2 DEF ItemsFrame, TypeOK
  <2> QED BY <1>0, <1>7, <2>3 DEF FileReplan, FounderFrame, FounderRow, TypeOK
<1>8. CASE AskReplan
  <2>1. FounderRow
    BY <1>0, <1>8, AskingRow DEF AskReplan, FounderAt, Call, FounderRow
  <2> QED BY <1>1, <1>8, <2>1 DEF AskReplan
<1>9. ASSUME NEW q \in Question, Answer(q)
      PROVE  FounderFrame /\ FounderRow
  <2>1. ItemsFrame
    BY <1>9 DEF Answer, ItemsFrame, TypeOK
  <2> QED BY <1>0, <1>9, <2>1 DEF Answer, FounderFrame, FounderRow, TypeOK
<1>10. CASE Apply
  <2>1. FounderRow
    BY <1>0, <1>10 DEF Apply, Call, FounderRow
  <2> QED BY <1>1, <1>10, <2>1 DEF Apply
<1>11. ASSUME NEW q \in Question, AnswerAgain(q)
       PROVE  FounderFrame /\ FounderRow
  BY <1>0, <1>11 DEF AnswerAgain, FounderFrame, FounderRow, TypeOK
<1>12. CASE Approve \/ Conclude
  <2>1. /\ UNCHANGED <<state, lease, result, tree, up, faults, workerVars, freplans, fquestion,
                       proven>>
        /\ fpc' \in {"concluding", "applying"}
        /\ \E before \in {"resolved", "approved"}, after \in {"approved", "done"} :
             items' = [items EXCEPT ![fquestion] = IF @ = before THEN after ELSE @]
    BY <1>12 DEF Approve, Conclude, Advance
  <2>2. ItemsFrame
    BY <1>0, <2>1 DEF ItemsFrame, TypeOK
  <2> QED BY <1>0, <2>1, <2>2 DEF FounderFrame, FounderRow, TypeOK
<1>13. CASE AnswerFails
  <2>1. faults' \in 0..MaxFault
    BY <1>0, <1>13, AutonomyAssumption DEF AnswerFails
  <2>2. UNCHANGED <<state, lease, items, result, tree, up, workerVars, proven>> /\ FounderDone
    BY <1>13 DEF AnswerFails
  <2> QED BY <1>0, <2>1, <2>2 DEF FounderFrame, FounderRow
<1> QED BY <1>2, <1>3, <1>4, <1>5, <1>6, <1>7, <1>8, <1>9, <1>10, <1>11, <1>12, <1>13
        DEF Founder, Replanning, Answering

(* A step within the frame keeps the types.                                *)
LEMMA WorkerTypes ==
    ASSUME TypeOK, NEW w \in Worker, Frame(w), state' \in State
    PROVE  TypeOK'
<1>1. lease' \in Worker \cup {Nobody, Orphan}
  BY DEF Frame, LeaseFrame, TypeOK
<1>2. UNCHANGED <<up, fpc, freplans, fquestion>>
  BY DEF Frame, founderVars
<1> QED BY <1>1, <1>2 DEF TypeOK, Frame, PcFrame, ViewFrame, CritFrame, TriesFrame, ItemsFrame,
        ResultFrame, TreeFrame, ProvenFrame, Question

(* A step of a worker keeps the invariant: its own part by WorkerInHand,   *)
(* that of the others because no second worker is inside the claim.        *)
LEMMA WorkerKeeps ==
    ASSUME TypeOK, AutonomyInv, NEW w \in Worker, Step(w) \/ Conflict(w)
    PROVE  TypeOK' /\ AutonomyInv'
<1>1. InHand(w) /\ LeaseKept /\ RowKept
  BY DEF AutonomyInv
<1>2. state' \in State /\ RowStep(w) /\ Frame(w) /\ InHand(w)'
  BY <1>1, WorkerRow, WorkerFrame, WorkerInHand
<1>3. TypeOK'
  BY <1>2, WorkerTypes
<1>4. LeaseKept'
  <2>1. \A v \in Worker \ {w} : Inside(v)' <=> Inside(v)
    BY <1>2 DEF Frame, PcFrame, Inside
  <2> QED BY <1>1, <1>2, <2>1, WorkerFacts DEF LeaseKept, Frame, LeaseFrame
<1>5. ASSUME NEW v \in Worker \ {w}
      PROVE  InHand(v)'
  <2>1. /\ pc'[v] = pc[v] /\ view'[v] = view[v] /\ crit'[v] = crit[v]
        /\ proven \subseteq proven' /\ (items[crit[v]] # "none" => items'[crit[v]] # "none")
    BY <1>2, WorkerFacts DEF Frame, PcFrame, ViewFrame, CritFrame, ProvenFrame, ItemsFrame
  <2>2. CASE Inside(v)
    <3>1. ~Inside(w) /\ pc[w] # "recording"
      BY <1>1, <2>2 DEF LeaseKept, Inside
    <3>2. Completed(state') \subseteq Completed(state)
      BY <1>2, <3>1, Shrinks
    <3> QED BY <2>1, <3>2 DEF AutonomyInv, InHand
  <2>3. CASE ~Inside(v)
    BY <2>1, <2>3 DEF InHand, Inside, AtWork, Looked
  <2> QED BY <2>2, <2>3
<1>6. Completed(state') \subseteq proven'
  <2>1. CASE Completed(state') \subseteq Completed(state)
    BY <1>1, <1>2, <2>1 DEF RowKept, Frame, ProvenFrame
  <2>2. CASE pc[w] = "recording" /\ state' = CriterionComplete(state, crit[w])
    <3>1. crit[w] \in Criterion /\ crit[w] \in proven
      BY <1>1, <2>2 DEF InHand, AtWork
    <3>2. Completed(state') \subseteq Completed(state) \cup {crit[w]}
      BY <2>2, <3>1, WorkerFacts, CompleteRow DEF Completed
    <3> QED BY <1>1, <1>2, <3>1, <3>2 DEF RowKept, Frame, ProvenFrame
  <2>3. CASE pc[w] = "recording" /\ Moves(state, state')
    BY <2>1, <2>3 DEF Moves, Completed
  <2> QED BY <1>2, <2>1, <2>2, <2>3, Shrinks DEF RowStep
<1>7. WaitIsAnswerable'
  <2>1. \A q \in Question : items[q] # "none" => items'[q] # "none"
    BY <1>2 DEF Frame, ItemsFrame
  <2>2. CASE Moves(state, state')
    BY <1>1, <2>1, <2>2, WorkerFacts DEF Moves, RowKept, WaitIsAnswerable, State
  <2>3. CASE pc[w] = "recording" /\ state' = CriterionComplete(state, crit[w])
    <3>1. crit[w] \in Criterion
      BY <1>1, <2>3 DEF InHand, AtWork
    <3> QED BY <2>3, <3>1, WorkerFacts, CompleteRow DEF WaitIsAnswerable
  <2>4. CASE state' = MvpAchieved(state)
    BY <2>4, WorkerFacts, AchievedRow DEF WaitIsAnswerable
  <2>5. CASE pc[w] = "asking" /\ state' = Asking(state, crit[w])
    BY <1>1, <2>1, <2>5, WorkerFacts, AskingRow, CriterionFacts DEF InHand, WaitIsAnswerable
  <2> QED BY <1>2, <2>2, <2>3, <2>4, <2>5 DEF RowStep
<1>8. fpc' = "asking" => items'[NoCriterion] # "none"
  BY <1>1, <1>2, CriterionFacts DEF RowKept, Frame, ItemsFrame, founderVars
<1> QED BY <1>2, <1>3, <1>4, <1>5, <1>6, <1>7, <1>8 DEF AutonomyInv, RowKept

(* A request of the founder's keeps the invariant.                         *)
LEMMA FounderKeeps ==
    ASSUME TypeOK, AutonomyInv, Founder
    PROVE  TypeOK' /\ AutonomyInv'
<1>1. FounderFrame /\ FounderRow
  BY FounderSteps
<1>2. state \in State /\ state' \in State /\ LeaseKept /\ RowKept
  BY <1>1 DEF TypeOK, FounderRow, AutonomyInv
<1>3. /\ UNCHANGED <<lease, result, tree, up, pc, view, crit, attempt, moved, proven>>
      /\ \A q \in Question : items[q] # "none" => items'[q] # "none"
  BY <1>1 DEF FounderFrame, workerVars, ItemsFrame
<1>4. TypeOK'
  BY <1>1, <1>2, <1>3 DEF TypeOK, FounderFrame, ItemsFrame
<1>5. Completed(state') \subseteq Completed(state)
  BY <1>1, <1>2, AskingRow, CriterionFacts DEF FounderRow, Moves, Completed
<1>6. LeaseKept'
  BY <1>2, <1>3 DEF LeaseKept, Inside
<1>7. ASSUME NEW w \in Worker
      PROVE  InHand(w)'
  BY <1>3, <1>5, WorkerFacts DEF AutonomyInv, InHand
<1>8. WaitIsAnswerable'
  <2>1. CASE Moves(state, state')
    BY <1>2, <1>3, <2>1 DEF Moves, RowKept, WaitIsAnswerable, State
  <2>2. CASE fpc = "asking" /\ state' = Asking(state, NoCriterion)
    BY <1>2, <1>3, <2>2, AskingRow, CriterionFacts DEF RowKept, WaitIsAnswerable
  <2> QED BY <1>1, <2>1, <2>2 DEF FounderRow
<1>9. RowKept'
  BY <1>1, <1>2, <1>3, <1>5, <1>8, CriterionFacts DEF RowKept, FounderFrame
<1> QED BY <1>4, <1>6, <1>7, <1>9 DEF AutonomyInv

(* A crash takes the lease and leaves no worker inside, a restart frees    *)
(* it.                                                                     *)
LEMMA CrashKeeps ==
    ASSUME TypeOK, AutonomyInv, Crash \/ Restart
    PROVE  TypeOK' /\ AutonomyInv'
<1>1. CASE Crash
  <2>1. /\ ~up' /\ faults < MaxFault /\ faults' = faults + 1
        /\ lease' \in {Nobody, Orphan} /\ fpc' = "idle" /\ fquestion' = NoCriterion
        /\ tree' \in {tree, "attempt"}
        /\ UNCHANGED <<state, items, result, proven>>
    BY <1>1 DEF Crash, FounderDone
  <2>2. /\ pc' = [w \in Worker |-> "idle"] /\ view' = [w \in Worker |-> DefaultState]
        /\ crit' = [w \in Worker |-> NoCriterion] /\ attempt' = [w \in Worker |-> 0]
        /\ moved' = [w \in Worker |-> FALSE]
    BY <1>1 DEF Crash
  <2>3. up' \in BOOLEAN /\ freplans' \in BOOLEAN /\ moved' \in [Worker -> BOOLEAN]
    BY <1>1, Zenon DEF Crash, FounderDone
  <2>4. /\ pc' \in [Worker -> Where] /\ view' \in [Worker -> State]
        /\ crit' \in [Worker -> Criterion \cup {NoCriterion}]
        /\ attempt' \in [Worker -> Attempt]
    BY <2>2, DefaultRow, AutonomyAssumption DEF Where, Attempt
  <2>5. faults' \in 0..MaxFault
    BY <2>1, AutonomyAssumption DEF TypeOK
  <2>6. TypeOK'
    BY <2>1, <2>3, <2>4, <2>5, CriterionFacts DEF TypeOK
  <2>7. LeaseKept' /\ \A w \in Worker : InHand(w)'
    BY <2>1, <2>2, WorkerFacts DEF LeaseKept, Inside, InHand, AtWork, Looked
  <2>8. RowKept'
    BY <2>1 DEF AutonomyInv, RowKept, WaitIsAnswerable
  <2> QED BY <2>6, <2>7, <2>8 DEF AutonomyInv
<1>2. CASE Restart
  <2>1. /\ up' = TRUE /\ lease' = IF lease = Orphan THEN Nobody ELSE lease
        /\ UNCHANGED <<state, items, result, tree, faults, pc, view, crit, attempt, moved,
                       fpc, freplans, fquestion, proven>>
    BY <1>2 DEF Restart, Recovered, workerVars, founderVars
  <2>2. TypeOK'
    BY <2>1 DEF TypeOK
  <2>3. LeaseKept'
    BY <2>1, WorkerFacts DEF AutonomyInv, LeaseKept, Inside
  <2>4. (\A w \in Worker : InHand(w)') /\ RowKept'
    BY <2>1 DEF AutonomyInv, InHand, RowKept, WaitIsAnswerable
  <2> QED BY <2>2, <2>3, <2>4 DEF AutonomyInv
<1> QED BY <1>1, <1>2

(* A new project satisfies the types and the invariant.                    *)
LEMMA AutonomyInit ==
    ASSUME Init
    PROVE  TypeOK /\ AutonomyInv
<1> USE CriterionFacts
<1>1. up \in BOOLEAN /\ freplans \in BOOLEAN /\ moved \in [Worker -> BOOLEAN]
  BY Zenon DEF Init
<1>2. TypeOK
  BY <1>1, DefaultRow, AutonomyAssumption DEF Init, TypeOK, NoResult, Where, Attempt, Report,
     Question
<1>3. LeaseKept /\ \A w \in Worker : InHand(w)
  BY AutonomyAssumption DEF Init, LeaseKept, Inside, InHand, AtWork, Looked
<1>4. RowKept
  BY DEF Init, RowKept, Completed, DefaultState, NoPlan, WaitIsAnswerable
<1> QED BY <1>2, <1>3, <1>4 DEF AutonomyInv

(* Every step keeps them.                                                  *)
LEMMA AutonomyStep ==
    ASSUME TypeOK, AutonomyInv, [Next]_vars
    PROVE  TypeOK' /\ AutonomyInv'
<1>1. CASE UNCHANGED vars
  <2>1. UNCHANGED <<state, lease, items, result, tree, up, faults, pc, view, crit, attempt,
                    moved, fpc, freplans, fquestion, proven>>
    BY <1>1 DEF vars, workerVars, founderVars
  <2> QED BY <2>1 DEF TypeOK, AutonomyInv, LeaseKept, Inside, InHand, RowKept, WaitIsAnswerable
<1> QED BY <1>1, WorkerKeeps, FounderKeeps, CrashKeeps DEF Next

(* TypeOK and the invariant in every state the program can be in.          *)
THEOREM AutonomyInvariant == Spec => [](TypeOK /\ AutonomyInv)
BY AutonomyInit, AutonomyStep, PTL DEF Spec

(* A project that waits for a decision waits on an item that was filed,    *)
(* through every order of a filing, an answer, a replan and a crash.       *)
THEOREM WaitsAreAnswerable == Spec => []WaitIsAnswerable
<1>1. TypeOK /\ AutonomyInv => WaitIsAnswerable
  BY DEF AutonomyInv, RowKept
<1> QED BY <1>1, AutonomyInvariant, PTL

(* What any step at all may make of the row.                               *)
LEMMA RowSteps ==
    ASSUME TypeOK, AutonomyInv, [Next]_vars
    PROVE  \/ Moves(state, state')
           \/ \E q \in Question : state' = Asking(state, q)
           \/ \E w \in Worker : /\ At(w, "recording") /\ CanComplete(state, crit[w])
                                /\ state' = CriterionComplete(state, crit[w])
           \/ CanAchieve(state) /\ state' = MvpAchieved(state)
<1>1. ASSUME NEW w \in Worker, Step(w) \/ Conflict(w)
      PROVE  up /\ RowStep(w)
  BY <1>1, WorkerRow DEF AutonomyInv
<1>2. Founder => FounderRow
  BY FounderSteps
<1>3. Crash \/ Restart \/ UNCHANGED vars => state' = state
  BY DEF Crash, Restart, vars
<1> QED BY <1>1, <1>2, <1>3, WorkerFacts, CriterionFacts, SmallMoves
        DEF Next, RowStep, FounderRow, At, TypeOK

(* What is complete stays so as long as the plan has it, although replans, *)
(* repairs and blocks write over the plan meanwhile.                       *)
THEOREM CompletedStays == Spec => CompletedKept
<1>1. TypeOK /\ AutonomyInv /\ [Next]_vars =>
        [\A c \in Completed(state) : state'.status[c] \in {"complete", "absent"}]_vars
  <2> SUFFICES ASSUME TypeOK, AutonomyInv, [Next]_vars, NEW c \in Completed(state)
               PROVE  state'.status[c] \in {"complete", "absent"}
    OBVIOUS
  <2>1. c \in Criterion /\ state.status[c] = "complete" /\ state \in State
    BY DEF Completed, TypeOK
  <2>2. CASE Moves(state, state')
    BY <2>1, <2>2 DEF Moves
  <2>3. CASE \E q \in Question : state' = Asking(state, q)
    BY <2>1, <2>3, AskingRow
  <2>4. ASSUME NEW w \in Worker, At(w, "recording"), CanComplete(state, crit[w]),
               state' = CriterionComplete(state, crit[w])
        PROVE  state'.status[c] = "complete"
    <3>1. crit[w] \in Criterion
      BY <2>4 DEF CanComplete, Pending, Planned
    <3> QED BY <2>1, <2>4, <3>1, CompleteRow
  <2>5. CASE state' = MvpAchieved(state)
    BY <2>1, <2>5, AchievedRow
  <2> QED BY <2>2, <2>3, <2>4, <2>5, RowSteps
<1> QED BY <1>1, AutonomyInvariant, PTL DEF Spec, CompletedKept

(* The MVP milestone is recorded for a plan whose every criterion passed   *)
(* its checks on a commit, even when a replan lands between the worker's   *)
(* look at the plan and complete_mvp.                                      *)
THEOREM MilestonesAreEarned == Spec => MilestoneEarned
<1>1. TypeOK /\ AutonomyInv /\ [Next]_vars =>
        [~state.achieved /\ state'.achieved =>
           Planned(state) # {} /\ Planned(state) \subseteq proven]_vars
  <2> SUFFICES ASSUME TypeOK, AutonomyInv, [Next]_vars, ~state.achieved, state'.achieved
               PROVE  Planned(state) # {} /\ Planned(state) \subseteq proven
    OBVIOUS
  <2>1. state \in State
    BY DEF TypeOK
  <2>2. ~Moves(state, state') /\ \A q \in Question : state' # Asking(state, q)
    BY <2>1, AskingRow DEF Moves
  <2>3. ASSUME NEW w \in Worker, CanComplete(state, crit[w]),
               state' = CriterionComplete(state, crit[w])
        PROVE  FALSE
    <3>1. crit[w] \in Criterion
      BY <2>3 DEF CanComplete, Pending, Planned
    <3> QED BY <2>1, <2>3, <3>1, CompleteRow
  <2>4. CanAchieve(state)
    BY <2>2, <2>3, RowSteps
  <2> QED BY <2>4 DEF CanAchieve, Pending, AutonomyInv, RowKept
<1> QED BY <1>1, AutonomyInvariant, PTL DEF Spec, MilestoneEarned

----------------------------------------------------------------------------
(* What a step leaves of the increment under way.                          *)

(* What a step leaves of the increment: it is the same, or there is none.  *)
SameRow(s, t) == t.phase = s.phase /\ t.current = s.current /\ t.status = s.status
Leaves(t) ==
    /\ ~UnderWay(t)
    /\ t.phase = "awaiting_external_boundary" => Planned(t) = {}

(* Which methods end an increment, and which may leave it as it is.        *)
LEMMA LeavingRows ==
    ASSUME NEW s \in State
    PROVE  /\ Leaves(Awaiting(s)) /\ Leaves(AfterDecision(s)) /\ Leaves(Reopened(s))
           /\ Leaves(MvpAchieved(s))
           /\ \A c : /\ Leaves(Requeued(s, c)) /\ Leaves(CriterionComplete(s, c))
                     /\ Leaves(Blocked(s, c)) /\ Leaves(Asking(s, c))
           /\ SameRow(s, Resumed(s)) \/ Leaves(Resumed(s))
           /\ SameRow(s, NewScope(s)) \/ Leaves(NewScope(s))
<1> USE DEF Leaves, UnderWay, State
<1>1. Leaves(Awaiting(s)) /\ Leaves(Reopened(s)) /\ Leaves(MvpAchieved(s))
  BY DEF Awaiting, Reopened, MvpAchieved, Planned, NoPlan
<1>2. Leaves(AfterDecision(s))
  BY DEF AfterDecision
<1>3. ASSUME NEW c
      PROVE  /\ Leaves(Requeued(s, c)) /\ Leaves(CriterionComplete(s, c))
             /\ Leaves(Blocked(s, c)) /\ Leaves(Asking(s, c))
  BY DEF Requeued, CriterionComplete, Blocked, Asking
<1>4. SameRow(s, Resumed(s)) \/ Leaves(Resumed(s))
  <2>1. \/ Resumed(s) = [s EXCEPT !.paused = FALSE]
        \/ Resumed(s).phase \in {"planning", "ready_for_next_increment"}
    BY DEF Resumed
  <2> QED BY <2>1 DEF SameRow
<1>5. SameRow(s, NewScope(s)) \/ Leaves(NewScope(s))
  <2>1. NewScope(s) = s \/ NewScope(s).phase = "continuation_planning"
    BY DEF NewScope, DefaultState
  <2> QED BY <2>1 DEF SameRow
<1> QED BY <1>1, <1>2, <1>3, <1>4, <1>5

(* begin_increment, by a worker that saw the project at a boundary.        *)
Begins(w) ==
    /\ pc[w] = "choosing" /\ AtBoundary(w)
    /\ \E c \in NextReady(view[w]) :
         /\ CanBegin(state, c) /\ state' = Begun(state, c)
         /\ pc' = [pc EXCEPT ![w] = "dispatching"] /\ crit' = [crit EXCEPT ![w] = c]

(* What a step of worker w makes of the increment under way.               *)
OrderStep(w) ==
    \/ SameRow(state, state')
    \/ Leaves(state')
    \/ state.phase = "building" /\ state' = [state EXCEPT !.phase = "verifying"]
    \/ Begins(w)

(* A step of a worker does one of these: one case per action.              *)
LEMMA WorkerOrder ==
    ASSUME TypeOK, NEW w \in Worker, Step(w) \/ Conflict(w)
    PROVE  OrderStep(w)
<1> USE WorkerFacts, LeavingRows
<1>1. ASSUME UNCHANGED state
      PROVE  OrderStep(w)
  BY <1>1 DEF OrderStep, SameRow
<1>2. ASSUME NEW c, Block(w, c)
      PROVE  OrderStep(w)
  BY <1>1, <1>2 DEF Block, Call, OrderStep
<1>3. CASE Reenter(w)
  BY <1>3 DEF Reenter, OrderStep
<1>4. CASE TurnBack(w) \/ PlanFails(w) \/ ChooseNone(w) \/ RejectManifest(w)
  BY <1>1, <1>2, <1>4 DEF TurnBack, PlanFails, ChooseNone, RejectManifest
<1>5. CASE NothingLeft(w) \/ AwaitBoundary(w)
  BY <1>1, <1>5 DEF NothingLeft, AwaitBoundary, Call, OrderStep
<1>6. ASSUME NEW criteria \in Plans, NEW reworded \in BOOLEAN, Adopt(w, criteria, reworded)
      PROVE  OrderStep(w)
  <2>1. state' = state \/ state' = Plan(state, criteria, view[w].scope, reworded)
    BY <1>6, Zenon DEF Adopt, Call
  <2>2. state' = state \/ state' = [state EXCEPT !.phase = "planning", !.scope = view[w].scope,
                                                 !.status = Reconciled(state, criteria)]
    BY <2>1, Zenon DEF Plan
  <2>3. state' = state \/ state'.phase = "planning"
    BY <2>2 DEF State
  <2> QED BY <1>1, <2>3 DEF OrderStep, Leaves, UnderWay
<1>7. CASE Choose(w)
  <2>1. PICK c \in NextReady(view[w]) :
          LET can == IF AtBoundary(w) THEN CanBegin(state, c) ELSE CanBind(state)
          IN  /\ Call(can /\ AtBoundary(w), Begun(state, c))
              /\ crit' = [crit EXCEPT ![w] = IF can THEN c ELSE @]
              /\ Goto(w, IF can THEN "dispatching" ELSE "releasing")
    BY <1>7 DEF Choose
  <2>2. CASE AtBoundary(w) /\ CanBegin(state, c)
    BY <1>7, <2>1, <2>2 DEF Choose, At, Call, Goto, Begins, OrderStep
  <2>3. CASE ~(AtBoundary(w) /\ CanBegin(state, c))
    BY <1>1, <2>1, <2>3 DEF Call
  <2> QED BY <2>2, <2>3
<1>8. CASE Verify(w)
  BY <1>1, <1>8 DEF Verify, Call, OrderStep
<1>9. CASE RecordComplete(w) \/ Exhaust(w) \/ Ask(w) \/ Close(w)
  BY <1>1, <1>9 DEF RecordComplete, Exhaust, Ask, Close, Call, OrderStep
<1>10. CASE \/ Look(w) \/ Claim(w) \/ Release(w) \/ Enter(w) \/ Prepare(w) \/ PlanAsks(w)
            \/ Reread(w) \/ Dispatch(w) \/ Unrun(w) \/ TakeChoice(w) \/ AskFounder(w)
            \/ StopPaused(w) \/ Repair(w) \/ Commit(w) \/ Prove(w) \/ FailProof(w)
            \/ File(w) \/ Withdraw(w) \/ Conflict(w)
            \/ (\E report, work : Run(w, report, work)) \/ (\E passed : Finish(w, passed))
  BY <1>1, <1>10 DEF Look, Claim, Release, Enter, Prepare, PlanAsks, Reread, Dispatch, Unrun,
     TakeChoice, AskFounder, StopPaused, Repair, Commit, Prove, FailProof, File, Withdraw,
     Conflict, Run, Finish
<1> QED BY <1>3, <1>4, <1>5, <1>6, <1>7, <1>8, <1>9, <1>10 DEF Step

(* How a worker comes to look at the row, and to a criterion.              *)
Binds(w) ==
    /\ pc[w] = "choosing" /\ ~AtBoundary(w) /\ CanBind(state) /\ UNCHANGED state
    /\ \E c \in NextReady(view[w]) : crit' = [crit EXCEPT ![w] = c]
(* A worker that looks at the row or works on a criterion has come there   *)
(* by a step that keeps ViewInOrder.                                       *)
Arrives(w) ==
    /\ pc'[w] \in Looked =>
         view'[w] = state' \/ (pc[w] \in Looked /\ UNCHANGED <<state, view>>)
    /\ pc'[w] \in AtWork => (pc[w] \in AtWork /\ UNCHANGED crit) \/ Begins(w) \/ Binds(w)

(* Every step of a worker arrives so: one case per action.                 *)
LEMMA WorkerArrives ==
    ASSUME TypeOK, NEW w \in Worker, Step(w) \/ Conflict(w)
    PROVE  Arrives(w)
<1>0. pc \in [Worker -> Where]
  BY DEF TypeOK
<1>1. ASSUME GoesTo(w, Free \cup {"asking"})
      PROVE  Arrives(w)
  <2>1. pc'[w] \in Free \cup {"asking"}
    BY <1>0, <1>1 DEF GoesTo
  <2> QED BY <2>1 DEF Free, Arrives, AtWork, Looked, Where
<1>2. ASSUME GoesTo(w, AtWork), pc[w] \in AtWork, UNCHANGED crit
      PROVE  Arrives(w)
  BY <1>0, <1>2 DEF GoesTo, Arrives, AtWork, Looked
<1>3. CASE \/ Look(w) \/ Claim(w) \/ Release(w) \/ TurnBack(w) \/ PlanAsks(w) \/ PlanFails(w)
           \/ NothingLeft(w)
  BY <1>1, <1>3 DEF Look, Claim, Release, TurnBack, PlanAsks, PlanFails, NothingLeft, Block,
     Goto, GoesTo, Free, Where, AtWork, Looked
<1>4. CASE ChooseNone(w) \/ RejectManifest(w) \/ AskFounder(w) \/ StopPaused(w) \/ Exhaust(w)
  BY <1>1, <1>4 DEF ChooseNone, RejectManifest, AskFounder, StopPaused, Exhaust, Block,
     Goto, GoesTo, Free, Where, AtWork, Looked
<1>5. CASE File(w) \/ Ask(w) \/ Withdraw(w) \/ AwaitBoundary(w) \/ Close(w)
  BY <1>1, <1>5 DEF File, Ask, Withdraw, AwaitBoundary, Close,
     Goto, GoesTo, Free, Where, AtWork, Looked
<1>6. ASSUME NEW criteria, NEW reworded, Adopt(w, criteria, reworded)
      PROVE  Arrives(w)
  BY <1>1, <1>6 DEF Adopt, Goto, GoesTo, Free, Where, AtWork, Looked
<1>7. ASSUME NEW passed, Finish(w, passed)
      PROVE  Arrives(w)
  <2>1. \E p \in {"releasing", "waiting", "closing"} : pc' = [pc EXCEPT ![w] = p]
    BY <1>7 DEF Finish, Goto
  <2> QED BY <1>1, <2>1 DEF GoesTo, Free, Where, AtWork, Looked
<1>8. CASE Dispatch(w) \/ Unrun(w) \/ \E report, work : Run(w, report, work)
  BY <1>2, <1>8 DEF Dispatch, Unrun, Run, At, Goto, GoesTo, AtWork
<1>9. CASE TakeChoice(w) \/ Repair(w) \/ FailProof(w)
  <2>1. NextAttempt(w) /\ pc[w] \in {"judging", "proving"} /\ UNCHANGED crit
    BY <1>9 DEF TakeChoice, Repair, FailProof, Judged, At
  <2> QED BY <1>2, <2>1, NextAttemptGoes DEF GoesTo, AtWork
<1>10. CASE Commit(w) \/ Prove(w) \/ Verify(w)
  BY <1>2, <1>10 DEF Commit, Prove, Verify, Judged, At, Goto, GoesTo, AtWork
<1>11. CASE RecordComplete(w)
  <2>1. GoesTo(w, Free) \/ NextAttempt(w)
    BY <1>11 DEF RecordComplete, Goto, GoesTo, Free, Where, AtWork, Looked
  <2>2. pc[w] \in AtWork /\ UNCHANGED crit
    BY <1>11 DEF RecordComplete, At, AtWork
  <2> QED BY <1>1, <1>2, <2>1, <2>2, NextAttemptGoes DEF GoesTo, AtWork
<1>12. CASE Conflict(w)
  <2>1. UNCHANGED crit /\ UNCHANGED state
    BY <1>12 DEF Conflict
  <2>2. \/ GoesTo(w, Free)
        \/ NextAttempt(w) /\ pc[w] \in AtWork
    BY <1>12 DEF Conflict, Goto, GoesTo, Free, Where, AtWork, Looked
  <2> QED BY <1>1, <1>2, <2>1, <2>2, NextAttemptGoes DEF GoesTo, AtWork
<1>13. CASE Enter(w) \/ Reread(w) \/ Reenter(w)
  <2>1. pc'[w] \in Looked \/ pc'[w] \in Free
    BY <1>0, <1>13 DEF Enter, Reread, Reenter, At, Goto, Looked
  <2>2. view'[w] = state'
    BY <1>13 DEF Enter, Reread, Reenter, TypeOK
  <2> QED BY <2>1, <2>2 DEF Arrives, Free, Looked, AtWork
<1>14. CASE Prepare(w)
  <2>1. pc'[w] = "planning" \/ (pc'[w] = "choosing" /\ pc[w] = "preparing")
    BY <1>0, <1>14 DEF Prepare, At, Goto
  <2>2. UNCHANGED <<state, view>>
    BY <1>14 DEF Prepare
  <2> QED BY <2>1, <2>2 DEF Arrives, Looked, AtWork
<1>15. CASE Choose(w)
  <2>1. PICK c \in NextReady(view[w]) :
          LET can == IF AtBoundary(w) THEN CanBegin(state, c) ELSE CanBind(state)
          IN  /\ Call(can /\ AtBoundary(w), Begun(state, c))
              /\ crit' = [crit EXCEPT ![w] = IF can THEN c ELSE @]
              /\ Goto(w, IF can THEN "dispatching" ELSE "releasing")
    BY <1>15 DEF Choose
  <2>2. CASE AtBoundary(w) /\ CanBegin(state, c)
    <3>1. Begins(w) /\ pc' = [pc EXCEPT ![w] = "dispatching"]
      BY <1>15, <2>1, <2>2 DEF Choose, At, Call, Goto, Begins
    <3> QED BY <1>0, <3>1 DEF Arrives, Looked
  <2>3. CASE ~AtBoundary(w) /\ CanBind(state)
    <3>1. Binds(w) /\ pc' = [pc EXCEPT ![w] = "dispatching"]
      BY <1>15, <2>1, <2>3 DEF Choose, At, Call, Goto, Binds
    <3> QED BY <1>0, <3>1 DEF Arrives, Looked
  <2>4. CASE IF AtBoundary(w) THEN ~CanBegin(state, c) ELSE ~CanBind(state)
    BY <1>1, <2>1, <2>4 DEF Goto, GoesTo, Free, Where, AtWork, Looked
  <2> QED BY <2>2, <2>3, <2>4
<1> QED BY <1>3, <1>4, <1>5, <1>6, <1>7, <1>8, <1>9, <1>10, <1>11, <1>12, <1>13, <1>14,
           <1>15 DEF Step

----------------------------------------------------------------------------
(* The order of the criteria.                                              *)

(* An increment that is under way stays in order, and so do the workers    *)
(* that have read of it, when a step keeps what they read.                 *)
InOrderRow(s) ==
    /\ UnderWay(s) => s.current \in Pending(s) /\ DependsOn[s.current] \subseteq Completed(s)
    /\ s.phase = "awaiting_external_boundary" => Planned(s) = {}

(* A step that keeps or ends the increment keeps the order.                *)
LEMMA RowStaysInOrder ==
    ASSUME NEW s \in State, NEW t \in State, InOrderRow(s), SameRow(s, t) \/ Leaves(t)
    PROVE  InOrderRow(t)
BY DEF InOrderRow, SameRow, Leaves, UnderWay, Pending, Planned, Completed

(* A request other than a replan keeps or ends the increment, and          *)
(* completes and takes back nothing.                                       *)
LEMMA FounderOrder ==
    ASSUME TypeOK, OrderInv, "replan" \notin Requests, Founder
    PROVE  /\ fpc' \in NoReplan /\ UNCHANGED <<pc, view, crit>>
           /\ SameRow(state, state') \/ Leaves(state')
           /\ Completed(state) \subseteq Completed(state')
<1>0. state \in State /\ fpc \in NoReplan
  BY DEF TypeOK, OrderInv, RowInOrder
<1>1. Pause \/ Resume \/ Reopen \/ Answering \/ AnswerFails
  BY <1>0 DEF Founder, Replanning, Replan, ReplanFails, ReplanAdopts, ReplanAsks, FileReplan,
     AskReplan, FounderAt, NoReplan
<1>2. CASE Pause
  <2>1. state' = [state EXCEPT !.paused = TRUE] /\ fpc' = fpc /\ UNCHANGED <<pc, view, crit>>
    BY <1>2 DEF Pause, Request, workerVars, founderVars
  <2> QED BY <1>0, <2>1 DEF State, SameRow, Completed
<1>3. CASE Resume
  <2>1. state' = Resumed(state) /\ fpc' = fpc /\ UNCHANGED <<pc, view, crit>>
    BY <1>3 DEF Resume, Request, workerVars, founderVars
  <2>2. \A c \in Criterion : state.status[c] = "complete" => Resumed(state).status[c] = "complete"
    BY <1>0 DEF Resumed, State
  <2> QED BY <1>0, <2>1, <2>2, LeavingRows DEF Completed
<1>4. CASE Reopen
  <2>1. /\ state' = Reopened(state) /\ fpc' = fpc /\ UNCHANGED <<pc, view, crit>>
        /\ state.phase = "awaiting_external_boundary"
    BY <1>4 DEF Reopen, CanReopen, Request, workerVars, founderVars
  <2>2. Completed(state) = {}
    BY <2>1 DEF OrderInv, RowInOrder, Planned, Completed
  <2> QED BY <1>0, <2>1, <2>2, LeavingRows
<1>5. CASE \/ \E q \in Question : Answer(q) \/ AnswerAgain(q)
           \/ Approve \/ Conclude \/ AnswerFails
  <2>1. UNCHANGED <<state, pc, view, crit>> /\ fpc' \in NoReplan
    BY <1>5 DEF Answer, AnswerAgain, Approve, Conclude, Advance, AnswerFails, FounderDone,
       workerVars, NoReplan
  <2> QED BY <2>1 DEF SameRow
<1>6. CASE Apply
  <2>1. fpc' \in NoReplan /\ UNCHANGED <<pc, view, crit>>
    BY <1>6 DEF Apply, FounderDone, workerVars, NoReplan
  <2>2. state' = state \/ state' = AfterDecision(state)
    BY <1>6 DEF Apply, Call
  <2>3. AfterDecision(state).status = state.status
    BY <1>0 DEF AfterDecision, State
  <2> QED BY <1>0, <2>1, <2>2, <2>3, LeavingRows DEF SameRow, Completed
<1> QED BY <1>1, <1>2, <1>3, <1>4, <1>5, <1>6 DEF Answering

(* So it keeps the order.                                                  *)
LEMMA FounderKeepsOrder ==
    ASSUME TypeOK, state' \in State, OrderInv, "replan" \notin Requests, Founder
    PROVE  OrderInv'
<1>1. /\ fpc' \in NoReplan /\ UNCHANGED <<pc, view, crit>>
      /\ SameRow(state, state') \/ Leaves(state')
      /\ Completed(state) \subseteq Completed(state')
  BY FounderOrder
<1>2. InOrderRow(state) /\ state \in State
  BY DEF OrderInv, RowInOrder, InOrderRow, TypeOK
<1>3. RowInOrder'
  BY <1>1, <1>2, RowStaysInOrder DEF InOrderRow, RowInOrder
<1>4. ASSUME NEW w \in Worker
      PROVE  ViewInOrder(w)'
  BY <1>1 DEF OrderInv, ViewInOrder, SameRow, Leaves, UnderWay
<1> QED BY <1>3, <1>4 DEF OrderInv

(* An increment that begins is in order: the worker saw the dependencies   *)
(* complete, and nothing complete was taken back since.                    *)
LEMMA BeginsInOrder ==
    ASSUME TypeOK, NEW w \in Worker, ViewInOrder(w), Begins(w)
    PROVE  /\ InOrderRow(state') /\ state'.current = crit'[w] /\ pc'[w] = "dispatching"
<1>1. PICK c \in NextReady(view[w]) :
         /\ CanBegin(state, c) /\ state' = Begun(state, c)
         /\ pc' = [pc EXCEPT ![w] = "dispatching"] /\ crit' = [crit EXCEPT ![w] = c]
  BY DEF Begins
<1>2. ~UnderWay(view[w])
  BY DEF Begins, AtBoundary, UnderWay
<1>3. DependsOn[c] \subseteq Completed(view[w])
  BY <1>2 DEF NextReady, DependencyReady, UnderWay
<1>4. DependsOn[c] \subseteq Completed(state) /\ c \in Pending(state)
  BY <1>1, <1>3 DEF ViewInOrder, Begins, Looked, CanBegin
<1>5. /\ state'.phase = "building" /\ state'.current = c /\ state'.status = state.status
      /\ crit'[w] = c /\ pc'[w] = "dispatching"
  BY <1>1 DEF Begun, TypeOK, State
<1> QED BY <1>4, <1>5 DEF InOrderRow, Pending, Planned, Completed

(* A step of a worker keeps the order, its own view of it and the views of *)
(* the others.                                                             *)
LEMMA WorkerKeepsOrder ==
    ASSUME TypeOK, AutonomyInv, OrderInv, NEW w \in Worker, Step(w) \/ Conflict(w)
    PROVE  OrderInv'
<1>1. InHand(w) /\ LeaseKept /\ ViewInOrder(w) /\ InOrderRow(state)
      /\ fpc \in NoReplan
  BY DEF AutonomyInv, OrderInv, RowInOrder, InOrderRow
<1>2. state \in State /\ state' \in State /\ Frame(w) /\ OrderStep(w) /\ Arrives(w)
  BY <1>1, WorkerRow, WorkerFrame, WorkerOrder, WorkerArrives DEF TypeOK
<1>3. InOrderRow(state')
  <2>1. CASE state.phase = "building" /\ state' = [state EXCEPT !.phase = "verifying"]
    BY <1>1, <1>2, <2>1 DEF InOrderRow, UnderWay, State, Pending, Planned, Completed
  <2> QED BY <1>1, <1>2, <2>1, RowStaysInOrder, BeginsInOrder DEF OrderStep
<1>4. fpc' \in NoReplan
  BY <1>1, <1>2 DEF Frame, founderVars
<1>5. \/ Begins(w)
      \/ UnderWay(state') => UnderWay(state) /\ state'.current = state.current
  BY <1>2 DEF OrderStep, SameRow, Leaves, UnderWay, State
<1>6. ViewInOrder(w)'
  <2>1. CASE pc'[w] \in Looked
    BY <1>1, <1>2, <2>1 DEF Arrives, ViewInOrder, Looked, AtWork
  <2>2. CASE pc'[w] \in AtWork
    <3>1. CASE Begins(w)
      BY <1>1, <2>2, <3>1, BeginsInOrder DEF ViewInOrder, Looked
    <3>2. CASE Binds(w)
      <4>1. PICK c \in NextReady(view[w]) : crit' = [crit EXCEPT ![w] = c]
        BY <3>2 DEF Binds
      <4>2. /\ view[w].phase = state.phase /\ view[w].current = state.current
            /\ view[w].status = state.status /\ UnderWay(state) /\ state' = state
        BY <1>1, <3>2 DEF Binds, ViewInOrder, CanBind, UnderWay, Looked
      <4>3. state.current \in Pending(view[w])
        BY <1>1, <4>2 DEF InOrderRow, Pending, Planned, Completed
      <4>4. c = state.current
        BY <4>2, <4>3 DEF NextReady, UnderWay
      <4>5. crit'[w] = c
        BY <4>1 DEF TypeOK
      <4> QED BY <2>2, <4>2, <4>4, <4>5 DEF ViewInOrder, Looked, AtWork
    <3>3. CASE pc[w] \in AtWork /\ UNCHANGED crit /\ ~Begins(w)
      BY <1>1, <1>5, <2>2, <3>3 DEF ViewInOrder, Looked, AtWork
    <3> QED BY <1>2, <2>2, <3>1, <3>2, <3>3 DEF Arrives
  <2> QED BY <2>1, <2>2 DEF ViewInOrder
<1>7. ASSUME NEW v \in Worker \ {w}
      PROVE  ViewInOrder(v)'
  <2>1. pc'[v] = pc[v] /\ view'[v] = view[v] /\ crit'[v] = crit[v]
    BY <1>2 DEF Frame, PcFrame, ViewFrame, CritFrame
  <2>2. CASE Inside(v)
    <3>1. ~Inside(w)
      BY <1>1, <2>2 DEF LeaseKept
    <3>2. UNCHANGED state
      BY <3>1 DEF Step, Conflict, Inside, At, Look, Claim, Release, Enter, Reenter, Prepare,
         PlanAsks, PlanFails, NothingLeft, TurnBack, Adopt, Reread, Choose, ChooseNone, Dispatch,
         Unrun, Run, RejectManifest, TakeChoice, AskFounder, StopPaused, Judged, Repair, Commit,
         Prove, FailProof, Verify, RecordComplete, Exhaust, File, Ask, Withdraw, Finish,
         AwaitBoundary, Close
    <3> QED BY <2>1, <3>2 DEF OrderInv, ViewInOrder
  <2>3. CASE ~Inside(v)
    BY <2>1, <2>3 DEF ViewInOrder, Inside, Looked, AtWork
  <2> QED BY <2>2, <2>3
<1>8. RowInOrder'
  BY <1>3, <1>4 DEF InOrderRow, RowInOrder
<1> QED BY <1>6, <1>7, <1>8 DEF OrderInv

(* Every step keeps the order when no replan is requested.                 *)
LEMMA OrderStepKeeps ==
    ASSUME TypeOK, AutonomyInv, OrderInv, "replan" \notin Requests, [Next]_vars
    PROVE  OrderInv'
<1>1. CASE Founder
  BY <1>1, AutonomyStep, FounderKeepsOrder DEF TypeOK
<1>2. CASE Crash \/ Restart \/ UNCHANGED vars
  <2>1. state' = state /\ fpc' \in NoReplan
    BY <1>2 DEF Crash, Restart, vars, founderVars, FounderDone, OrderInv, RowInOrder, NoReplan
  <2>2. ASSUME NEW w \in Worker
        PROVE  \/ pc'[w] = pc[w] /\ view'[w] = view[w] /\ crit'[w] = crit[w]
               \/ pc'[w] = "idle"
    BY <1>2 DEF Crash, Restart, vars, workerVars
  <2> QED BY <2>1, <2>2 DEF OrderInv, RowInOrder, ViewInOrder, Looked, AtWork
<1> QED BY <1>1, <1>2, WorkerKeepsOrder DEF Next

(* A new project is in order.                                              *)
LEMMA OrderInit ==
    ASSUME Init
    PROVE  OrderInv
BY DEF Init, OrderInv, RowInOrder, NoReplan, ViewInOrder, UnderWay, DefaultState, Looked, AtWork

(* When the founder does not replan, a criterion is complete only in the   *)
(* increment begun for it, and only after everything it depends on, across *)
(* crashes, conflicts, pauses, blocks, answers and the replay of stored    *)
(* results.                                                                *)
THEOREM CompletionsInOrder ==
    ASSUME "replan" \notin Requests
    PROVE  Spec => InOrder
<1>1. TypeOK /\ AutonomyInv /\ OrderInv /\ [Next]_vars => OrderInv'
  BY OrderStepKeeps
<1>2. TypeOK /\ AutonomyInv /\ OrderInv /\ [Next]_vars =>
        [\A c \in Criterion :
           state'.status[c] = "complete" /\ state.status[c] # "complete" =>
             state.current = c /\ DependsOn[c] \subseteq Completed(state)]_vars
  <2> SUFFICES ASSUME TypeOK, AutonomyInv, OrderInv, [Next]_vars, NEW c \in Criterion,
                      state'.status[c] = "complete", state.status[c] # "complete"
               PROVE  state.current = c /\ DependsOn[c] \subseteq Completed(state)
    OBVIOUS
  <2>0. state \in State
    BY DEF TypeOK
  <2>1. ~Moves(state, state') /\ state' # MvpAchieved(state)
        /\ \A q \in Question : state' # Asking(state, q)
    BY <2>0, AskingRow, AchievedRow DEF Moves
  <2>2. PICK w \in Worker : /\ At(w, "recording") /\ CanComplete(state, crit[w])
                            /\ state' = CriterionComplete(state, crit[w])
    BY <2>1, RowSteps
  <2>3. crit[w] \in Criterion /\ UnderWay(state)
    BY <2>2 DEF CanComplete, Pending, Planned, UnderWay
  <2>4. c = crit[w]
    BY <2>0, <2>2, <2>3, CompleteRow
  <2>5. state.current = crit[w] /\ DependsOn[state.current] \subseteq Completed(state)
    BY <2>2, <2>3 DEF OrderInv, RowInOrder, ViewInOrder, At, AtWork
  <2> QED BY <2>4, <2>5
<1> QED BY <1>1, <1>2, OrderInit, AutonomyInvariant, PTL DEF Spec, InOrder
=============================================================================
