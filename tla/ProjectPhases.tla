--------------------------- MODULE ProjectPhases ----------------------------
(***************************************************************************)
(* The state row of one project and what the methods of                    *)
(* ProjectAutonomyReporter make of it: each operator takes the state a     *)
(* method reads and gives the state it writes, next to the condition under *)
(* which it writes rather than raises.                                     *)
(*                                                                         *)
(* A criterion is a number, in the order of the plan. All are required.    *)
(* The evidence, titles, priorities, boundaries and revisions the row also *)
(* holds are left out. The phases approval_required and mvp_complete are   *)
(* left out as well: the native delegation engine, the only one the        *)
(* orchestrator runs with, reports no approval boundary, and mvp_complete  *)
(* is a phase of earlier releases.                                         *)
(***************************************************************************)
EXTENDS Naturals, FiniteSets

CONSTANTS
    Criterion,     \* ids of the criteria a plan may hold, in plan order
    DependsOn,     \* DependsOn[c]: the criteria c depends on
    NoQuestion

ASSUME PhasesAssumption ==
    /\ Criterion \subseteq Nat \ {0}
    /\ IsFiniteSet(Criterion)
    /\ DependsOn \in [Criterion -> SUBSET Criterion]
    /\ NoQuestion \notin Nat

NoCriterion == 0

(* A question is known by the criterion that raised it, one about the plan *)
(* by NoCriterion.                                                         *)
Question == Criterion \cup {NoCriterion}

AllowedTransitions ==
    [planning |-> {"building", "needs_decision", "blocked", "awaiting_external_boundary"},
     building |-> {"verifying", "ready_for_next_increment", "needs_decision", "blocked"},
     verifying |-> {"ready_for_next_increment", "needs_decision", "blocked"},
     ready_for_next_increment |->
         {"building", "continuation_planning", "needs_decision", "blocked",
          "awaiting_external_boundary"},
     needs_decision |->
         {"planning", "ready_for_next_increment", "building", "continuation_planning",
          "blocked"},
     blocked |-> {"planning", "building", "ready_for_next_increment"},
     continuation_planning |->
         {"planning", "needs_decision", "awaiting_external_boundary", "blocked"},
     awaiting_external_boundary |-> {"continuation_planning", "blocked"}]

Phase == DOMAIN AllowedTransitions
CriterionStatus == {"absent", "pending", "blocked", "complete"}

State == [phase : Phase,
          scope : {"mvp", "continuation"},
          achieved : BOOLEAN,
          status : [Criterion -> CriterionStatus],
          current : Criterion \cup {NoCriterion},
          paused : BOOLEAN,
          asked : Question \cup {NoQuestion}]

NoPlan == [c \in Criterion |-> "absent"]

DefaultState ==
    [phase |-> "planning", scope |-> "mvp", achieved |-> FALSE, status |-> NoPlan,
     current |-> NoCriterion, paused |-> FALSE, asked |-> NoQuestion]

MayGo(s, target) == target \in AllowedTransitions[s.phase]

Planned(s) == {c \in Criterion : s.status[c] # "absent"}
Completed(s) == {c \in Criterion : s.status[c] = "complete"}
Pending(s) == Planned(s) \ Completed(s)

(* _is_runnable *)
TerminalPhases == {"needs_decision", "blocked", "awaiting_external_boundary"}
IsRunnable(s) == ~s.paused /\ s.phase \notin TerminalPhases

(* _next_ready_criterion, as a set of at most one: the increment under way *)
(* goes on; otherwise the first whose dependencies are complete.           *)
AnyPending(s) == Pending(s)
DependencyReady(s) == {c \in Pending(s) : DependsOn[c] \subseteq Completed(s)}
NextReady(s) ==
    IF s.phase \in {"building", "verifying"} /\ s.current \in Pending(s)
    THEN {s.current}
    ELSE {c \in DependencyReady(s) : \A d \in DependencyReady(s) : c <= d}

----------------------------------------------------------------------------
(* plan: a criterion the row already has keeps its status. A plan that     *)
(* says nothing new changes nothing; one that only rewords the criteria    *)
(* starts over from planning like any other.                               *)
Renewed(s, criteria) == [c \in Criterion |-> IF c \in criteria THEN "pending" ELSE "absent"]
Reconciled(s, criteria) ==
    [c \in Criterion |-> IF c \notin criteria THEN "absent"
                         ELSE IF c \in Planned(s) THEN s.status[c] ELSE "pending"]

Plan(s, criteria, scope, reworded) ==
    IF /\ ~reworded
       /\ s.scope = scope
       /\ Planned(s) = criteria
       /\ s.phase # "continuation_planning"
    THEN s
    ELSE [s EXCEPT !.phase = "planning", !.scope = scope, !.status = Reconciled(s, criteria)]

(* begin_continuation *)
CanContinue(s) == s.phase = "continuation_planning"

(* begin_new_scope: the MVP milestone is kept; a project without one and   *)
(* without criteria starts from the default state, and one with criteria   *)
(* is left alone.                                                          *)
NewScope(s) ==
    IF ~s.achieved /\ Planned(s) # {}
    THEN s
    ELSE [(IF s.achieved THEN s ELSE DefaultState) EXCEPT
             !.phase = "continuation_planning", !.scope = "continuation",
             !.status = NoPlan, !.current = NoCriterion, !.asked = NoQuestion]

(* begin_increment *)
CanBegin(s, c) ==
    /\ s.phase # "needs_decision"
    /\ MayGo(s, "building")
    /\ c \in Pending(s)
Begun(s, c) == [s EXCEPT !.phase = "building", !.current = c]

(* bind_run *)
CanBind(s) == s.phase \in {"building", "verifying"}

(* complete_criterion *)
CanComplete(s, c) == c \in Pending(s) /\ s.phase = "verifying"
CriterionComplete(s, c) ==
    [s EXCEPT !.status[c] = "complete", !.phase = "ready_for_next_increment"]

(* requeue_mechanical_repair *)
CanRequeue(s, c) == c \in Pending(s) /\ MayGo(s, "ready_for_next_increment")
RequeuedInPlace(s, c) == [s EXCEPT !.status[c] = "pending"]
Requeued(s, c) == [s EXCEPT !.status[c] = "pending", !.phase = "ready_for_next_increment"]

(* report_needs_decision *)
Asking(s, q) == [s EXCEPT !.phase = "needs_decision", !.asked = q]

(* report_blocked, for the project or for a criterion of the plan.         *)
CanBlock(s, c) == MayGo(s, "blocked") /\ (c = NoCriterion \/ c \in Planned(s))
Blocked(s, c) ==
    [s EXCEPT !.phase = "blocked",
              !.status = [d \in Criterion |-> IF d = c THEN "blocked" ELSE @[d]]]

(* await_external_boundary leaves current_criterion_id as it is.           *)
Awaiting(s) ==
    [s EXCEPT !.phase = "awaiting_external_boundary", !.scope = "continuation",
              !.status = NoPlan]

(* complete_mvp *)
CanAchieveUnchecked(s) == Planned(s) # {}
CanAchieve(s) ==
    /\ Planned(s) # {}
    /\ Pending(s) = {}
    /\ MayGo(s, "continuation_planning")
MvpAchieved(s) ==
    [s EXCEPT !.phase = "continuation_planning", !.achieved = TRUE,
              !.scope = "continuation", !.status = NoPlan, !.current = NoCriterion]

(* resume_after_decision *)
Waiting(s, q) == s.phase = "needs_decision" /\ s.asked = q
AfterDecision(s) ==
    [s EXCEPT !.phase = IF s.current # NoCriterion THEN "ready_for_next_increment"
                        ELSE IF s.scope = "continuation" /\ Planned(s) = {}
                        THEN "continuation_planning" ELSE "planning",
              !.asked = NoQuestion]

(* reopen_continuation_for_source_change *)
CanReopen(s) == s.achieved /\ s.phase = "awaiting_external_boundary"
Reopened(s) == [s EXCEPT !.phase = "continuation_planning", !.status = NoPlan]

(* resume: a blocked project is requeued, a paused one goes on. It raises  *)
(* when the current criterion of a blocked project is not in its plan.     *)
CanResume(s) ==
    IF s.phase = "blocked"
    THEN Planned(s) # {} /\ s.current # NoCriterion => s.current \in Planned(s)
    ELSE s.paused
Resumed(s) ==
    IF s.phase # "blocked" THEN [s EXCEPT !.paused = FALSE]
    ELSE IF Planned(s) = {} THEN [s EXCEPT !.phase = "planning"]
    ELSE [s EXCEPT !.phase = "ready_for_next_increment",
                   !.status = [c \in Criterion |->
                                 IF c = s.current /\ @[c] = "blocked" THEN "pending" ELSE @[c]]]
=============================================================================
