------------------------- MODULE BuildSessionProofs -------------------------
(* Proofs about BuildSession, for any plan, any tasks and any number of     *)
(* concurrent callers.                                                      *)
EXTENDS BuildSession, FiniteSetTheorems, TLAPS

(* A call that works on a task holds a task, from its claim on an attempt,  *)
(* and when it finishes a verdict that a run can end with.                  *)
JobOK ==
    \A w \in Worker :
        /\ pc[w] \in {"claiming", "executing", "judging", "finishing", "recording"} =>
               job[w] \in [task : Task, attempt : Nat, route : {"local", "cloud"}]
        /\ pc[w] \in {"executing", "judging", "finishing"} => job[w].attempt \in Attempt
        /\ pc[w] = "judging" => verdict[w] \in {"ok", "failed"}
        /\ pc[w] = "finishing" => verdict[w] \in {"succeeded", "failed", "cancelled"}

TypeInv == TypeOK /\ JobOK

(* The steps of a call that touch nothing but the call itself and, at most, *)
(* the session row.                                                         *)
CallStep(w) ==
    \/ Begin(w) \/ BeginPlan(w) \/ PlanReturn(w) \/ Answer(w) \/ ApproveRecord(w)
    \/ DenyRecord(w) \/ ListTasks(w) \/ PlanDone(w) \/ Choose(w) \/ Idle(w)
    \/ CompleteSession(w) \/ ClaimRefused(w) \/ Execute(w) \/ Judge(w) \/ Record(w)
    \/ LockTimeout(w)

----------------------------------------------------------------------------
(* Type correctness. *)

(* A fresh session satisfies the type invariant.                            *)
LEMMA InitTypeInv == Init => TypeInv
  <1>1. SUFFICES ASSUME Init PROVE TypeInv
    OBVIOUS
  <1>2. 0 \in 0..AttemptCap
    BY LimitAssumption
  <1>3. TypeOK
    BY <1>1, <1>2, LimitAssumption DEF Init, TypeOK, SessionStatus, TaskStatus, RunRow, NoRun, Job, PC
  <1>4. JobOK
    BY <1>1 DEF Init, JobOK
  <1> QED BY <1>3, <1>4 DEF TypeInv

(* Returning from a call keeps the types of what the call held. *)
LEMMA ReturnTypes ==
  ASSUME TypeInv, NEW w \in Worker, Return(w)
  PROVE  /\ pc' \in [Worker -> PC]
         /\ job' \in [Worker -> Job]
         /\ snap' \in [Worker -> SUBSET Note]
         /\ seen' \in [Worker -> {"failed", "done", "open"}]
         /\ cursor' \in [Worker -> Nat]
         /\ verdict' \in [Worker -> {"none", "ok", "failed"} \cup TerminalRun]
         /\ JobOK'
  <1>1. pc' \in [Worker -> PC] /\ job' \in [Worker -> Job] /\ snap' \in [Worker -> SUBSET Note]
    BY DEF TypeInv, TypeOK, Return, PC, Job
  <1>2. /\ seen' \in [Worker -> {"failed", "done", "open"}]
        /\ cursor' \in [Worker -> Nat]
        /\ verdict' \in [Worker -> {"none", "ok", "failed"} \cup TerminalRun]
    BY DEF TypeInv, TypeOK, Return
  <1>3. JobOK'
    BY DEF TypeInv, TypeOK, JobOK, Return
  <1> QED BY <1>1, <1>2, <1>3

(* A step of a call that writes no task or run row keeps the types.         *)
LEMMA CallStepTypeInv ==
  ASSUME TypeInv, NEW w \in Worker, CallStep(w)
  PROVE  TypeInv'
  <1> USE DEF TypeInv, TypeOK
  <1>1. CASE PlanReturn(w) \/ ClaimRefused(w) \/ LockTimeout(w)
    BY <1>1, ReturnTypes DEF PlanReturn, ClaimRefused, LockTimeout, sessionVars, rowVars
  <1>2. CASE ApproveRecord(w) \/ DenyRecord(w) \/ CompleteSession(w) \/ Record(w)
    <2>1. checkpoint' \subseteq Note
      BY <1>2 DEF ApproveRecord, DenyRecord, CompleteSession, Record, WriteCheckpoint, Note
    <2>2. status' \in SessionStatus
      BY <1>2 DEF ApproveRecord, DenyRecord, CompleteSession, Record, WriteCheckpoint, SessionStatus
    <2>3. Return(w) /\ UNCHANGED <<ask, rowVars, grants, up>>
      BY <1>2 DEF ApproveRecord, DenyRecord, CompleteSession, Record
    <2> QED BY <2>1, <2>2, <2>3, ReturnTypes DEF rowVars
  <1>3. CASE Begin(w)
    BY <1>3 DEF Begin, JobOK, Goto, At, PC, sessionVars, rowVars
  <1>9. CASE BeginPlan(w)
    <2>1. job' \in [Worker -> Job] /\ pc' = [pc EXCEPT ![w] = "listing"]
      BY <1>9 DEF BeginPlan, Goto, Job
    <2>2. \A v \in Worker : v # w => job'[v] = job[v] /\ pc'[v] = pc[v]
      BY <1>9, <2>1 DEF BeginPlan
    <2>3. JobOK'
      BY <1>9, <2>1, <2>2 DEF BeginPlan, JobOK
    <2> QED BY <1>9, <2>1, <2>3 DEF BeginPlan, PC, sessionVars, rowVars
  <1>8. CASE Answer(w)
    <2>1. PICK answer \in {"approving", "denying"} : Goto(w, answer)
      BY <1>8 DEF Answer
    <2>2. ask' \in BOOLEAN
      BY <1>8 DEF Answer
    <2> QED BY <1>8, <2>1, <2>2 DEF Answer, JobOK, Goto, At, PC, rowVars
  <1>4. CASE ListTasks(w) \/ PlanDone(w)
    <2>1. Summary(Rows) \in {"failed", "done", "open"}
      BY DEF Summary
    <2> QED BY <1>4, <2>1 DEF ListTasks, PlanDone, JobOK, Goto, At, PC, sessionVars, rowVars
  <1>5. CASE Choose(w)
    <2>1. CASE status # "active" \/ Ready = {}
      <3>1. Goto(w, "idling") /\ UNCHANGED <<sessionVars, rowVars, grants, up, job, snap, seen, cursor, verdict>>
        BY <1>5, <2>1 DEF Choose
      <3> QED BY <3>1 DEF JobOK, Goto, PC, sessionVars, rowVars
    <2>2. CASE ~(status # "active" \/ Ready = {})
      <3>1. PICK t \in Ready :
              \/ \E r \in IF Route[t] = "local" THEN {"local"} ELSE {"local", "cloud"} :
                    /\ Goto(w, "claiming")
                    /\ job' = [job EXCEPT ![w] = [task |-> t, attempt |-> 0, route |-> r]]
                    /\ UNCHANGED <<snap, seen, cursor, verdict>>
              \/ Route[t] = "adaptive" /\ Return(w)
        BY <1>5, <2>2 DEF Choose
      <3>2. UNCHANGED <<sessionVars, rowVars, grants, up>>
        BY <1>5, <2>2 DEF Choose
      <3>3. CASE Return(w)
        BY <3>2, <3>3, ReturnTypes DEF sessionVars, rowVars
      <3>4. CASE \E r \in IF Route[t] = "local" THEN {"local"} ELSE {"local", "cloud"} :
                    /\ Goto(w, "claiming")
                    /\ job' = [job EXCEPT ![w] = [task |-> t, attempt |-> 0, route |-> r]]
                    /\ UNCHANGED <<snap, seen, cursor, verdict>>
        <4>1. PICK r \in {"local", "cloud"} :
                    /\ Goto(w, "claiming")
                    /\ job' = [job EXCEPT ![w] = [task |-> t, attempt |-> 0, route |-> r]]
                    /\ UNCHANGED <<snap, seen, cursor, verdict>>
          BY <3>4
        <4>2. [task |-> t, attempt |-> 0, route |-> r] \in [task : Task, attempt : Nat, route : {"local", "cloud"}]
          BY DEF Ready
        <4> QED BY <4>1, <4>2, <3>2 DEF JobOK, Goto, PC, Job, sessionVars, rowVars
      <3> QED BY <3>1, <3>3, <3>4
    <2> QED BY <2>1, <2>2
  <1>6. CASE Idle(w)
    <2>1. CASE Return(w)
      BY <1>6, <2>1, ReturnTypes DEF Idle, sessionVars, rowVars
    <2>2. CASE ~Return(w)
      BY <1>6, <2>2 DEF Idle, JobOK, Goto, At, PC, sessionVars, rowVars
    <2> QED BY <2>1, <2>2
  <1>7. CASE Execute(w)
    BY <1>7 DEF Execute, JobOK, Goto, At, PC, sessionVars, rowVars
  <1>10. CASE Judge(w)
    BY <1>10 DEF Judge, JobOK, Goto, At, PC, TerminalRun, sessionVars, rowVars
  <1> QED BY <1>1, <1>2, <1>3, <1>4, <1>5, <1>6, <1>7, <1>8, <1>9, <1>10 DEF CallStep

(* Appending a row: its position is the next one. *)
LEMMA InsertTypes ==
  ASSUME TypeInv, NEW t \in Task, Insert(t)
  PROVE  /\ tstatus' \in [Task -> TaskStatus]
         /\ position' \in [Task -> Nat]
         /\ UNCHANGED <<attempts, limit, active, run>>
  <1>1. IsFiniteSet(Rows)
    BY TaskAssumption, FS_Subset DEF Rows
  <1>2. Cardinality(Rows) + 1 \in Nat
    BY <1>1, FS_CardinalityType
  <1> QED BY <1>2 DEF Insert, TypeInv, TypeOK, TaskStatus

(* The link a planner is about to create is a task.                         *)
LEMMA PlanTask ==
  ASSUME NEW i \in DOMAIN Plan
  PROVE  Plan[i] \in Task
  BY PlanAssumption

(* Cancelling the queued rows keeps the types of both columns.              *)
LEMMA CancelTypes ==
  ASSUME TypeInv, CancelRows
  PROVE  status' \in SessionStatus /\ tstatus' \in [Task -> TaskStatus]
  BY DEF CancelRows, TypeInv, TypeOK, SessionStatus, TaskStatus, TerminalRun

(* claim_task keeps the types: the new attempt is within the limit.         *)
LEMMA ClaimTypeInv ==
  ASSUME TypeInv, NEW w \in Worker, Claim(w)
  PROVE  TypeInv'
  <1> DEFINE t == job[w].task
             n == attempts[t] + 1
  <1>1. job[w] \in [task : Task, attempt : Nat, route : {"local", "cloud"}]
    BY DEF Claim, At, TypeInv, JobOK
  <1>2. t \in Task /\ job[w].route \in {"local", "cloud"}
    BY <1>1
  <1>3. attempts[t] \in 0..AttemptCap /\ limit[t] \in 1..AttemptCap
    BY <1>2 DEF TypeInv, TypeOK, Attempt
  <1>4. n \in Attempt /\ n \in 0..AttemptCap /\ n \in Nat
    BY <1>3, LimitAssumption DEF Claim, Claimable, Attempt
  <1>5. /\ run' = [run EXCEPT ![<<t, n>>] = [status |-> "running", backend |-> job[w].route]]
        /\ tstatus' = [tstatus EXCEPT ![t] = "running"]
        /\ attempts' = [attempts EXCEPT ![t] = n]
        /\ active' = [active EXCEPT ![t] = n]
        /\ job' = [job EXCEPT ![w].attempt = n]
        /\ pc' = [pc EXCEPT ![w] = "executing"]
        /\ UNCHANGED <<sessionVars, position, limit, grants, up, snap, seen, cursor, verdict>>
    BY DEF Claim, Goto
  <1>6. run' \in [Task \X Attempt -> RunRow]
    <2>1. [status |-> "running", backend |-> job[w].route] \in RunRow
      BY <1>2 DEF RunRow
    <2> QED BY <1>5, <2>1 DEF TypeInv, TypeOK
  <1>7. /\ tstatus' \in [Task -> TaskStatus]
        /\ attempts' \in [Task -> 0..AttemptCap]
        /\ active' \in [Task -> 0..AttemptCap]
        /\ pc' \in [Worker -> PC]
    BY <1>4, <1>5 DEF TypeInv, TypeOK, TaskStatus, PC
  <1>8. /\ job' \in [Worker -> Job]
        /\ \A v \in Worker \ {w} : job'[v] = job[v]
        /\ job'[w] \in [task : Task, attempt : Nat, route : {"local", "cloud"}]
        /\ job'[w].attempt = n
    BY <1>1, <1>4, <1>5 DEF TypeInv, TypeOK, Job
  <1>9. JobOK'
    BY <1>4, <1>5, <1>8 DEF TypeInv, TypeOK, JobOK
  <1> QED BY <1>5, <1>6, <1>7, <1>8, <1>9 DEF TypeInv, TypeOK, sessionVars

(* finish_task_run keeps the types.                                         *)
LEMMA FinishTypeInv ==
  ASSUME TypeInv, NEW w \in Worker, Finish(w)
  PROVE  TypeInv'
  <1> DEFINE t == job[w].task
             n == job[w].attempt
             s == IF verdict[w] = "failed" /\ Retryable(t, n) THEN "pending" ELSE verdict[w]
  <1>1. /\ t \in Task /\ n \in Attempt
        /\ verdict[w] \in {"succeeded", "failed", "cancelled"}
    BY DEF Finish, At, TypeInv, JobOK
  <1>2. run' \in [Task \X Attempt -> RunRow]
    <2>1. run' = [run EXCEPT ![<<t, n>>].status = verdict[w]]
      BY DEF Finish
    <2> QED BY <1>1, <2>1 DEF TypeInv, TypeOK, RunRow, TerminalRun
  <1>3. tstatus' \in [Task -> TaskStatus] /\ active' \in [Task -> 0..AttemptCap]
    <2>1. s \in TaskStatus
      BY <1>1 DEF TaskStatus, TerminalRun
    <2>2. \/ tstatus' = [tstatus EXCEPT ![t] = s] /\ active' = [active EXCEPT ![t] = 0]
          \/ UNCHANGED <<tstatus, active>>
      BY DEF Finish
    <2>3. 0 \in 0..AttemptCap
      BY LimitAssumption
    <2> QED BY <2>1, <2>2, <2>3 DEF TypeInv, TypeOK
  <1>4. status' \in SessionStatus
    BY DEF Finish, Finalized, TypeInv, TypeOK, SessionStatus
  <1>5. UNCHANGED <<checkpoint, ask, position, attempts, limit, grants, up>>
    BY DEF Finish
  <1>6. CASE Return(w)
    BY <1>2, <1>3, <1>4, <1>5, <1>6, ReturnTypes DEF TypeInv, TypeOK
  <1>7. CASE Goto(w, "recording") /\ UNCHANGED <<job, snap, seen, cursor, verdict>>
    <2>1. pc' \in [Worker -> PC] /\ JobOK'
      BY <1>7 DEF Finish, At, Goto, PC, TypeInv, TypeOK, JobOK
    <2> QED BY <1>2, <1>3, <1>4, <1>5, <1>7, <2>1 DEF TypeInv, TypeOK
  <1> QED BY <1>6, <1>7 DEF Finish

(* An operator retry keeps the types: the new limit is within the cap.      *)
LEMMA RetryTypeInv ==
  ASSUME TypeInv, NEW t \in Task, Retry(t)
  PROVE  TypeInv'
  <1>1. attempts[t] \in Attempt /\ NextLimit(t) \in Attempt
    BY LimitAssumption DEF TypeInv, TypeOK, Retry, NextLimit, Attempt
  <1>2. checkpoint' \subseteq Note
    BY <1>1 DEF Retry, TypeInv, TypeOK, Note, RetryNote
  <1>3. /\ tstatus' \in [Task -> TaskStatus]
        /\ limit' \in [Task -> Attempt]
        /\ active' \in [Task -> 0..AttemptCap]
        /\ grants' \in [Task -> Nat]
    BY <1>1, LimitAssumption DEF Retry, TypeInv, TypeOK, TaskStatus
  <1>4. JobOK'
    BY DEF Retry, TypeInv, JobOK, workerVars
  <1> QED BY <1>2, <1>3, <1>4 DEF Retry, TypeInv, TypeOK, workerVars

(* Restart recovery keeps the types.                                        *)
LEMMA RecoverTypeInv == TypeInv /\ Recover => TypeInv'
  <1> SUFFICES ASSUME TypeInv, Recover PROVE TypeInv'
    OBVIOUS
  <1>1. run' \in [Task \X Attempt -> RunRow]
    <2>1. \A r \in Task \X Attempt : [run[r] EXCEPT !.status = "interrupted"] \in RunRow
      BY DEF TypeInv, TypeOK, RunRow, TerminalRun
    <2> QED BY <2>1 DEF Recover, TypeInv, TypeOK
  <1>2. tstatus' \in [Task -> TaskStatus]
    BY DEF Recover, TypeInv, TypeOK, TaskStatus, TerminalRun
  <1>3. active' \in [Task -> 0..AttemptCap]
    <2>1. 0 \in 0..AttemptCap
      BY LimitAssumption
    <2> QED BY <2>1 DEF Recover, TypeInv, TypeOK
  <1>4. status' \in SessionStatus
    BY DEF Recover, Finalized, TypeInv, TypeOK, SessionStatus
  <1>5. JobOK' /\ UNCHANGED <<checkpoint, ask, position, attempts, limit, grants, workerVars>>
    BY DEF Recover, TypeInv, JobOK, workerVars
  <1>6. up' \in BOOLEAN
    BY DEF Recover
  <1> QED BY <1>1, <1>2, <1>3, <1>4, <1>5, <1>6 DEF TypeInv, TypeOK, workerVars

(* Every step keeps the type invariant: one case per action.                *)
LEMMA NextTypeInv == TypeInv /\ [Next]_vars => TypeInv'
  <1> SUFFICES ASSUME TypeInv, [Next]_vars PROVE TypeInv'
    OBVIOUS
  <1>1. CASE UNCHANGED vars
    BY <1>1 DEF vars, TypeInv, TypeOK, JobOK
  <1>2. ASSUME NEW w \in Worker, CallStep(w) PROVE TypeInv'
    BY <1>2, CallStepTypeInv
  <1>3. ASSUME NEW w \in Worker, PlanStep(w) PROVE TypeInv'
    <2>1. Plan[cursor[w]] \in Task
      BY <1>3, PlanTask DEF PlanStep
    <2>2. /\ tstatus' \in [Task -> TaskStatus]
          /\ position' \in [Task -> Nat]
          /\ UNCHANGED <<attempts, limit, active, run>>
      BY <1>3, <2>1, InsertTypes DEF PlanStep, rowVars, TypeInv, TypeOK
    <2>3. seen' \in [Worker -> {"failed", "done", "open"}] /\ cursor' \in [Worker -> Nat]
      BY <1>3 DEF PlanStep, TypeInv, TypeOK
    <2>4. JobOK'
      BY <1>3 DEF PlanStep, JobOK, TypeInv
    <2> QED BY <1>3, <2>2, <2>3, <2>4 DEF PlanStep, TypeInv, TypeOK, sessionVars
  <1>4. ASSUME NEW t \in Task, CreateTask(t) PROVE TypeInv'
    BY <1>4, InsertTypes DEF CreateTask, TypeInv, TypeOK, JobOK, sessionVars, workerVars
  <1>5. ASSUME NEW w \in Worker, DenyCancel(w) PROVE TypeInv'
    BY <1>5, CancelTypes DEF DenyCancel, Goto, At, PC, TypeInv, TypeOK, JobOK
  <1>6. CASE Cancel
    BY <1>6, CancelTypes DEF Cancel, TypeInv, TypeOK, JobOK, workerVars
  <1>7. CASE Pause \/ Resume \/ QuarantineSession \/ RequestLease
    BY <1>7 DEF Pause, Resume, QuarantineSession, RequestLease, SessionStatus, Note,
                TypeInv, TypeOK, JobOK, rowVars, workerVars
  <1>8. CASE Crash
    BY <1>8 DEF Crash, TypeInv, TypeOK, JobOK, PC, Job, sessionVars, rowVars
  <1> QED BY <1>1, <1>2, <1>3, <1>4, <1>5, <1>6, <1>7, <1>8,
             ClaimTypeInv, FinishTypeInv, RetryTypeInv, RecoverTypeInv
          DEF Next, Step, Founder, CallStep

(* Every variable keeps its type, and every call works on a task of the     *)
(* session and with an attempt number that exists.                          *)
THEOREM TypeCorrect == Spec => []TypeInv
  BY InitTypeInv, NextTypeInv, PTL DEF Spec

----------------------------------------------------------------------------
(* The kinds of step, as the task and run tables see them. *)

RowsKept ==
    /\ UNCHANGED <<tstatus, attempts, limit, active, run, grants>>
    /\ status' = status \/ status' \notin {"cancelled", "cancelling"}

RowAdded(t) ==
    /\ tstatus[t] = "absent"
    /\ \A d \in Deps[t] : tstatus[d] # "absent"
    /\ tstatus' = [tstatus EXCEPT ![t] = "pending"]
    /\ UNCHANGED <<status, attempts, limit, active, run, grants>>

RowsCancelled ==
    /\ CancelRows
    /\ UNCHANGED <<attempts, limit, active, run, grants>>

(* Every step is of one of these kinds, as far as the task and run rows     *)
(* are concerned.                                                           *)
LEMMA StepKinds ==
  ASSUME TypeInv, [Next]_vars
  PROVE  \/ RowsKept
         \/ \E t \in Task : RowAdded(t) \/ Retry(t)
         \/ \E w \in Worker : Claim(w) \/ Finish(w)
         \/ RowsCancelled
         \/ Recover
  <1>1. CASE UNCHANGED vars
    BY <1>1 DEF vars, RowsKept
  <1>2. ASSUME NEW w \in Worker, CallStep(w) PROVE RowsKept
    <2>1. CASE Begin(w) \/ BeginPlan(w) \/ PlanReturn(w) \/ Answer(w)
      BY <2>1 DEF Begin, BeginPlan, PlanReturn, Answer, RowsKept, rowVars, sessionVars
    <2>2. CASE ApproveRecord(w) \/ DenyRecord(w) \/ CompleteSession(w) \/ Record(w)
      BY <2>2 DEF ApproveRecord, DenyRecord, CompleteSession, Record, WriteCheckpoint, RowsKept, rowVars
    <2>3. CASE ListTasks(w) \/ PlanDone(w) \/ Choose(w) \/ Idle(w)
      BY <2>3 DEF ListTasks, PlanDone, Choose, Idle, RowsKept, rowVars, sessionVars
    <2>4. CASE ClaimRefused(w) \/ Execute(w) \/ Judge(w) \/ LockTimeout(w)
      BY <2>4 DEF ClaimRefused, Execute, Judge, LockTimeout, RowsKept, rowVars, sessionVars
    <2> QED BY <1>2, <2>1, <2>2, <2>3, <2>4 DEF CallStep
  <1>3. ASSUME NEW w \in Worker, PlanStep(w)
        PROVE  RowsKept \/ \E t \in Task : RowAdded(t)
    <2>1. Plan[cursor[w]] \in Task
      BY <1>3, PlanTask DEF PlanStep
    <2> QED BY <1>3, <2>1 DEF PlanStep, Insert, Rows, RowsKept, RowAdded, rowVars, sessionVars
  <1>4. ASSUME NEW t \in Task, CreateTask(t) PROVE RowAdded(t)
    BY <1>4 DEF CreateTask, Insert, Rows, RowAdded, sessionVars
  <1>5. ASSUME NEW w \in Worker, DenyCancel(w) PROVE RowsKept \/ RowsCancelled
    BY <1>5 DEF DenyCancel, RowsKept, RowsCancelled
  <1>6. CASE Cancel
    BY <1>6 DEF Cancel, RowsCancelled
  <1>7. CASE Pause \/ Resume \/ QuarantineSession \/ RequestLease
    BY <1>7 DEF Pause, Resume, QuarantineSession, RequestLease, RowsKept, rowVars
  <1>8. CASE Crash
    BY <1>8 DEF Crash, RowsKept, sessionVars, rowVars
  <1> QED BY <1>1, <1>2, <1>3, <1>4, <1>5, <1>6, <1>7, <1>8 DEF Next, Step, Founder, CallStep

----------------------------------------------------------------------------
(* The task row and the run rows agree. *)

RowInv ==
    /\ RunOwnership
    /\ \A t \in Task : tstatus[t] = "running" => active[t] \in Attempt
    /\ \A t \in Task : tstatus[t] = "absent" => attempts[t] = 0
    /\ \A t \in Task, n \in Attempt : run[<<t, n>>].status # "none" => n <= attempts[t]

(* A fresh session has no run, so its tables agree.                         *)
LEMMA InitRowInv == Init => RowInv
  BY DEF Init, RowInv, RunOwnership, NoRun

(* Claiming attempt n of task t, and ending it with verdict v. *)
ClaimEffect(t, n, r) ==
    /\ Claimable(t)
    /\ n = attempts[t] + 1
    /\ run' = [run EXCEPT ![<<t, n>>] = [status |-> "running", backend |-> r]]
    /\ tstatus' = [tstatus EXCEPT ![t] = "running"]
    /\ attempts' = [attempts EXCEPT ![t] = n]
    /\ active' = [active EXCEPT ![t] = n]
    /\ UNCHANGED <<status, limit, grants>>

FinishEffect(t, n, v) ==
    /\ run[<<t, n>>].status = "running"
    /\ tstatus[t] = "running" /\ active[t] = n /\ attempts[t] = n
    /\ run' = [run EXCEPT ![<<t, n>>].status = v]
    /\ \/ tstatus' = [tstatus EXCEPT ![t] = v]
       \/ Retryable(t, n) /\ tstatus' = [tstatus EXCEPT ![t] = "pending"]
    /\ active' = [active EXCEPT ![t] = 0]
    /\ status' = Finalized(status, tstatus')
    /\ UNCHANGED <<attempts, limit, grants>>

(* What a claim does, in terms of the claimed task and attempt.             *)
LEMMA ClaimFacts ==
  ASSUME TypeInv, NEW w \in Worker, Claim(w)
  PROVE  \E t \in Task, n \in Attempt, r \in {"local", "cloud"} :
           t = job[w].task /\ ClaimEffect(t, n, r)
  <1>1. job[w].task \in Task /\ job[w].route \in {"local", "cloud"}
    BY DEF Claim, At, TypeInv, JobOK
  <1>2. attempts[job[w].task] + 1 \in Attempt
    BY <1>1, LimitAssumption DEF Claim, Claimable, TypeInv, TypeOK, Attempt
  <1> QED BY <1>1, <1>2 DEF Claim, ClaimEffect, sessionVars

(* What a finish does: the run it ends is the task's active, last run.      *)
LEMMA FinishFacts ==
  ASSUME TypeInv, RowInv, NEW w \in Worker, Finish(w)
  PROVE  \E t \in Task, n \in Attempt, v \in {"succeeded", "failed", "cancelled"} :
           t = job[w].task /\ FinishEffect(t, n, v)
  <1>1. /\ job[w].task \in Task /\ job[w].attempt \in Attempt
        /\ verdict[w] \in {"succeeded", "failed", "cancelled"}
    BY DEF Finish, At, TypeInv, JobOK
  <1>2. run[<<job[w].task, job[w].attempt>>].status = "running"
    BY DEF Finish
  <1>3. /\ tstatus[job[w].task] = "running"
        /\ active[job[w].task] = job[w].attempt
        /\ attempts[job[w].task] = job[w].attempt
    BY <1>1, <1>2 DEF RowInv, RunOwnership
  <1> QED BY <1>1, <1>2, <1>3 DEF Finish, FinishEffect

(* Every step keeps the task and run tables in agreement.                   *)
LEMMA NextRowInv ==
  ASSUME TypeInv, RowInv, [Next]_vars
  PROVE  RowInv'
  <1>0. /\ tstatus \in [Task -> TaskStatus] /\ attempts \in [Task -> 0..AttemptCap]
        /\ active \in [Task -> 0..AttemptCap] /\ run \in [Task \X Attempt -> RunRow]
    BY DEF TypeInv, TypeOK
  <1>1. CASE RowsKept
    BY <1>0, <1>1 DEF RowsKept, RowInv, RunOwnership
  <1>2. ASSUME NEW t \in Task, RowAdded(t) PROVE RowInv'
    BY <1>0, <1>2 DEF RowAdded, RowInv, RunOwnership
  <1>3. ASSUME NEW t \in Task, Retry(t) PROVE RowInv'
    BY <1>0, <1>3 DEF Retry, RowInv, RunOwnership
  <1>4. ASSUME NEW w \in Worker, Claim(w) PROVE RowInv'
    <2>1. PICK t \in Task, n \in Attempt, r \in {"local", "cloud"} : ClaimEffect(t, n, r)
      BY <1>4, ClaimFacts
    <2>2. \A m \in Attempt : run[<<t, m>>].status # "running"
      BY <2>1 DEF Claimable, RowInv, RunOwnership, ClaimEffect
    <2>3. \A u \in Task, m \in Attempt :
             run'[<<u, m>>] = IF u = t /\ m = n THEN [status |-> "running", backend |-> r]
                              ELSE run[<<u, m>>]
      BY <1>0, <2>1 DEF ClaimEffect
    <2>4. RunOwnership'
      <3> SUFFICES ASSUME NEW u \in Task, NEW m \in Attempt
                   PROVE  /\ run'[<<u, m>>].status = "running" <=> tstatus'[u] = "running" /\ active'[u] = m
                          /\ run'[<<u, m>>].status = "running" => attempts'[u] = m
        BY DEF RunOwnership
      <3>1. CASE u = t
        BY <1>0, <2>1, <2>2, <2>3, <3>1 DEF ClaimEffect
      <3>2. CASE u # t
        BY <1>0, <2>1, <2>3, <3>2 DEF RowInv, RunOwnership, ClaimEffect
      <3> QED BY <3>1, <3>2
    <2>5. \A u \in Task, m \in Attempt : run'[<<u, m>>].status # "none" => m <= attempts'[u]
      <3> SUFFICES ASSUME NEW u \in Task, NEW m \in Attempt, run'[<<u, m>>].status # "none"
                   PROVE  m <= attempts'[u]
        OBVIOUS
      <3>1. CASE u = t /\ m = n
        BY <1>0, <2>1, <3>1 DEF Attempt, ClaimEffect
      <3>2. CASE ~(u = t /\ m = n)
        <4>1. m <= attempts[u]
          BY <2>3, <3>2 DEF RowInv
        <4> QED BY <1>0, <2>1, <4>1 DEF Attempt, ClaimEffect
      <3> QED BY <3>1, <3>2
    <2> QED BY <1>0, <2>1, <2>4, <2>5 DEF RowInv, ClaimEffect
  <1>5. ASSUME NEW w \in Worker, Finish(w) PROVE RowInv'
    <2>1. PICK t \in Task, n \in Attempt, v \in {"succeeded", "failed", "cancelled"} :
             FinishEffect(t, n, v)
      BY <1>5, FinishFacts
    <2>2. \A u \in Task, m \in Attempt :
             run'[<<u, m>>].status = IF u = t /\ m = n THEN v ELSE run[<<u, m>>].status
      BY <1>0, <2>1 DEF RunRow, FinishEffect
    <2>3. tstatus'[t] \notin {"running", "absent"}
          /\ \A u \in Task \ {t} : tstatus'[u] = tstatus[u] /\ active'[u] = active[u]
      BY <1>0, <2>1 DEF FinishEffect
    <2>4. RunOwnership'
      <3> SUFFICES ASSUME NEW u \in Task, NEW m \in Attempt
                   PROVE  /\ run'[<<u, m>>].status = "running" <=> tstatus'[u] = "running" /\ active'[u] = m
                          /\ run'[<<u, m>>].status = "running" => attempts'[u] = m
        BY DEF RunOwnership
      <3>1. CASE u = t
        BY <2>1, <2>2, <2>3, <3>1 DEF RowInv, RunOwnership, FinishEffect
      <3>2. CASE u # t
        BY <2>1, <2>2, <2>3, <3>2 DEF RowInv, RunOwnership, FinishEffect
      <3> QED BY <3>1, <3>2
    <2> QED BY <2>1, <2>2, <2>3, <2>4 DEF RowInv, FinishEffect
  <1>6. CASE RowsCancelled
    BY <1>0, <1>6 DEF RowsCancelled, CancelRows, RowInv, RunOwnership
  <1>7. CASE Recover
    <2>1. \A u \in Task, m \in Attempt :
             run'[<<u, m>>].status = IF run[<<u, m>>].status = "running" THEN "interrupted"
                                     ELSE run[<<u, m>>].status
      BY <1>0, <1>7 DEF Recover, Lost, RunRow
    <2>2. \A u \in Task : /\ tstatus'[u] # "running"
                          /\ tstatus'[u] = "absent" => tstatus[u] = "absent"
      BY <1>0, <1>7 DEF Recover, Lost, RowInv, RunOwnership, Attempt
    <2>3. UNCHANGED attempts
      BY <1>7 DEF Recover
    <2> QED BY <2>1, <2>2, <2>3 DEF RowInv, RunOwnership
  <1> QED BY <1>1, <1>2, <1>3, <1>4, <1>5, <1>6, <1>7, StepKinds

(* The task and the run tables never disagree about what is running.        *)
THEOREM RunsAreOwned == Spec => []RunOwnership
  <1>1. Spec => []RowInv
    BY InitTypeInv, NextTypeInv, InitRowInv, NextRowInv, PTL DEF Spec
  <1>2. RowInv => RunOwnership
    BY DEF RowInv
  <1> QED BY <1>1, <1>2, PTL

----------------------------------------------------------------------------
(* Dependencies, paid attempts, cancellation and attempt limits. *)

(* Every step keeps the order of dependencies.                              *)
LEMMA NextDependencyOrder ==
  ASSUME TypeInv, RowInv, DependencyOrder, [Next]_vars
  PROVE  DependencyOrder'
  <1>0. /\ tstatus \in [Task -> TaskStatus] /\ active \in [Task -> 0..AttemptCap]
        /\ Deps \in [Task -> SUBSET Task]
    BY TaskAssumption DEF TypeInv, TypeOK
  (* It is enough that successes stay and what starts has its dependencies. *)
  <1>1. ASSUME \A t \in Task : tstatus[t] = "succeeded" => tstatus'[t] = "succeeded",
               \A t \in Task : tstatus'[t] \in {"running", "succeeded"} =>
                   DepsDone(t) \/ tstatus[t] \in {"running", "succeeded"}
        PROVE  DependencyOrder'
    BY <1>0, <1>1 DEF DependencyOrder, DepsDone
  <1>2. CASE RowsKept
    BY <1>1, <1>2 DEF RowsKept
  <1>3. ASSUME NEW t \in Task, RowAdded(t) PROVE DependencyOrder'
    BY <1>0, <1>1, <1>3 DEF RowAdded
  <1>4. ASSUME NEW t \in Task, Retry(t) PROVE DependencyOrder'
    BY <1>0, <1>1, <1>4 DEF Retry
  <1>5. ASSUME NEW w \in Worker, Claim(w) PROVE DependencyOrder'
    <2>1. PICK t \in Task, n \in Attempt, r \in {"local", "cloud"} : ClaimEffect(t, n, r)
      BY <1>5, ClaimFacts
    <2> QED BY <1>0, <1>1, <2>1 DEF ClaimEffect, Claimable
  <1>6. ASSUME NEW w \in Worker, Finish(w) PROVE DependencyOrder'
    <2>1. PICK t \in Task, n \in Attempt, v \in {"succeeded", "failed", "cancelled"} :
             FinishEffect(t, n, v)
      BY <1>6, FinishFacts
    <2> QED BY <1>0, <1>1, <2>1 DEF FinishEffect
  <1>7. CASE RowsCancelled
    BY <1>0, <1>1, <1>7 DEF RowsCancelled, CancelRows
  <1>8. CASE Recover
    BY <1>0, <1>1, <1>8 DEF Recover, Lost, RowInv, RunOwnership, Attempt
  <1> QED BY <1>2, <1>3, <1>4, <1>5, <1>6, <1>7, <1>8, StepKinds

(* No step queues or claims a task behind a paid attempt.                   *)
LEMMA NextCloudNeverRetried ==
  ASSUME TypeInv, RowInv, CloudNeverRetried, [Next]_vars
  PROVE  CloudNeverRetried'
  <1>0. /\ tstatus \in [Task -> TaskStatus] /\ attempts \in [Task -> 0..AttemptCap]
        /\ active \in [Task -> 0..AttemptCap] /\ run \in [Task \X Attempt -> RunRow]
    BY DEF TypeInv, TypeOK
  <1>1. CASE RowsKept
    BY <1>1 DEF RowsKept, CloudNeverRetried
  <1>2. ASSUME NEW t \in Task, RowAdded(t) PROVE CloudNeverRetried'
    <2>1. \A n \in Attempt : run[<<t, n>>].backend # "cloud"
      BY <1>2 DEF RowAdded, RowInv, CloudNeverRetried, Attempt
    <2> QED BY <1>0, <1>2, <2>1 DEF RowAdded, CloudNeverRetried
  <1>3. ASSUME NEW t \in Task, Retry(t) PROVE CloudNeverRetried'
    <2>1. \A n \in Attempt : run[<<t, n>>].backend # "cloud"
      BY <1>3 DEF Retry, CloudNeverRetried
    <2> QED BY <1>0, <1>3, <2>1 DEF Retry, CloudNeverRetried
  <1>4. ASSUME NEW w \in Worker, Claim(w) PROVE CloudNeverRetried'
    <2>1. PICK t \in Task, n \in Attempt, r \in {"local", "cloud"} : ClaimEffect(t, n, r)
      BY <1>4, ClaimFacts
    <2>2. \A m \in Attempt : run[<<t, m>>].backend # "cloud"
      BY <2>1 DEF ClaimEffect, Claimable, CloudNeverRetried
    <2>3. \A u \in Task, m \in Attempt : u # t \/ m # n => run'[<<u, m>>] = run[<<u, m>>]
      BY <1>0, <2>1 DEF ClaimEffect
    <2> QED BY <1>0, <2>1, <2>2, <2>3 DEF ClaimEffect, CloudNeverRetried
  <1>5. ASSUME NEW w \in Worker, Finish(w) PROVE CloudNeverRetried'
    <2>1. PICK t \in Task, n \in Attempt, v \in {"succeeded", "failed", "cancelled"} :
             FinishEffect(t, n, v)
      BY <1>5, FinishFacts
    <2>2. \A u \in Task, m \in Attempt : run'[<<u, m>>].backend = run[<<u, m>>].backend
      <3> SUFFICES ASSUME NEW u \in Task, NEW m \in Attempt
                   PROVE  run'[<<u, m>>].backend = run[<<u, m>>].backend
        OBVIOUS
      <3>1. CASE u = t /\ m = n
        <4>1. run'[<<t, n>>] = [run[<<t, n>>] EXCEPT !.status = v] /\ run[<<t, n>>] \in RunRow
          BY <1>0, <2>1 DEF FinishEffect
        <4> QED BY <3>1, <4>1 DEF RunRow
      <3>2. CASE ~(u = t /\ m = n)
        BY <1>0, <2>1, <3>2 DEF FinishEffect
      <3> QED BY <3>1, <3>2
    <2>3. \A m \in Attempt : run[<<t, m>>].backend = "cloud" => tstatus'[t] # "pending"
      BY <1>0, <2>1 DEF FinishEffect, Retryable, CloudNeverRetried
    <2> QED BY <1>0, <2>1, <2>2, <2>3 DEF FinishEffect, CloudNeverRetried
  <1>6. CASE RowsCancelled
    BY <1>0, <1>6 DEF RowsCancelled, CancelRows, CloudNeverRetried
  <1>7. CASE Recover
    <2>1. \A u \in Task, m \in Attempt : run'[<<u, m>>].backend = run[<<u, m>>].backend
      BY <1>0, <1>7 DEF Recover, RunRow
    <2>2. \A u \in Task, m \in Attempt :
             run[<<u, m>>].backend = "cloud" => tstatus'[u] # "pending"
      <3> SUFFICES ASSUME NEW u \in Task, NEW m \in Attempt, run[<<u, m>>].backend = "cloud"
                   PROVE  tstatus'[u] # "pending"
        OBVIOUS
      <3>1. attempts[u] = m /\ tstatus[u] # "pending"
        BY DEF CloudNeverRetried
      <3>2. CASE active[u] # 0 /\ <<u, active[u]>> \in Lost
        <4>1. active[u] = m
          BY <1>0, <3>1, <3>2 DEF Lost, RowInv, RunOwnership
        <4> QED BY <1>0, <1>7, <3>2, <4>1 DEF Recover, Retryable
      <3>3. CASE ~(active[u] # 0 /\ <<u, active[u]>> \in Lost)
        BY <1>0, <1>7, <3>1, <3>3 DEF Recover
      <3> QED BY <3>2, <3>3
    <2> QED BY <1>7, <2>1, <2>2 DEF Recover, CloudNeverRetried
  <1> QED BY <1>1, <1>2, <1>3, <1>4, <1>5, <1>6, <1>7, StepKinds

(* No step leaves a cancellation waiting for nothing.                       *)
LEMMA NextCancelledIsQuiet ==
  ASSUME TypeInv, RowInv, CancelledIsQuiet, [Next]_vars
  PROVE  CancelledIsQuiet'
  <1>0. /\ tstatus \in [Task -> TaskStatus] /\ active \in [Task -> 0..AttemptCap]
    BY DEF TypeInv, TypeOK
  <1>1. CASE RowsKept
    BY <1>1 DEF RowsKept, CancelledIsQuiet, Running
  <1>2. ASSUME NEW t \in Task, RowAdded(t) PROVE CancelledIsQuiet'
    BY <1>0, <1>2 DEF RowAdded, CancelledIsQuiet, Running
  <1>3. ASSUME NEW t \in Task, Retry(t) PROVE CancelledIsQuiet'
    BY <1>0, <1>3 DEF Retry, CancelledIsQuiet, Running
  <1>4. ASSUME NEW w \in Worker, Claim(w) PROVE CancelledIsQuiet'
    <2>1. PICK t \in Task, n \in Attempt, r \in {"local", "cloud"} : ClaimEffect(t, n, r)
      BY <1>4, ClaimFacts
    <2> QED BY <2>1 DEF ClaimEffect, Claimable, CancelledIsQuiet
  <1>5. ASSUME NEW w \in Worker, Finish(w) PROVE CancelledIsQuiet'
    <2>1. PICK t \in Task, n \in Attempt, v \in {"succeeded", "failed", "cancelled"} :
             FinishEffect(t, n, v)
      BY <1>5, FinishFacts
    <2>2. status # "cancelled"
      BY <2>1 DEF FinishEffect, CancelledIsQuiet, Running
    <2> QED BY <2>1, <2>2 DEF FinishEffect, Finalized, CancelledIsQuiet, Running
  <1>6. CASE RowsCancelled
    <2>1. Running' = Running
      BY <1>0, <1>6 DEF RowsCancelled, CancelRows, Running
    <2> QED BY <1>6, <2>1 DEF RowsCancelled, CancelRows, CancelledIsQuiet
  <1>7. CASE Recover
    <2>1. Running' = {}
      BY <1>0, <1>7 DEF Recover, Lost, RowInv, RunOwnership, Running, Attempt
    <2>2. status = "cancelling" => Lost # {}
      <3> SUFFICES ASSUME status = "cancelling" PROVE Lost # {}
        OBVIOUS
      <3>1. PICK t \in Task : tstatus[t] = "running"
        BY DEF CancelledIsQuiet, Running
      <3>2. active[t] \in Attempt /\ run[<<t, active[t]>>].status = "running"
        BY <3>1 DEF RowInv, RunOwnership
      <3>3. <<t, active[t]>> \in Task \X Attempt
        BY <3>2
      <3> QED BY <3>2, <3>3 DEF Lost
    <2>3. status' # "cancelling"
      BY <1>7, <2>1, <2>2 DEF Recover, Finalized, Running
    <2> QED BY <2>1, <2>3 DEF CancelledIsQuiet
  <1> QED BY <1>1, <1>2, <1>3, <1>4, <1>5, <1>6, <1>7, StepKinds

(* No step grants, or leaves unusable, an attempt nobody configured.        *)
LEMMA NextLimits ==
  ASSUME TypeInv, RowInv, AttemptsGranted, QueuedCanRun, [Next]_vars
  PROVE  AttemptsGranted' /\ QueuedCanRun'
  <1>0. /\ tstatus \in [Task -> TaskStatus] /\ attempts \in [Task -> 0..AttemptCap]
        /\ limit \in [Task -> Attempt] /\ grants \in [Task -> Nat]
        /\ active \in [Task -> 0..AttemptCap] /\ InitLimit \in [Task -> Attempt]
    BY LimitAssumption DEF TypeInv, TypeOK
  <1>1. CASE RowsKept
    BY <1>1 DEF RowsKept, AttemptsGranted, QueuedCanRun
  <1>2. ASSUME NEW t \in Task, RowAdded(t) PROVE AttemptsGranted' /\ QueuedCanRun'
    BY <1>0, <1>2 DEF RowAdded, RowInv, AttemptsGranted, QueuedCanRun, Attempt
  <1>3. ASSUME NEW t \in Task, Retry(t) PROVE AttemptsGranted' /\ QueuedCanRun'
    <2>1. /\ tstatus' = [tstatus EXCEPT ![t] = "pending"]
          /\ limit' = [limit EXCEPT ![t] = NextLimit(t)]
          /\ grants' = [grants EXCEPT ![t] = @ + 1]
          /\ attempts' = attempts
      BY <1>3 DEF Retry
    <2>2. /\ attempts[t] < NextLimit(t)
          /\ NextLimit(t) <= InitLimit[t] + grants[t] + 1
      BY <1>0 DEF NextLimit, AttemptsGranted, Attempt
    <2>3. AttemptsGranted'
      <3> SUFFICES ASSUME NEW u \in Task
                   PROVE  attempts'[u] <= limit'[u] /\ limit'[u] <= InitLimit[u] + grants'[u]
        BY DEF AttemptsGranted
      <3>1. CASE u = t
        <4>1. limit'[t] = NextLimit(t) /\ grants'[t] = grants[t] + 1 /\ attempts'[t] = attempts[t]
          BY <1>0, <2>1
        <4>2. /\ attempts[t] \in Nat /\ grants[t] \in Nat
              /\ InitLimit[t] \in Nat /\ limit[t] \in Nat
          BY <1>0 DEF Attempt
        <4>3. NextLimit(t) \in Nat
          BY <4>2 DEF NextLimit
        <4> QED BY <2>2, <3>1, <4>1, <4>2, <4>3
      <3>2. CASE u # t
        BY <1>0, <2>1, <3>2 DEF AttemptsGranted
      <3> QED BY <3>1, <3>2
    <2>4. QueuedCanRun'
      BY <1>0, <2>1, <2>2 DEF QueuedCanRun
    <2> QED BY <2>3, <2>4
  <1>4. ASSUME NEW w \in Worker, Claim(w) PROVE AttemptsGranted' /\ QueuedCanRun'
    <2>1. PICK t \in Task, n \in Attempt, r \in {"local", "cloud"} : ClaimEffect(t, n, r)
      BY <1>4, ClaimFacts
    <2> QED BY <1>0, <2>1 DEF ClaimEffect, Claimable, AttemptsGranted, QueuedCanRun, Attempt
  <1>5. ASSUME NEW w \in Worker, Finish(w) PROVE AttemptsGranted' /\ QueuedCanRun'
    <2>1. PICK t \in Task, n \in Attempt, v \in {"succeeded", "failed", "cancelled"} :
             FinishEffect(t, n, v)
      BY <1>5, FinishFacts
    <2> QED BY <1>0, <2>1 DEF FinishEffect, Retryable, AttemptsGranted, QueuedCanRun
  <1>6. CASE RowsCancelled
    BY <1>0, <1>6 DEF RowsCancelled, CancelRows, AttemptsGranted, QueuedCanRun
  <1>7. CASE Recover
    <2>1. UNCHANGED <<attempts, limit, grants>>
      BY <1>7 DEF Recover
    <2>2. \A u \in Task : tstatus'[u] = "pending" => attempts[u] < limit[u]
      BY <1>0, <1>7 DEF Recover, Lost, Retryable, RowInv, RunOwnership, QueuedCanRun
    <2> QED BY <2>1, <2>2 DEF AttemptsGranted, QueuedCanRun
  <1> QED BY <1>1, <1>2, <1>3, <1>4, <1>5, <1>6, <1>7, StepKinds

SafetyInv ==
    DependencyOrder /\ CloudNeverRetried /\ CancelledIsQuiet /\ AttemptsGranted /\ QueuedCanRun

(* The inductive invariant: none of the properties is inductive without the *)
(* types of what the calls hold and the agreement of the two tables.        *)
IInv == TypeInv /\ RowInv /\ SafetyInv

(* A fresh session satisfies the safety invariants.                         *)
LEMMA InitSafetyInv == Init => SafetyInv
  <1> SUFFICES ASSUME Init PROVE SafetyInv
    OBVIOUS
  <1>1. \A t \in Task : InitLimit[t] \in Nat
    BY LimitAssumption DEF Attempt
  <1> QED BY <1>1 DEF Init, SafetyInv, DependencyOrder, CloudNeverRetried, CancelledIsQuiet,
                      AttemptsGranted, QueuedCanRun, Running, NoRun

(* Types, table agreement and the safety invariants hold together in every *)
(* reachable state: none of the safety invariants is inductive alone.      *)
THEOREM Invariance == Spec => []IInv
  <1>1. Init => IInv
    BY InitTypeInv, InitRowInv, InitSafetyInv DEF IInv
  <1>2. IInv /\ [Next]_vars => IInv'
    BY NextTypeInv, NextRowInv, NextDependencyOrder, NextCloudNeverRetried,
       NextCancelledIsQuiet, NextLimits DEF IInv, SafetyInv
  <1> QED BY <1>1, <1>2, PTL DEF Spec

----------------------------------------------------------------------------
(* The properties, one theorem each. *)

(* Every variable keeps its type: in particular no attempt number exceeds   *)
(* the bound on granted attempts.                                           *)
THEOREM TypeSafety == Spec => []TypeOK
  BY Invariance, PTL DEF IInv, TypeInv

(* Nothing runs before its dependencies, through any retry or restart.      *)
THEOREM DependenciesFirst == Spec => []DependencyOrder
  BY Invariance, PTL DEF IInv, SafetyInv

(* No paid attempt is followed by another one.                              *)
THEOREM PaidOnce == Spec => []CloudNeverRetried
  BY Invariance, PTL DEF IInv, SafetyInv

(* A cancelled session is quiet, a cancelling one is waiting for something. *)
THEOREM CancellationSound == Spec => []CancelledIsQuiet
  BY Invariance, PTL DEF IInv, SafetyInv

(* Attempts are configured or granted.                                      *)
THEOREM RetriesBounded == Spec => []AttemptsGranted
  BY Invariance, PTL DEF IInv, SafetyInv

(* No queued row is out of attempts, whether it was created, failed, was    *)
(* interrupted by a crash or retried by the operator.                       *)
THEOREM QueuedRowsCanRun == Spec => []QueuedCanRun
  BY Invariance, PTL DEF IInv, SafetyInv

(* No step rewrites what ended.                                             *)
THEOREM HistoryFinal == Spec => HistoryIsFinal
  <1> DEFINE Kept == /\ \A r \in Task \X Attempt : run[r].status \in TerminalRun => run'[r] = run[r]
                     /\ \A t \in Task : /\ tstatus[t] = "succeeded" => tstatus'[t] = "succeeded"
                                        /\ attempts'[t] >= attempts[t]
  <1>1. ASSUME TypeInv, RowInv, [Next]_vars PROVE Kept
    <2>0. /\ tstatus \in [Task -> TaskStatus] /\ attempts \in [Task -> 0..AttemptCap]
          /\ active \in [Task -> 0..AttemptCap] /\ run \in [Task \X Attempt -> RunRow]
      BY <1>1 DEF TypeInv, TypeOK
    <2>1. CASE RowsKept
      BY <2>0, <2>1 DEF RowsKept
    <2>2. ASSUME NEW t \in Task, RowAdded(t) PROVE Kept
      BY <2>0, <2>2 DEF RowAdded
    <2>3. ASSUME NEW t \in Task, Retry(t) PROVE Kept
      BY <2>0, <2>3 DEF Retry
    <2>4. ASSUME NEW w \in Worker, Claim(w) PROVE Kept
      <3>1. PICK t \in Task, n \in Attempt, r \in {"local", "cloud"} : ClaimEffect(t, n, r)
        BY <1>1, <2>4, ClaimFacts
      <3>2. run[<<t, n>>].status = "none"
        BY <1>1, <2>0, <3>1 DEF ClaimEffect, RowInv, Attempt
      <3> QED BY <2>0, <3>1, <3>2 DEF ClaimEffect, Claimable, TerminalRun
    <2>5. ASSUME NEW w \in Worker, Finish(w) PROVE Kept
      <3>1. PICK t \in Task, n \in Attempt, v \in {"succeeded", "failed", "cancelled"} :
               FinishEffect(t, n, v)
        BY <1>1, <2>5, FinishFacts
      <3> QED BY <2>0, <3>1 DEF FinishEffect, TerminalRun
    <2>6. CASE RowsCancelled
      BY <2>0, <2>6 DEF RowsCancelled, CancelRows
    <2>7. CASE Recover
      BY <1>1, <2>0, <2>7 DEF Recover, Lost, RowInv, RunOwnership, TerminalRun, Attempt
    <2> QED BY <1>1, <2>1, <2>2, <2>3, <2>4, <2>5, <2>6, <2>7, StepKinds
  <1>2. IInv /\ [Next]_vars => [Kept]_vars
    BY <1>1 DEF IInv
  <1> QED BY <1>2, Invariance, PTL DEF Spec, HistoryIsFinal

----------------------------------------------------------------------------
(* A call that executes a task owns it. *)

Busy == {"executing", "judging", "finishing"}
OwnInv == CallOwnsRun /\ (~up => \A w \in Worker : pc[w] = "idle")

(* A call that does not touch the tables keeps every claim as it is.        *)
LEMMA CallStepOwnInv ==
  ASSUME TypeInv, OwnInv, NEW w \in Worker, CallStep(w)
  PROVE  OwnInv'
  <1>1. run' = run /\ up' = up /\ up
    BY DEF CallStep, Begin, BeginPlan, PlanReturn, Answer, ApproveRecord, DenyRecord, ListTasks,
           PlanDone, Choose, Idle, CompleteSession, ClaimRefused, Execute, Judge, Record,
           LockTimeout, At, rowVars
  <1>2. \A v \in Worker \ {w} : pc'[v] = pc[v] /\ job'[v] = job[v]
    BY DEF CallStep, Begin, BeginPlan, PlanReturn, Answer, ApproveRecord, DenyRecord, ListTasks,
           PlanDone, Choose, Idle, CompleteSession, ClaimRefused, Execute, Judge, Record,
           LockTimeout, Goto, Return, TypeInv, TypeOK
  <1>3. pc'[w] \in Busy => pc[w] \in Busy /\ job'[w] = job[w]
    BY DEF CallStep, Begin, BeginPlan, PlanReturn, Answer, ApproveRecord, DenyRecord, ListTasks,
           PlanDone, Choose, Idle, CompleteSession, ClaimRefused, Execute, Judge, Record,
           LockTimeout, At, Goto, Return, Busy, TypeInv, TypeOK
  <1> QED BY <1>1, <1>2, <1>3 DEF OwnInv, CallOwnsRun, Busy

(* Every step leaves each claimed run with the call that claimed it.        *)
LEMMA NextOwnInv ==
  ASSUME TypeInv, RowInv, OwnInv, [Next]_vars
  PROVE  OwnInv'
  <1>0. /\ run \in [Task \X Attempt -> RunRow] /\ pc \in [Worker -> PC] /\ job \in [Worker -> Job]
    BY DEF TypeInv, TypeOK
  <1>1. CASE UNCHANGED vars
    BY <1>1 DEF vars, OwnInv, CallOwnsRun
  <1>2. ASSUME NEW w \in Worker, CallStep(w) PROVE OwnInv'
    BY <1>2, CallStepOwnInv
  <1>3. ASSUME NEW w \in Worker, PlanStep(w) PROVE OwnInv'
    BY <1>3 DEF PlanStep, Insert, rowVars, OwnInv, CallOwnsRun
  <1>4. ASSUME NEW w \in Worker, DenyCancel(w) PROVE OwnInv'
    BY <1>0, <1>4 DEF DenyCancel, At, Goto, OwnInv, CallOwnsRun
  <1>5. ASSUME NEW t \in Task, CreateTask(t) \/ Retry(t) PROVE OwnInv'
    BY <1>5 DEF CreateTask, Retry, Insert, workerVars, OwnInv, CallOwnsRun
  <1>6. CASE Pause \/ Resume \/ Cancel \/ QuarantineSession \/ RequestLease
    BY <1>6 DEF Pause, Resume, Cancel, QuarantineSession, RequestLease, rowVars, workerVars,
                OwnInv, CallOwnsRun
  <1>7. CASE Crash
    BY <1>7 DEF Crash, OwnInv, CallOwnsRun
  <1>8. CASE Recover
    BY <1>8 DEF Recover, workerVars, OwnInv, CallOwnsRun
  <1>9. ASSUME NEW w \in Worker, Claim(w) PROVE OwnInv'
    <2>1. PICK t \in Task, n \in Attempt, r \in {"local", "cloud"} :
             t = job[w].task /\ ClaimEffect(t, n, r)
      BY <1>9, ClaimFacts
    <2>2. /\ up /\ up' = up /\ pc' = [pc EXCEPT ![w] = "executing"]
          /\ job' = [job EXCEPT ![w].attempt = n]
      BY <1>9, <2>1 DEF Claim, ClaimEffect, Goto, At
    <2>3. job[w] \in [task : Task, attempt : Nat, route : {"local", "cloud"}]
      BY <1>9 DEF Claim, At, TypeInv, JobOK
    <2>4. job'[w].task = t /\ job'[w].attempt = n /\ \A v \in Worker \ {w} : job'[v] = job[v]
      BY <1>0, <2>1, <2>2, <2>3
    <2>5. \A m \in Attempt : run[<<t, m>>].status # "running"
      BY <2>1 DEF ClaimEffect, Claimable, RowInv, RunOwnership
    <2>6. \A v \in Worker \ {w} : pc[v] \in Busy =>
             /\ job[v].task \in Task /\ job[v].attempt \in Attempt
             /\ run[<<job[v].task, job[v].attempt>>].status = "running"
             /\ job[v].task # t
      BY <2>5 DEF Busy, TypeInv, JobOK, OwnInv, CallOwnsRun
    <2>7. run'[<<t, n>>].status = "running"
      BY <1>0, <2>1 DEF ClaimEffect
    <2>8. \A v \in Worker \ {w} : pc'[v] \in Busy =>
             run'[<<job'[v].task, job'[v].attempt>>].status = "running" /\ job'[v].task # t
      BY <1>0, <2>1, <2>2, <2>4, <2>6 DEF ClaimEffect
    <2>9. \A v, x \in Worker \ {w} : v # x /\ pc'[v] \in Busy /\ pc'[x] \in Busy =>
             job'[v].task # job'[x].task
      <3>1. \A v \in Worker \ {w} : pc'[v] = pc[v]
        BY <1>0, <2>2
      <3>2. \A v, x \in Worker : v # x /\ pc[v] \in Busy /\ pc[x] \in Busy => job[v].task # job[x].task
        BY DEF Busy, OwnInv, CallOwnsRun
      <3> QED BY <2>4, <3>1, <3>2
    <2>10. CallOwnsRun'
      <3> SUFFICES ASSUME NEW v \in Worker, pc'[v] \in Busy
                   PROVE  /\ run'[<<job'[v].task, job'[v].attempt>>].status = "running"
                          /\ \A x \in Worker \ {v} : pc'[x] \in Busy => job'[x].task # job'[v].task
        BY DEF CallOwnsRun, Busy
      <3>1. CASE v = w
        BY <2>4, <2>7, <2>8, <3>1
      <3>2. CASE v # w
        BY <2>4, <2>8, <2>9, <3>2
      <3> QED BY <3>1, <3>2
    <2> QED BY <2>2, <2>10 DEF OwnInv
  <1>10. ASSUME NEW w \in Worker, Finish(w) PROVE OwnInv'
    <2>1. PICK t \in Task, n \in Attempt, v \in {"succeeded", "failed", "cancelled"} :
             t = job[w].task /\ FinishEffect(t, n, v)
      BY <1>10, FinishFacts
    <2>2. /\ up /\ up' = up /\ pc[w] \in Busy /\ pc'[w] \notin Busy
          /\ \A x \in Worker \ {w} : pc'[x] = pc[x] /\ job'[x] = job[x]
      BY <1>0, <1>10 DEF Finish, At, Goto, Return, Busy
    <2>3. \A x \in Worker \ {w} : pc[x] \in Busy =>
             /\ job[x].task \in Task /\ job[x].attempt \in Attempt
             /\ run[<<job[x].task, job[x].attempt>>].status = "running"
             /\ job[x].task # t
      BY <2>1, <2>2 DEF Busy, TypeInv, JobOK, OwnInv, CallOwnsRun
    <2>4. \A x \in Worker \ {w} : pc[x] \in Busy =>
             run'[<<job[x].task, job[x].attempt>>].status = "running"
      BY <1>0, <2>1, <2>3 DEF FinishEffect
    <2> QED BY <2>2, <2>4 DEF OwnInv, CallOwnsRun, Busy
  <1> QED BY <1>1, <1>2, <1>3, <1>4, <1>5, <1>6, <1>7, <1>8, <1>9, <1>10
          DEF Next, Step, Founder, CallStep

(* Between claim and finish a call owns its task's run, and no two calls    *)
(* execute one task.                                                        *)
THEOREM CallsAreExclusive == Spec => []CallOwnsRun
  <1>1. Init => OwnInv
    BY DEF Init, OwnInv, CallOwnsRun
  <1>2. IInv /\ OwnInv /\ [Next]_vars => OwnInv'
    BY NextOwnInv DEF IInv
  <1>3. OwnInv => CallOwnsRun
    BY DEF OwnInv
  <1> QED BY <1>1, <1>2, <1>3, Invariance, PTL DEF Spec
----------------------------------------------------------------------------
(* The ledger keeps what TaskRecord promises. *)

StageOf == [t \in Task |-> Stage(tstatus[t])]
PaidFor == [t \in Task |-> \E n \in Attempt : run[<<t, n>>].backend = "cloud"]

(* The promise is about these rows only.                                    *)
LEMMA SamePromise ==
  ASSUME UNCHANGED <<StageOf, PaidFor, attempts, limit>>
  PROVE  UNCHANGED Promise!vars
  BY DEF Promise!vars, StageOf, PaidFor

(* Ending a run changes no backend.                                         *)
LEMMA EndKeepsPaid ==
  ASSUME \A u \in Task, m \in Attempt : run'[<<u, m>>].backend = run[<<u, m>>].backend
  PROVE  PaidFor' = PaidFor
  BY DEF PaidFor

(* A row that is added waits behind rows that are there.                    *)
LEMMA AddRefines ==
  ASSUME TypeInv, NEW t \in Task, RowAdded(t)
  PROVE  Promise!Add(t)
  <1>0. tstatus \in [Task -> TaskStatus] /\ Deps[t] \subseteq Task
    BY TaskAssumption DEF TypeInv, TypeOK
  <1>1. StageOf[t] = "absent" /\ \A d \in Deps[t] : StageOf[d] # "absent"
    BY <1>0 DEF RowAdded, StageOf, Stage
  <1>2. StageOf' = [StageOf EXCEPT ![t] = "queued"]
    BY <1>0 DEF RowAdded, StageOf, Stage
  <1>3. UNCHANGED <<PaidFor, attempts, limit>>
    BY DEF RowAdded, PaidFor
  <1> QED BY <1>1, <1>2, <1>3 DEF Promise!Add, StageOf, PaidFor

(* A claim starts a task that waits, is unpaid and has an attempt left.     *)
LEMMA ClaimRefines ==
  ASSUME IInv, NEW w \in Worker, Claim(w)
  PROVE  \E t \in Task : Promise!Start(t, TRUE) \/ Promise!Start(t, FALSE)
  <1>0. /\ tstatus \in [Task -> TaskStatus] /\ attempts \in [Task -> 0..AttemptCap]
        /\ run \in [Task \X Attempt -> RunRow]
    BY DEF IInv, TypeInv, TypeOK
  <1>1. PICK t \in Task, n \in Attempt, r \in {"local", "cloud"} : ClaimEffect(t, n, r)
    BY ClaimFacts DEF IInv
  <1>2. /\ StageOf[t] = "queued" /\ attempts[t] < limit[t]
        /\ \A d \in Deps[t] : StageOf[d] = "succeeded"
    BY <1>1, TaskAssumption DEF ClaimEffect, Claimable, DepsDone, StageOf, Stage
  <1>3. \A m \in Attempt : run[<<t, m>>].backend # "cloud"
    BY <1>1 DEF ClaimEffect, Claimable, IInv, SafetyInv, CloudNeverRetried
  <1>4. ~PaidFor[t]
    BY <1>3 DEF PaidFor
  <1>5. StageOf' = [StageOf EXCEPT ![t] = "executing"]
    BY <1>0, <1>1 DEF ClaimEffect, StageOf, Stage
  <1>6. /\ attempts' = [attempts EXCEPT ![t] = attempts[t] + 1]
        /\ UNCHANGED limit
    BY <1>1 DEF ClaimEffect
  <1>7. \A u \in Task, m \in Attempt :
           run'[<<u, m>>] = IF u = t /\ m = n THEN [status |-> "running", backend |-> r]
                            ELSE run[<<u, m>>]
    BY <1>0, <1>1 DEF ClaimEffect
  <1>8. /\ (\E m \in Attempt : run'[<<t, m>>].backend = "cloud") <=> r = "cloud"
        /\ \A u \in Task \ {t} : (\E m \in Attempt : run'[<<u, m>>].backend = "cloud")
                                <=> (\E m \in Attempt : run[<<u, m>>].backend = "cloud")
    <2>1. /\ run'[<<t, n>>].backend = r
          /\ \A m \in Attempt : m # n => run'[<<t, m>>].backend # "cloud"
          /\ \A u \in Task \ {t}, m \in Attempt : run'[<<u, m>>] = run[<<u, m>>]
      BY <1>3, <1>7
    <2>2. (\E m \in Attempt : run'[<<t, m>>].backend = "cloud") <=> r = "cloud"
      BY <2>1
    <2> QED BY <2>1, <2>2
  <1>9. CASE r = "cloud"
    <2>1. PaidFor' = [PaidFor EXCEPT ![t] = TRUE]
      BY <1>8, <1>9 DEF PaidFor
    <2> QED BY <1>2, <1>4, <1>5, <1>6, <2>1 DEF Promise!Start, StageOf, PaidFor
  <1>10. CASE r = "local"
    <2>1. PaidFor' = [PaidFor EXCEPT ![t] = FALSE]
      BY <1>8, <1>10 DEF PaidFor
    <2> QED BY <1>2, <1>4, <1>5, <1>6, <2>1 DEF Promise!Start, StageOf, PaidFor
  <1> QED BY <1>9, <1>10

(* A task that ends or is given back ends as promised.                      *)
LEMMA EndRefines ==
  ASSUME UNCHANGED <<PaidFor, attempts, limit>>,
         \A t \in Task : \/ StageOf'[t] = StageOf[t]
                         \/ /\ StageOf[t] = "executing"
                            /\ \/ StageOf'[t] \in {"succeeded", "failed", "cancelled"}
                               \/ /\ StageOf'[t] = "queued"
                                  /\ ~PaidFor[t] /\ attempts[t] < limit[t]
  PROVE  Promise!End
  <1>1. StageOf' = [t \in Task |-> StageOf'[t]]
    BY DEF StageOf
  <1> QED BY <1>1 DEF Promise!End, Promise!Outcome, StageOf, PaidFor

(* finish_task_run ends the run of the task that executes.                  *)
LEMMA FinishRefines ==
  ASSUME IInv, NEW w \in Worker, Finish(w)
  PROVE  Promise!End
  <1>0. /\ tstatus \in [Task -> TaskStatus] /\ run \in [Task \X Attempt -> RunRow]
    BY DEF IInv, TypeInv, TypeOK
  <1>1. PICK t \in Task, n \in Attempt, v \in {"succeeded", "failed", "cancelled"} :
           FinishEffect(t, n, v)
    BY FinishFacts DEF IInv
  <1>2. \A u \in Task, m \in Attempt : run'[<<u, m>>].backend = run[<<u, m>>].backend
    <2>1. run'[<<t, n>>] = [run[<<t, n>>] EXCEPT !.status = v] /\ run[<<t, n>>] \in RunRow
      BY <1>0, <1>1 DEF FinishEffect
    <2>2. \A u \in Task, m \in Attempt : u # t \/ m # n => run'[<<u, m>>] = run[<<u, m>>]
      BY <1>0, <1>1 DEF FinishEffect
    <2> QED BY <2>1, <2>2 DEF RunRow
  <1>3. UNCHANGED <<PaidFor, attempts, limit>>
    BY <1>1, <1>2, EndKeepsPaid DEF FinishEffect
  <1>4. Retryable(t, n) => ~PaidFor[t] /\ attempts[t] < limit[t]
    <2>1. \A m \in Attempt : run[<<t, m>>].backend = "cloud" => m = n
      BY <1>1 DEF FinishEffect, IInv, SafetyInv, CloudNeverRetried
    <2> QED BY <1>1, <2>1 DEF Retryable, FinishEffect, PaidFor
  <1>5. /\ StageOf[t] = "executing"
        /\ \/ StageOf'[t] = v
           \/ Retryable(t, n) /\ StageOf'[t] = "queued"
        /\ \A u \in Task \ {t} : StageOf'[u] = StageOf[u]
    BY <1>0, <1>1 DEF FinishEffect, StageOf, Stage
  <1> QED BY <1>3, <1>4, <1>5, EndRefines

(* The recovery ends the runs a dead process left, as one step.             *)
LEMMA RecoverRefines ==
  ASSUME IInv, Recover
  PROVE  Promise!End
  <1>0. /\ tstatus \in [Task -> TaskStatus] /\ active \in [Task -> 0..AttemptCap]
        /\ run \in [Task \X Attempt -> RunRow]
    BY DEF IInv, TypeInv, TypeOK
  <1>1. \A u \in Task, m \in Attempt : run'[<<u, m>>].backend = run[<<u, m>>].backend
    BY <1>0 DEF Recover, RunRow
  <1>2. UNCHANGED <<PaidFor, attempts, limit>>
    BY <1>1, EndKeepsPaid DEF Recover
  <1>3. ASSUME NEW t \in Task, active[t] # 0, <<t, active[t]>> \in Lost
        PROVE  /\ tstatus[t] = "running" /\ attempts[t] = active[t]
               /\ Retryable(t, active[t]) => ~PaidFor[t] /\ attempts[t] < limit[t]
    <2>1. active[t] \in Attempt /\ run[<<t, active[t]>>].status = "running"
      BY <1>0, <1>3 DEF Lost
    <2>2. tstatus[t] = "running" /\ attempts[t] = active[t]
      BY <2>1 DEF IInv, RowInv, RunOwnership
    <2> QED BY <2>1, <2>2 DEF Retryable, PaidFor, IInv, SafetyInv, CloudNeverRetried
  <1>4. ASSUME NEW t \in Task
        PROVE  \/ StageOf'[t] = StageOf[t]
               \/ /\ StageOf[t] = "executing"
                  /\ \/ StageOf'[t] \in {"succeeded", "failed", "cancelled"}
                     \/ /\ StageOf'[t] = "queued"
                        /\ ~PaidFor[t] /\ attempts[t] < limit[t]
    <2>1. tstatus'[t] = IF active[t] # 0 /\ <<t, active[t]>> \in Lost
                        THEN IF Retryable(t, active[t]) THEN "pending" ELSE "failed"
                        ELSE tstatus[t]
      BY DEF Recover
    <2> QED BY <1>3, <2>1 DEF StageOf, Stage
  <1> QED BY <1>2, <1>4, EndRefines

(* A cancellation takes the rows that wait.                                 *)
LEMMA CancelRefines ==
  ASSUME TypeInv, RowsCancelled
  PROVE  Promise!Withdraw
  <1>0. tstatus \in [Task -> TaskStatus]
    BY DEF TypeInv, TypeOK
  <1>1. StageOf' = [t \in Task |-> IF StageOf[t] = "queued" THEN "cancelled" ELSE StageOf[t]]
    BY <1>0 DEF RowsCancelled, CancelRows, StageOf, Stage, TaskStatus, TerminalRun
  <1>2. UNCHANGED <<PaidFor, attempts, limit>>
    BY DEF RowsCancelled, PaidFor
  <1> QED BY <1>1, <1>2 DEF Promise!Withdraw, StageOf, PaidFor

(* An operator's retry is a grant: the row ended badly and was never paid.  *)
LEMMA RetryRefines ==
  ASSUME IInv, NEW t \in Task, Retry(t)
  PROVE  Promise!Grant(t)
  <1>0. /\ tstatus \in [Task -> TaskStatus] /\ limit \in [Task -> Attempt]
        /\ attempts \in [Task -> 0..AttemptCap]
    BY DEF IInv, TypeInv, TypeOK
  <1>1. StageOf[t] = "failed" /\ StageOf' = [StageOf EXCEPT ![t] = "queued"]
    BY <1>0 DEF Retry, StageOf, Stage
  <1>2. ~PaidFor[t]
    BY DEF Retry, PaidFor, IInv, SafetyInv, CloudNeverRetried
  <1>3. limit' = [limit EXCEPT ![t] = IF attempts[t] < limit[t] THEN limit[t] ELSE attempts[t] + 1]
    BY <1>0 DEF Retry, NextLimit, Attempt
  <1>4. UNCHANGED <<PaidFor, attempts>>
    BY DEF Retry, PaidFor
  <1> QED BY <1>1, <1>2, <1>3, <1>4 DEF Promise!Grant, StageOf, PaidFor

(* The ledger implements the task record: whatever callers, founder,        *)
(* operator, crash and recovery do, a task is started behind what it        *)
(* depends on and while attempts are left, ends once per start, and is not  *)
(* started again once it was paid for or has succeeded.                     *)
THEOREM LedgerKeepsPromise == Spec => RefinesTasks
  <1>1. Init => Promise!Init
    <2> SUFFICES ASSUME Init PROVE Promise!Init
      OBVIOUS
    <2>1. StageOf = [t \in Task |-> "absent"] /\ PaidFor = [t \in Task |-> FALSE]
      BY DEF Init, StageOf, Stage, PaidFor, NoRun
    <2> QED BY <2>1 DEF Init, Promise!Init, StageOf, PaidFor
  <1>2. IInv /\ [Next]_vars => [Promise!Next]_(Promise!vars)
    <2> SUFFICES ASSUME IInv, [Next]_vars PROVE Promise!Next \/ UNCHANGED Promise!vars
      OBVIOUS
    <2>1. CASE RowsKept
      BY <2>1, SamePromise DEF RowsKept, StageOf, PaidFor
    <2>2. ASSUME NEW t \in Task, RowAdded(t) PROVE Promise!Next
      BY <2>2, AddRefines DEF IInv, Promise!Next
    <2>3. ASSUME NEW t \in Task, Retry(t) PROVE Promise!Next
      BY <2>3, RetryRefines DEF Promise!Next
    <2>4. ASSUME NEW w \in Worker, Claim(w) PROVE Promise!Next
      BY <2>4, ClaimRefines DEF Promise!Next
    <2>5. ASSUME NEW w \in Worker, Finish(w) PROVE Promise!Next
      BY <2>5, FinishRefines DEF Promise!Next
    <2>6. CASE RowsCancelled
      BY <2>6, CancelRefines DEF IInv, Promise!Next
    <2>7. CASE Recover
      BY <2>7, RecoverRefines DEF Promise!Next
    <2> QED BY <2>1, <2>2, <2>3, <2>4, <2>5, <2>6, <2>7, StepKinds DEF IInv
  <1> QED BY <1>1, <1>2, Invariance, PTL DEF Spec, RefinesTasks, Promise!Spec
=============================================================================
