---------------------------- MODULE BuildSession ----------------------------
(***************************************************************************)
(* The durable task lifecycle of one build session: the rows of            *)
(* build_sessions, build_tasks and build_task_runs (BuildStore), the       *)
(* processes that walk them (BuildOrchestrator.run_next, called by the     *)
(* background worker and by foreground requests), the founder's requests   *)
(* (BuildService), and the loss and recovery of the kernel process.        *)
(*                                                                         *)
(* Every BuildStore method is one SQLite transaction, so it is one step    *)
(* here; run_next is a sequence of such transactions with anything in      *)
(* between, so it is a sequence of steps of a worker.                      *)
(***************************************************************************)
EXTENDS Naturals, FiniteSets, Sequences

CONSTANTS
    Task,         \* the task rows the session may come to hold
    Plan,         \* the planner's lifecycle chain, a sequence of tasks
    Deps,         \* Deps[t]: the dependency ids a row is created with
    Rank,         \* Rank[t]: index of the row's phase in BUILD_PHASES
    Route,        \* Route[t]: the declared route, "local" or "adaptive"
    Checkpoint,   \* rows of kind checkpoint, whose dispatch cannot fail
    Completing,   \* rows of phase "complete"
    InitLimit,    \* InitLimit[t]: max_attempts at creation
    AttemptCap,   \* bound: no row is granted more attempts than this
    Worker,       \* concurrent callers: the background worker, requests
    LockTimeouts  \* may a call lose its wait for the database write lock?

Attempt == 1..AttemptCap
Planned == {Plan[i] : i \in DOMAIN Plan}

ASSUME PlanAssumption ==
    /\ Plan \in Seq(Task) \ {<<>>}
    /\ \A i, j \in DOMAIN Plan : Plan[i] = Plan[j] => i = j
ASSUME TaskAssumption ==
    /\ Deps \in [Task -> SUBSET Task]
    /\ Rank \in [Task -> Nat]
    /\ Route \in [Task -> {"local", "adaptive"}]
    /\ Checkpoint \subseteq Task
    /\ Completing \subseteq Task
    /\ IsFiniteSet(Task)
ASSUME LimitAssumption ==
    /\ AttemptCap \in Nat \ {0}
    /\ InitLimit \in [Task -> Attempt]
    /\ LockTimeouts \in BOOLEAN

VARIABLES
    status,       \* build_sessions.status
    checkpoint,   \* the audit entries in build_sessions.checkpoint_json
    tstatus,      \* build_tasks.status, "absent" before the row exists
    position,     \* build_tasks.position, 0 before the row exists
    attempts,     \* build_tasks.attempt_count
    limit,        \* build_tasks.max_attempts
    active,       \* attempt number of build_tasks.active_run_id, 0 for NULL
    run,          \* build_task_runs, one row per task and attempt_number
    ask,          \* a lease approval of the session is pending
    grants,       \* history: operator retries granted per task
    up,           \* the kernel process is alive
    pc,           \* where each call is
    job,          \* the task, attempt and route it works on
    snap,         \* the checkpoint it read when it began
    seen,         \* what its task list showed: "failed", "done" or "open"
    cursor,       \* the next link of Plan it will create
    verdict       \* outcome of its dispatch

rowVars == <<tstatus, position, attempts, limit, active, run>>
sessionVars == <<status, checkpoint, ask>>
workerVars == <<pc, job, snap, seen, cursor, verdict>>
vars == <<status, checkpoint, tstatus, position, attempts, limit, active, run,
          ask, grants, up, pc, job, snap, seen, cursor, verdict>>

----------------------------------------------------------------------------
SessionStatus ==
    {"active", "paused", "cancelling", "cancelled", "quarantined", "complete"}
TerminalRun == {"succeeded", "failed", "cancelled", "interrupted"}
TaskStatus == {"absent", "pending", "running", "blocked"} \cup TerminalRun
NoRun == [status |-> "none", backend |-> "none"]
RunRow == [status : {"none", "running"} \cup TerminalRun,
           backend : {"none", "local", "cloud"}]
RetryNote == [note : {"retry"}, task : Task, attempt : Attempt]
Quarantine == [note |-> "quarantine"]
AllSucceeded == [note |-> "all_tasks_succeeded"]
Denied == [note |-> "denied"]
Note == RetryNote \cup {Quarantine, AllSucceeded, Denied}
NoJob == [task |-> "none", attempt |-> 0, route |-> "none"]
PlanJob == [task |-> "none", attempt |-> 0, route |-> "plan"]
Job == {NoJob, PlanJob} \cup [task : Task, attempt : Nat, route : {"local", "cloud"}]
PC == {"idle", "listing", "planning", "choosing", "idling", "completing",
       "claiming", "executing", "judging", "finishing", "recording",
       "approving", "denying", "denied"}

TypeOK ==
    /\ status \in SessionStatus
    /\ checkpoint \subseteq Note
    /\ tstatus \in [Task -> TaskStatus]
    /\ position \in [Task -> Nat]
    /\ attempts \in [Task -> 0..AttemptCap]
    /\ limit \in [Task -> Attempt]
    /\ active \in [Task -> 0..AttemptCap]
    /\ run \in [Task \X Attempt -> RunRow]
    /\ ask \in BOOLEAN
    /\ grants \in [Task -> Nat]
    /\ up \in BOOLEAN
    /\ pc \in [Worker -> PC]
    /\ job \in [Worker -> Job]
    /\ snap \in [Worker -> SUBSET Note]
    /\ seen \in [Worker -> {"failed", "done", "open"}]
    /\ cursor \in [Worker -> Nat]
    /\ verdict \in [Worker -> {"none", "ok", "failed"} \cup TerminalRun]

(* create_session: an active session with no task and an empty checkpoint. *)
(* prepare goes on to plan it and to ask for a lease.                      *)
Init ==
    /\ status = "active"
    /\ checkpoint = {}
    /\ tstatus = [t \in Task |-> "absent"]
    /\ position = [t \in Task |-> 0]
    /\ attempts = [t \in Task |-> 0]
    /\ limit = InitLimit
    /\ active = [t \in Task |-> 0]
    /\ run = [r \in Task \X Attempt |-> NoRun]
    /\ ask = FALSE
    /\ grants = [t \in Task |-> 0]
    /\ up = TRUE
    /\ pc = [w \in Worker |-> "idle"]
    /\ job = [w \in Worker |-> NoJob]
    /\ snap = [w \in Worker |-> {}]
    /\ seen = [w \in Worker |-> "open"]
    /\ cursor = [w \in Worker |-> 1]
    /\ verdict = [w \in Worker |-> "none"]

----------------------------------------------------------------------------
(* What the store's queries return. *)

Rows == {t \in Task : tstatus[t] # "absent"}
Running == {t \in Task : tstatus[t] = "running"}
DepsEnded(t) == \A d \in Deps[t] : tstatus[d] \notin {"pending", "running"}
DepsDone(t) == \A d \in Deps[t] : tstatus[d] = "succeeded"
Ready == {t \in Task : tstatus[t] = "pending" /\ DepsDone(t)}
Before(t, u) == \/ Rank[t] < Rank[u]
                \/ Rank[t] = Rank[u] /\ position[t] <= position[u]

(* What run_next later asks of the task list it read. *)
Summary(S) ==
    IF \E t \in S : tstatus[t] = "failed" THEN "failed"
    ELSE IF \A t \in S : tstatus[t] = "succeeded" THEN "done"
    ELSE "open"

RetryableAnywhere(t, n) == n < limit[t]
RetryableOnceMore(t, n) == run[<<t, n>>].backend # "cloud" /\ n <= limit[t]

(* A local run that ended badly goes back to the queue while it has        *)
(* attempts left; a cloud run never does.                                  *)
Retryable(t, n) ==
    /\ run[<<t, n>>].backend # "cloud"
    /\ n < limit[t]

NextLimitTwice(t) == IF limit[t] > attempts[t] THEN limit[t] ELSE attempts[t] + 2

(* What an operator's retry raises max_attempts to. *)
NextLimit(t) == IF limit[t] > attempts[t] THEN limit[t] ELSE attempts[t] + 1

(* The runs a restart finds without their process. *)
LostLocal == {r \in Task \X Attempt : run[r].status = "running" /\ run[r].backend # "cloud"}
LostEver == {r \in Task \X Attempt : run[r].status # "none"}
Lost == {r \in Task \X Attempt : run[r].status = "running"}

(* _finalize_cancellation, on the statuses a transaction is about to write *)
NeverFinalized(s, tasks) == s
Finalized(s, tasks) ==
    IF s = "cancelling" /\ \A t \in Task : tasks[t] # "running"
    THEN "cancelled" ELSE s

(* create_task: the row is appended behind every existing position. *)
Insert(t) ==
    /\ Deps[t] \subseteq Rows
    /\ tstatus' = [tstatus EXCEPT ![t] = "pending"]
    /\ position' = [position EXCEPT ![t] = Cardinality(Rows) + 1]
    /\ UNCHANGED <<attempts, limit, active, run>>

(* A call that returns leaves no local state behind. *)
Return(w) ==
    /\ pc' = [pc EXCEPT ![w] = "idle"]
    /\ job' = [job EXCEPT ![w] = NoJob]
    /\ snap' = [snap EXCEPT ![w] = {}]
    /\ seen' = [seen EXCEPT ![w] = "open"]
    /\ cursor' = [cursor EXCEPT ![w] = 1]
    /\ verdict' = [verdict EXCEPT ![w] = "none"]

(* store.checkpoint writes whatever the caller holds: the column is        *)
(* replaced, and phase "complete" completes the session, unconditionally.  *)
WriteCheckpoint(w, notes, s) ==
    /\ checkpoint' = snap[w] \cup notes
    /\ status' = s

CancelAllRows ==
    /\ status' = IF Running = {} THEN "cancelled" ELSE "cancelling"
    /\ tstatus' = [t \in Task |->
           IF tstatus[t] \in {"pending", "running"} THEN "cancelled" ELSE tstatus[t]]

(* cancel_session: queued rows are cancelled at once, a running one is     *)
(* waited for.                                                             *)
CancelRows ==
    /\ status' = IF Running = {} THEN "cancelled" ELSE "cancelling"
    /\ tstatus' = [t \in Task |->
           IF tstatus[t] \in {"pending", "blocked"} THEN "cancelled" ELSE tstatus[t]]

Goto(w, label) == up /\ pc' = [pc EXCEPT ![w] = label]
At(w, label) == up /\ pc[w] = label

----------------------------------------------------------------------------
(* run_next, transaction by transaction. *)

(* get_session: only an active session is worked on; its checkpoint is     *)
(* kept for the write at the end.                                          *)
Begin(w) ==
    /\ At(w, "idle")
    /\ status = "active"
    /\ Goto(w, "listing")
    /\ snap' = [snap EXCEPT ![w] = checkpoint]
    /\ UNCHANGED <<sessionVars, rowVars, grants, up, job, seen, cursor, verdict>>

(* POST /plan and prepare call ensure_plan alone, whatever the status is. *)
BeginPlan(w) ==
    /\ At(w, "idle")
    /\ Goto(w, "listing")
    /\ job' = [job EXCEPT ![w] = PlanJob]
    /\ UNCHANGED <<sessionVars, rowVars, grants, up, snap, seen, cursor, verdict>>

PlanReturn(w) ==
    /\ At(w, "choosing")
    /\ job[w] = PlanJob
    /\ Return(w)
    /\ UNCHANGED <<sessionVars, rowVars, grants, up>>

(* ensure_plan: an existing task list is taken as it is. *)
ListTasks(w) ==
    /\ At(w, "listing")
    /\ IF Rows # {}
       THEN Goto(w, "choosing") /\ seen' = [seen EXCEPT ![w] = Summary(Rows)]
       ELSE Goto(w, "planning") /\ seen' = [seen EXCEPT ![w] = "done"]
    /\ UNCHANGED <<sessionVars, rowVars, grants, up, job, snap, cursor, verdict>>

(* BuildPlanner.plan: one create_task per link. The idempotency key makes  *)
(* a second planner find the row that is already there.                    *)
PlanStep(w) ==
    LET t == Plan[cursor[w]] IN
    /\ At(w, "planning")
    /\ cursor[w] \in DOMAIN Plan
    /\ \/ t \in Rows /\ UNCHANGED rowVars
       \/ t \notin Rows /\ Insert(t)
    /\ seen' = [seen EXCEPT ![w] =
                   IF "failed" \in {seen[w], tstatus[t]} THEN "failed"
                   ELSE IF tstatus[t] = "succeeded" THEN seen[w] ELSE "open"]
    /\ cursor' = [cursor EXCEPT ![w] = cursor[w] + 1]
    /\ UNCHANGED <<sessionVars, grants, up, pc, job, snap, verdict>>

PlanDone(w) ==
    /\ At(w, "planning")
    /\ cursor[w] \notin DOMAIN Plan
    /\ Goto(w, "choosing")
    /\ UNCHANGED <<sessionVars, rowVars, grants, up, job, snap, seen, cursor, verdict>>

(* ready_tasks and _route_task: the first ready row by phase and position, *)
(* and where it may run. An adaptive task goes to the cloud under an open  *)
(* lease, or runs locally; with a lease that cannot be used it waits for   *)
(* the founder and the call returns "blocked".                             *)
Choose(w) ==
    /\ At(w, "choosing")
    /\ job[w] # PlanJob
    /\ IF status # "active" \/ Ready = {}
       THEN /\ Goto(w, "idling")
            /\ UNCHANGED <<sessionVars, rowVars, grants, up, job, snap, seen, cursor, verdict>>
       ELSE \E t \in Ready :
            /\ \A u \in Ready : Before(t, u)
            /\ \/ \E r \in IF Route[t] = "local" THEN {"local"} ELSE {"local", "cloud"} :
                    /\ Goto(w, "claiming")
                    /\ job' = [job EXCEPT ![w] = [task |-> t, attempt |-> 0, route |-> r]]
                    /\ UNCHANGED <<snap, seen, cursor, verdict>>
               \/ Route[t] = "adaptive" /\ Return(w)
            /\ UNCHANGED <<sessionVars, rowVars, grants, up>>

(* _idle_result: nothing is ready. A list with no unfinished task closes   *)
(* the session, in a further transaction and from a fresh checkpoint.      *)
Idle(w) ==
    /\ At(w, "idling")
    /\ IF status = "active" /\ seen[w] = "done"
       THEN /\ Goto(w, "completing")
            /\ snap' = [snap EXCEPT ![w] = checkpoint]
            /\ UNCHANGED <<job, seen, cursor, verdict>>
       ELSE Return(w)
    /\ UNCHANGED <<sessionVars, rowVars, grants, up>>

CompleteSession(w) ==
    /\ At(w, "completing")
    /\ WriteCheckpoint(w, {AllSucceeded}, "complete")
    /\ Return(w)
    /\ UNCHANGED <<ask, rowVars, grants, up>>

ClaimableTwice(t) ==
    /\ tstatus[t] \in {"pending", "running"}
    /\ status = "active"
    /\ DepsDone(t)
    /\ attempts[t] < limit[t]

Claimable(t) ==
    /\ tstatus[t] = "pending"
    /\ status = "active"
    /\ DepsDone(t)
    /\ attempts[t] < limit[t]

(* claim_task: everything the choice rested on is checked again. *)
Claim(w) ==
    LET t == job[w].task IN
    /\ At(w, "claiming")
    /\ Claimable(t)
    /\ LET n == attempts[t] + 1 IN
       /\ run' = [run EXCEPT ![<<t, n>>] = [status |-> "running", backend |-> job[w].route]]
       /\ tstatus' = [tstatus EXCEPT ![t] = "running"]
       /\ attempts' = [attempts EXCEPT ![t] = n]
       /\ active' = [active EXCEPT ![t] = n]
       /\ job' = [job EXCEPT ![w].attempt = n]
    /\ Goto(w, "executing")
    /\ UNCHANGED <<sessionVars, position, limit, grants, up, snap, seen, cursor, verdict>>

(* The task is no longer claimable: claim_task raises and run_next ends. *)
ClaimRefused(w) ==
    /\ At(w, "claiming")
    /\ ~Claimable(job[w].task)
    /\ Return(w)
    /\ UNCHANGED <<sessionVars, rowVars, grants, up>>

(* _dispatch and _apply_evidence_gate: the executor's result, or the       *)
(* exception it is turned into.                                            *)
Execute(w) ==
    /\ At(w, "executing")
    /\ \E v \in IF job[w].task \in Checkpoint THEN {"ok"} ELSE {"ok", "failed"} :
          verdict' = [verdict EXCEPT ![w] = v]
    /\ Goto(w, "judging")
    /\ UNCHANGED <<sessionVars, rowVars, grants, up, job, snap, seen, cursor>>

(* A session that was cancelled or quarantined meanwhile takes no result. *)
Judge(w) ==
    /\ At(w, "judging")
    /\ verdict' = [verdict EXCEPT ![w] =
           IF status \in {"cancelling", "cancelled", "quarantined"} THEN "cancelled"
           ELSE IF @ = "ok" THEN "succeeded" ELSE "failed"]
    /\ Goto(w, "finishing")
    /\ UNCHANGED <<sessionVars, rowVars, grants, up, job, snap, seen, cursor>>

(* finish_task_run. A success is recorded by one more transaction. *)
Finish(w) ==
    LET t == job[w].task
        n == job[w].attempt
        s == IF verdict[w] = "failed" /\ Retryable(t, n) THEN "pending" ELSE verdict[w]
    IN
    /\ At(w, "finishing")
    /\ run[<<t, n>>].status = "running"
    /\ run' = [run EXCEPT ![<<t, n>>].status = verdict[w]]
    /\ IF active[t] = n
       THEN /\ tstatus' = [tstatus EXCEPT ![t] = s]
            /\ active' = [active EXCEPT ![t] = 0]
       ELSE UNCHANGED <<tstatus, active>>
    /\ status' = Finalized(status, tstatus')
    /\ IF verdict[w] = "succeeded"
       THEN Goto(w, "recording") /\ UNCHANGED <<job, snap, seen, cursor, verdict>>
       ELSE Return(w)
    /\ UNCHANGED <<checkpoint, ask, position, attempts, limit, grants, up>>

(* The success is written with the checkpoint that Begin read; a task of   *)
(* phase "complete" completes the session.                                 *)
Record(w) ==
    /\ At(w, "recording")
    /\ WriteCheckpoint(w, {}, IF job[w].task \in Completing THEN "complete" ELSE status)
    /\ Return(w)
    /\ UNCHANGED <<ask, rowVars, grants, up>>

----------------------------------------------------------------------------
(* The founder's answer to the lease approval (BuildService). *)

(* request_lease, and the last step of prepare. *)
RequestLease ==
    /\ up
    /\ ~ask
    /\ status \notin {"complete", "cancelled", "quarantined"}
    /\ ask' = TRUE
    /\ UNCHANGED <<status, checkpoint, rowVars, grants, up, workerVars>>

(* approve and deny read the session first and resolve the approval. *)
Answer(w) ==
    /\ At(w, "idle")
    /\ ask
    /\ ask' = FALSE
    /\ \E answer \in {"approving", "denying"} : Goto(w, answer)
    /\ snap' = [snap EXCEPT ![w] = checkpoint]
    /\ UNCHANGED <<status, checkpoint, rowVars, grants, up, job, seen, cursor, verdict>>

(* The approved lease is noted in the checkpoint the answer began with;    *)
(* then run_next is called (Begin).                                        *)
ApproveRecord(w) ==
    /\ At(w, "approving")
    /\ WriteCheckpoint(w, {}, status)
    /\ Return(w)
    /\ UNCHANGED <<ask, rowVars, grants, up>>

DenyCancel(w) ==
    /\ At(w, "denying")
    /\ Goto(w, "denied")
    /\ IF Rows # {} THEN CancelRows ELSE UNCHANGED <<status, tstatus>>
    /\ UNCHANGED <<checkpoint, ask, position, attempts, limit, active, run, grants, up,
                   job, snap, seen, cursor, verdict>>

DenyRecord(w) ==
    /\ At(w, "denied")
    /\ WriteCheckpoint(w, {Denied}, "complete")
    /\ Return(w)
    /\ UNCHANGED <<ask, rowVars, grants, up>>

(* A transaction that waits too long for the write lock raises: the call   *)
(* is gone, and so is whatever it would still have written.                *)
LockTimeout(w) ==
    /\ LockTimeouts
    /\ up
    /\ pc[w] # "idle"
    /\ Return(w)
    /\ UNCHANGED <<sessionVars, rowVars, grants, up>>

Step(w) ==
    \/ PlanReturn(w) \/ ApproveRecord(w) \/ DenyCancel(w) \/ DenyRecord(w)
    \/ ListTasks(w) \/ PlanStep(w) \/ PlanDone(w) \/ Choose(w) \/ Idle(w)
    \/ CompleteSession(w) \/ Claim(w) \/ ClaimRefused(w) \/ Execute(w)
    \/ Judge(w) \/ Finish(w) \/ Record(w)

----------------------------------------------------------------------------
(* Requests of the founder. *)

(* POST /build/sessions/{id}/tasks: create_task never looks at the status. *)
CreateTask(t) ==
    /\ up
    /\ t \in Task \ (Rows \cup Planned)
    /\ Insert(t)
    /\ UNCHANGED <<sessionVars, grants, up, workerVars>>

Pause ==
    /\ up
    /\ status = "active"
    /\ status' = "paused"
    /\ UNCHANGED <<checkpoint, ask, rowVars, grants, up, workerVars>>

Resume ==
    /\ up
    /\ status = "paused"
    /\ status' = "active"
    /\ UNCHANGED <<checkpoint, ask, rowVars, grants, up, workerVars>>

Cancel ==
    /\ up
    /\ CancelRows
    /\ UNCHANGED <<checkpoint, ask, position, attempts, limit, active, run, grants, up, workerVars>>

QuarantineSession ==
    /\ up
    /\ status \notin {"complete", "cancelled"}
    /\ status' = "quarantined"
    /\ checkpoint' = checkpoint \cup {Quarantine}
    /\ UNCHANGED <<ask, rowVars, grants, up, workerVars>>

(* retry_failed_local_task: one more attempt, on the record. *)
Retry(t) ==
    /\ up
    /\ tstatus[t] \in {"failed", "interrupted"}
    /\ status \in {"active", "paused"}
    /\ attempts[t] > 0
    /\ run[<<t, attempts[t]>>].backend # "cloud"
    /\ attempts[t] < AttemptCap
    /\ tstatus' = [tstatus EXCEPT ![t] = "pending"]
    /\ limit' = [limit EXCEPT ![t] = NextLimit(t)]
    /\ active' = [active EXCEPT ![t] = 0]
    /\ checkpoint' = checkpoint \cup {[note |-> "retry", task |-> t, attempt |-> attempts[t]]}
    /\ grants' = [grants EXCEPT ![t] = @ + 1]
    /\ UNCHANGED <<status, ask, position, attempts, run, up, workerVars>>

----------------------------------------------------------------------------
(* The kernel process. *)

(* The process dies: its calls are gone, the database is not. *)
Crash ==
    /\ up
    /\ up' = FALSE
    /\ pc' = [w \in Worker |-> "idle"]
    /\ job' = [w \in Worker |-> NoJob]
    /\ snap' = [w \in Worker |-> {}]
    /\ seen' = [w \in Worker |-> "open"]
    /\ cursor' = [w \in Worker |-> 1]
    /\ verdict' = [w \in Worker |-> "none"]
    /\ UNCHANGED <<sessionVars, rowVars, grants>>

(* recover_interrupted_runs, run at start-up before requests are served. *)
Recover ==
    /\ ~up
    /\ up' = TRUE
    /\ run' = [r \in Task \X Attempt |->
           IF r \in Lost THEN [run[r] EXCEPT !.status = "interrupted"] ELSE run[r]]
    /\ tstatus' = [t \in Task |->
           IF active[t] # 0 /\ <<t, active[t]>> \in Lost
           THEN IF Retryable(t, active[t]) THEN "pending" ELSE "failed"
           ELSE tstatus[t]]
    /\ active' = [t \in Task |-> IF <<t, active[t]>> \in Lost THEN 0 ELSE active[t]]
    /\ status' = IF Lost = {} THEN status ELSE Finalized(status, tstatus')
    /\ UNCHANGED <<checkpoint, ask, position, attempts, limit, grants, workerVars>>

Founder == \/ Pause \/ Resume \/ Cancel \/ QuarantineSession \/ RequestLease
           \/ \E t \in Task : CreateTask(t) \/ Retry(t)

Next == \/ \E w \in Worker : \/ Begin(w) \/ BeginPlan(w) \/ Answer(w)
                             \/ Step(w) \/ LockTimeout(w)
        \/ Founder \/ Crash \/ Recover

(* A call in progress keeps running: commands, agent rounds and requests   *)
(* are all bounded, and a dead kernel is started again. Nobody is obliged  *)
(* to call run_next, and the founder is not obliged to do anything.        *)
Fairness == WF_vars(Recover) /\ \A w \in Worker : WF_vars(Step(w))

Spec == Init /\ [][Next]_vars
FairSpec == Spec /\ Fairness

----------------------------------------------------------------------------
(* Safety. *)

(* A task is running exactly while the one run it points at is, so it has  *)
(* at most one running run, its latest (claim_task, finish_task_run and    *)
(* recover_interrupted_runs each write both tables).                       *)
RunOwnership ==
    \A t \in Task, n \in Attempt :
        /\ run[<<t, n>>].status = "running" <=> tstatus[t] = "running" /\ active[t] = n
        /\ run[<<t, n>>].status = "running" => attempts[t] = n

(* A call between its claim and its finish still owns the run it claimed:  *)
(* no cancel, retry, recovery or second caller takes the run from under    *)
(* it, so no task is executed by two calls and no result is refused.       *)
CallOwnsRun ==
    \A w \in Worker : pc[w] \in {"executing", "judging", "finishing"} =>
        /\ run[<<job[w].task, job[w].attempt>>].status = "running"
        /\ \A v \in Worker \ {w} :
               pc[v] \in {"executing", "judging", "finishing"} => job[v].task # job[w].task

(* Nothing has run before what it depends on succeeded, whatever retries,  *)
(* cancellations and restarts came between.                                *)
DependencyOrder ==
    \A t \in Task : tstatus[t] \in {"running", "succeeded"} =>
        \A d \in Deps[t] : tstatus[d] = "succeeded"

(* A paid attempt is the last one: no failure, restart or operator grant   *)
(* puts a task that ran on the cloud back in the queue.                    *)
CloudNeverRetried ==
    \A t \in Task, n \in Attempt : run[<<t, n>>].backend = "cloud" =>
        attempts[t] = n /\ tstatus[t] # "pending"

(* A cancelled session has nothing running, and one that is still          *)
(* cancelling has something to wait for.                                   *)
CancelledIsQuiet ==
    /\ status = "cancelled" => Running = {}
    /\ status = "cancelling" => Running # {}

(* Attempts stay within the configured ones and those an operator granted. *)
AttemptsGranted ==
    \A t \in Task : attempts[t] <= limit[t] /\ limit[t] <= InitLimit[t] + grants[t]

(* A queued row has an attempt left: claim_task can refuse it for another  *)
(* reason, never for ever as "exhausted".                                  *)
QueuedCanRun == \A t \in Task : tstatus[t] = "pending" => attempts[t] < limit[t]

(* History is final: a run that ended keeps its row, a success is never    *)
(* undone, and attempt numbers are never given twice.                      *)
HistoryIsFinal ==
    [][/\ \A r \in Task \X Attempt : run[r].status \in TerminalRun => run'[r] = run[r]
       /\ \A t \in Task : /\ tstatus[t] = "succeeded" => tstatus'[t] = "succeeded"
                          /\ attempts'[t] >= attempts[t]]_vars

----------------------------------------------------------------------------
(* What the ledger promises about a task (TaskRecord): what was paid for   *)
(* is not started again, and nothing starts, ends or comes back otherwise. *)

(* A row's status as a reader of the tasks sees it. *)
Stage(s) ==
    IF s \in {"pending", "blocked"} THEN "queued"
    ELSE IF s = "running" THEN "executing"
    ELSE IF s = "interrupted" THEN "failed" ELSE s

Promise == INSTANCE TaskRecord WITH
    stage <- [t \in Task |-> Stage(tstatus[t])],
    paid <- [t \in Task |-> \E n \in Attempt : run[<<t, n>>].backend = "cloud"],
    tries <- attempts,
    allowed <- limit

(* The rows of any number of callers, requests, crashes and recoveries     *)
(* keep the promise: every step is one of the promised steps, or none.     *)
RefinesTasks == Promise!Spec

----------------------------------------------------------------------------
(* Liveness. *)

(* A run does not stay running for ever: its call finishes it or, when the *)
(* process died, the next start interrupts it.                             *)
RunSettles ==
    \A t \in Task, n \in Attempt :
        run[<<t, n>>].status = "running" ~> run[<<t, n>>].status \in TerminalRun

(* A cancellation that waits for running work does not wait for ever.      *)
CancellationEnds == status = "cancelling" ~> status # "cancelling"

----------------------------------------------------------------------------
(* What documents and tests say that this code does not keep. *)

(* README.md:189-191: a quarantined session retains its full audit         *)
(* history. store.checkpoint replaces the column by an older copy.         *)
AuditKept == [][checkpoint \subseteq checkpoint']_vars

(* README.md:189-191: a quarantined session has stopped execution;         *)
(* test_build_workers.py:114: a cancel is durable and a running result     *)
(* cannot complete the session. The write of a task that was just finished *)
(* completes it all the same.                                              *)
StoppedStays ==
    [][\A w \in Worker :
           /\ status \in {"quarantined", "cancelling", "cancelled"}
           /\ Record(w) \/ CompleteSession(w)
           => status' # "complete"]_vars

(* test_build_workers.py:134-136: when a cancelled session has settled,    *)
(* the task that was running is cancelled too, and not queued again.       *)
CancelledWorkStops ==
    [][\A t \in Task : status = "cancelling" /\ tstatus[t] = "running"
           => tstatus'[t] # "pending"]_vars

(* README.md:168: the lifecycle runs from discovery to completion, so a    *)
(* session recorded as all_tasks_succeeded has had all of it.              *)
WholeLifecycle ==
    AllSucceeded \in checkpoint => \A t \in Planned : tstatus[t] = "succeeded"
=============================================================================
