# TLA+ models of the Zade kernel

Zade is a local-first "AI co-founder": a Python kernel (`src/src/cofounder_kernel`)
with a SQLite database, a FastAPI surface, a few background threads, local models
through Ollama and, behind explicit founder approval, paid cloud requests. This
directory holds specifications of the parts of the kernel whose correctness rests
on the order in which things happen, what TLC checks about them on small
instances, and what TLAPS proves about them for every value of the constants.

Paths below are relative to `src/src/cofounder_kernel/` in the repository snapshot
(`src/`), unless they start with `src/`.

## 1. Inventory

The kernel is one process. `db.connect()` (`db.py:189`) opens a connection, runs
what the caller does with it as one transaction, and commits, or rolls back when
an exception leaves it; a writer waits at most 5 s for the write lock. So the unit
of atomicity of the whole system is "one `with database.connect()` block", and
every operation that uses two of them can be interleaved or cut between them.

| Component | Files | State it keeps | Operations | What is hard |
|---|---|---|---|---|
| Build session ledger | `build_store.py`, `build_types.py` | sessions, tasks, task runs | create, plan, claim, finish, retry, pause, resume, quarantine, cancel, recover | two callers of one session; a status read before a dispatch of minutes and used after it; restarts |
| Cloud lease ledger | `build_store.py`, `build_budget.py`, `anthropic_build.py`, `openai_review.py` | leases with limits and totals, one usage event per paid request | preflight, reserve, release, settle, mark uncertain, expire, exhaust, create, upgrade | money: a request in flight while the lease is expired, exhausted, renewed or enlarged |
| Build orchestrator | `build_orchestrator.py` | none of its own (local variables of a call) | `run_next`, `ensure_plan`, retry, cancel | the sequence of transactions of a call |
| Build service | `build_service.py` | checkpoint of a session, approvals | prepare, request, approve, deny, run, cancel | several transactions per request |
| Build workers | `build_workers.py` | future per session, stop flags | start, pause, resume, cancel, recover, shutdown | bounded pool, duplicate starts |
| Build routing, assessment, calibration, workspace | `build_routing.py`, ... | none | pure functions | scoring only |
| Verification, toolchains, GitHub CI | `build_verification.py`, ... | evidence rows | run commands, record | process I/O |
| Coding agent, command runner | `coding_agent.py`, `command_runner.py` | none durable: the commands at work, the counters of a run | bounded tool loop, checks and repairs; start, wait, terminate, cancel | cancellation of running commands; a verdict about files that change |
| Work queue | `autonomy.py`, `handlers.py` | work items | enqueue, claim, dispatch, complete | claim races, no recovery of a running item |
| Approvals, authority | `approval.py`, `authority.py` | approval requests | request, approve, deny, defer, dispatch | resolving twice, dispatch after resolve |
| Project intake and autonomy | `project_intake.py`, `project_autonomy*.py`, `project_mvp_planner.py` | one lease and state row per project, outbox | plan, dispatch, verify, complete, block, ask, answer, replan; claim, renew, CAS, deliver | a founder's request between two steps of a worker; a crash between two transactions; expired leases, retried notifications |
| Egress gate | `egress.py`, `netguard.py`, `anthropic_client.py`, `strategy_review.py` | one-shot grants, audit | decide, consume | consuming a grant twice |
| Channels | `channel_auth.py`, `telegram_adapter.py`, `openclaw_bridge.py` | pairings, nonces, offsets | pair, verify, ingest | replay, lockout, offset loss |
| Notifications, heartbeat, commitments, surfacing | `notify.py`, `heartbeat.py`, ... | notifications, the day of the last alert and brief, reminders | notify, deliver, tick | duplicates, restarts between an act and its record |
| Action plans, experiments | `actions.py`, `experiments.py` | plans, steps | propose, approve, complete | steps against work items |
| Delegation and roles | `delegation.py`, `roles.py`, `investigation.py`, `critic.py` | work items' metadata | delegate | front ends of the above |
| Governed runtime, conversation | `runtime.py`, `conversation.py`, `routing.py`, ... | turns, memory | chat | text |
| Memory, ingestion, connectors | `ingestion.py`, `connectors.py`, ... | evidence and memory rows | ingest, sync | external I/O |
| Founder desk, briefs, evals, ops | `founder.py`, `brief.py`, ... | records | report | computation over tables |
| Trading research | `trading_bot.py` | reports | report | read-only |
| Voice, browser, desktop | `voice.py`, `browser.py`, `tray.py` | none durable | device I/O | external |
| HTTP API, config | `api.py`, `config.py`, `models.py` | wiring, boot order | routes | boot recovery before serving |
| Agent surfaces | `agent_surface.py`, `mcp_server.py` | none | facade | none |

How they interact: the API (and the background threads it starts) call the service
objects; the service objects share nothing but the database, so what one call
knows of another is what it last read. A build goes: `BuildService.prepare`
creates a session, plans it and asks for a lease; the founder approves; `run_next`
is called again and again, by `BuildExecutionManager._run_session` and by
`POST /build/sessions/{id}/run`, each time taking one task from "ready" to
"succeeded", "failed" or back to the queue; a task routed to the cloud sends
requests through `AnthropicBuildModelClient.chat`, each under a reservation of the
session's lease. A restart runs the recovery of the ledger before serving
(`api.py:645`).

What makes each component correct, in one line:

* session ledger: the task table and the run table never disagree, order of
  dependencies holds, nothing is executed twice at once, paid work is never
  repeated, a cancellation ends, history is final;
* lease ledger: what the provider bills is covered by what the founder approved,
  whatever is in flight, and no answered request is left out of the totals;
* workers: at most one loop per session, a shutdown or cancel ends it;
* work queue and approvals: an item is dispatched once, and only after its
  approval;
* autonomy store: no change overwrites one it did not know of, a notice that is
  owed is sent, a lease is not taken from its holder;
* project autonomy: criteria complete in order and only when verified, a project
  that waits can be answered, an answer is heard, work goes on;
* coding agent and runner: a passing check is about the files as they are, what
  changed is checked, a cancelled command does not count as a success, a run ends;
* channels, heartbeat: a message is routed once and in its turn, one brief a day,
  a channel that is down is reported.

## 2. Modules

| Module | What it is |
|---|---|
| `BuildSession` | the session, task and run rows, the calls of `run_next`, the founder's requests, the kernel's crash and recovery; implements `TaskRecord` |
| `TaskRecord` | abstract: what the session ledger promises about its tasks |
| `BuildLease` | the lease and usage-event rows of one session and provider, the calls that spend under them, the approvals |
| `AutonomyRecord` | abstract: what the autonomy store promises |
| `AutonomyStore` | the state row, lease and outbox of one project, and the delivery loop; implements `AutonomyRecord` |
| `ProjectPhases` | operators: the phase machine of `ProjectAutonomyReporter` |
| `ProjectAutonomy` | the orchestrator's workers and the founder's requests on one project; extends `ProjectPhases` |
| `WorkQueue` | one work item, the approval requests about it and the calls around both |
| `BuildWorkers` | the pool that works off the sessions |
| `CommandRunner` | local commands, started, awaited, terminated and cancelled |
| `CodingAgent` | a run of the coding agent over its commands; extends `CommandRunner` |
| `TelegramAdapter` | the thread that polls the Bot API |
| `Heartbeat` | the once-a-minute check, the notification it sends and the morning brief; extends `TelegramAdapter` |
| `BuildSessionProofs`, `BuildLeaseProofs`, `AutonomyStoreProofs`, `ProjectAutonomyProofs`, `WorkQueueProofs`, `BuildWorkersProofs`, `CodingAgentProofs`, `HeartbeatProofs` | theorems about the module of that name |
| `MC*`, `*.cfg` | the small instances TLC checks |

How the modules fit together. `ProjectAutonomy` takes a reporter method as one
step, made on the state it read or not at all; `AutonomyStore` is why
(`RefinesRecord`: every change is made on top of every change before it, or raises
a version conflict, which is its action `Conflict`). `BuildWorkers` takes a
session as a chain of tasks of which one at a time is claimed; `BuildSession` is
why (`RunOwnership`, `CallOwnsRun`). `BuildSession` takes what an executor
returned as a free verdict; `CodingAgent` is one such executor, down to its
commands. `WorkQueue` has the run of an item as one outcome; `ProjectAutonomy`
uses the stored result of such an item, under its key, as an attempt.

The two ledgers meet in one place only: whether a session has a lease that can
be used decides where its adaptive tasks run. `BuildSession` takes that answer as
free (`Choose` may route an adaptive task to either place, or return "blocked"),
and `BuildLease` takes the calls as free (`Dispatch` may begin at any time); both
therefore allow every schedule the other would. A quarantine does a part of its
work in each: the status and the checkpoint entry in one, the paused lease in the
other.

### 2.1 BuildSession

| Variable | In the code |
|---|---|
| `status`, `checkpoint` | `build_sessions.status`; the entries of `checkpoint_json` that form the audit trail: operator retries, the quarantine, the denial, `all_tasks_succeeded` |
| `tstatus`, `position`, `attempts`, `limit`, `active` | `build_tasks`: status, position, `attempt_count`, `max_attempts`, `active_run_id` |
| `run` | `build_task_runs`, by task and attempt number: status and backend |
| `ask` | a pending lease approval |
| `up` | the kernel process is alive |
| `pc`, `job`, `snap`, `seen`, `cursor`, `verdict` | the local variables of one call: where it is, the task it chose, the session row it read, the task list it read, its progress through the planner's loop, what its dispatch returned |
| `grants` | history: the retries an operator granted |

A `Worker` is a concurrent call: the background loop of `build_workers.py` or a
request handler. `run_next` is this sequence of steps, each of them one
transaction of the code:

| Action | Code |
|---|---|
| `Begin` | `store.get_session`, and the return when the session is not active |
| `ListTasks`, `PlanStep`, `PlanDone` | `ensure_plan`: `list_tasks`, and `BuildPlanner.plan`, one `create_task` per link |
| `Choose` | `ready_tasks` and `_route_task` |
| `Idle`, `CompleteSession` | `_idle_result`, and the checkpoint that completes the session |
| `Claim`, `ClaimRefused` | `claim_task` |
| `Execute` | `_dispatch`, with `_apply_evidence_gate`: minutes, in which anything else may happen |
| `Judge` | the second `get_session`, which turns a result into "cancelled" |
| `Finish` | `finish_task_run`, including the retry decision and `_finalize_cancellation` |
| `Record` | the last `checkpoint`, with the copy `Begin` read |
| `LockTimeout` | any of these waits more than 5 s for the write lock and raises out of the call |

`BeginPlan`/`PlanReturn` is a call of `ensure_plan` alone; `Answer`,
`ApproveRecord`, `DenyCancel` and `DenyRecord` are `BuildService.approve` and
`deny`; `CreateTask`, `Pause`, `Resume`, `Cancel`, `QuarantineSession`, `Retry`
and `RequestLease` are one transaction each. `Crash` forgets the calls and keeps
the rows; `Recover` is `recover_interrupted_runs`, which `api.py:645` runs before
it serves anything.

Abstractions. `ready_tasks`, the routing reads and the choice are one step
(`Choose`); everything they rest on is read again by `claim_task` in one
transaction. The list of operator retries in the checkpoint is kept whole, where
the code keeps the last 100. What a task's executor returned, and what the
evidence gate made of it, is one verdict. Lease rows are in `BuildLease`.

`TaskRecord` is what a reader of the tasks may rely on: a task is absent, queued,
executing, succeeded, failed or cancelled; it is added behind what it depends on,
started when all of that succeeded and an attempt is left, ends once per start,
and is not started again when it succeeded or when it was paid for. `BuildSession`
implements it (`RefinesTasks`): "pending" and "blocked" rows are queued, "failed"
and "interrupted" ones failed, and a task is paid for when one of its runs has the
cloud for its backend. The session's status, the calls and the run rows are not
part of the promise; a recovery is one step in which all executing tasks end.

### 2.2 BuildLease

| Variable | In the code |
|---|---|
| `lstate`, `limit`, `turnLimit`, `actual`, `reserved`, `turns` | `build_leases` by version: state, the ceilings of `limits_json`, `actual_*`, `reserved_*`, `cloud_turns` |
| `late` | the leases whose `expires_at` has passed |
| `foreign` | the versions taken by leases of the session's other provider |
| `estatus`, `elease`, `eturn` | `cloud_usage_events` by request id: status, lease, turn number |
| `asked`, `resolving` | pending approval requests, and those whose lease is written while the request is not yet resolved |
| `seen`, `reported` | the exhausted lease a run has found, and the one it reported |
| `quarantined` | the session's status, as far as the ledger looks at it |
| `pc`, `held`, `req`, `target`, `cost` | one call: where it is, the lease it was dispatched under, its request id, the lease it is about to close, what the provider charged |
| `meter`, `sends`, `answered`, `carried` | history, read by no guard except the bound on sends and the freshness of a drawn id |

A `Caller` is one cloud turn loop (`AnthropicBuildModelClient.chat`, called by the
coding agent of a dispatched task) or one `OpenAIReviewClient.review`. `Provider`
says whose lease it is and `Orchestrated` whether `BuildService` has an
orchestrator, as `api.py` wires it. Several cloud turns of one session run at
once when tasks without a dependency on each other were created beside the plan
and more than one call of `run_next` is in progress.

| Action | Code |
|---|---|
| `Dispatch`, `EndCall` | the orchestrator starts a cloud task under the lease it read; the agent loop ends |
| `Preflight`, `Expire` | `BuildBudgetService.preflight`, `expire_lease` |
| `Authorize` | `authorize_build_egress` |
| `Reserve`, `FindRefused`, `Exhaust` | `create_reservation`, and what `reserve` does in two more transactions when it is refused |
| `ReleaseUnsent` | `release_reservation` after a failure that precedes the transmission |
| `Send` | the request leaves the process; the provider meters it |
| `Settle` | `settle_reservation`, and the fallback when it raises |
| `MarkUncertain` | `mark_uncertain`, which refuses an empty reason: `anthropic_build.py:141` passes the text of the failure as it is, and the event then stays reserved |
| `RequestLease`, `Deny`, `CreateLease`, `UpgradeLease`, `Resolve` | `request_lease`, `deny`, and the two transactions of `approve` |
| `CreateForeignLease` | `create_lease` for the other provider |
| `SeeExhausted`, `ReportExhausted` | `run` on an exhausted lease |
| `Quarantine` | `quarantine_session`, as far as it touches leases |
| `Tick` | a lease's time passes |
| `Restart` | the kernel dies and is started; nothing looks at the ledger |

Three unique indices are part of the behaviour, since a statement they refuse
rolls its transaction back and raises: one open lease per session and provider
(`Clash`), one turn number per lease (`TurnFree`), one version per session
(`Taken`).

Abstractions. Input tokens, output tokens and microdollars are checked and
updated by one formula, so one amount stands for the three. Prices, token counts
and messages are reduced to `Upper[r]`, what request `r` reserves, and `Bill`,
what the provider may charge for it, above and below the reservation. Usage is
never negative. One provider at a time is modelled; the other one's leases only
take version numbers.

### 2.3 AutonomyRecord and AutonomyStore

`AutonomyRecord` is what the store promises: a log of changes, the notices they
owe, the notices the founder has, and the holder of the lease. `AutonomyStore`
keeps what the tables of one project hold and what each caller has read.

| Variable | In the code |
|---|---|
| `version`, `state`, `events` | the row of `project_autonomy_states` and the rows of `project_events`; a state is the sequence of changes that went into it |
| `outbox` | `project_autonomy_outbox` by dedupe key: status, attempts, due |
| `holder`, `expired` | the lease row and whether its time is up |
| `queued` | the notifications of the last hour, by notice and attempt |
| `up`, `gone` | the kernel processes that run and the pids of those that stopped |
| `pc`, `seen`, `claimed`, `batch`, `current`, `result` | the local variables of a caller: where it is, the state it read, whether it goes by a claim, the due rows a delivery loop has left and the one it is at |
| `sent` | history: the notices that reached the channel |

| Action | Code |
|---|---|
| `Read`, `Transition`, `GiveUp` | `get_state` and the compare-and-swap of `transition`: state row, event and outbox row, or a conflict |
| `Claim`, `Renew`, `Release`, `ClearOrphaned`, `ClearExpired` | the lease, taken from nobody, from an expired holder or from a process that is gone |
| `FetchDue`, `LookForDuplicate`, `Queue`, `Send`, `MarkDelivered`, `Reschedule` | the delivery loop: `due_outbox`, `NotificationBus.notify`, the mark or the retry |
| `ReadForNote`, `RecordDelivery` | the transition by which a delivery is noted in the state |
| `Expire`, `ComeDue`, `LeaveWindow` | time passes |
| `Start`, `Stop` | a process begins, or ends and takes its callers with it |

`RefinesRecord` is `Record!Spec` for `Record == INSTANCE AutonomyRecord` with `log`
as the state row, `owed` and `settled` as the outbox rows that exist and those
delivered, and `holder` as the holder of a lease that has not expired.

### 2.4 ProjectPhases and ProjectAutonomy

`ProjectPhases` has the phase machine of `ProjectAutonomyReporter` as operators:
for each method, when it may write and what it writes. `ProjectAutonomy` puts the
orchestrator's worker threads and the founder on it.

| Variable | In the code |
|---|---|
| `state`, `lease` | the state row, and the owner of the lease |
| `items` | the `founder_decision` work item of each question: none, open, resolved (its request is, the item is not yet), approved, done |
| `result` | the stored result of each attempt of the increment, under its key |
| `tree` | the working tree of the project's repository |
| `up`, `faults` | the kernel process, and the crashes, conflicts and failed answers so far |
| `pc`, `view`, `crit`, `attempt`, `moved` | a worker: where it is, the state it read last, its criterion, its attempt, whether it has committed |
| `fpc`, `freplans`, `fquestion` | the founder's replan or answer in progress |
| `proven` | history: the criteria whose committed work passed its checks |

| Action | Code |
|---|---|
| `Look`, `Claim`, `Enter`, `Reenter`, `TurnBack` | `_execute_claim` and what comes before it: recoverable projects, the claim, the first read, the resumption of an increment |
| `Prepare`, `PlanAsks`, `PlanFails`, `NothingLeft`, `Adopt` | the planner and `plan`: a question, a failure, nothing to do, or criteria |
| `Reread`, `Choose`, `ChooseNone` | the next ready criterion, and `begin_increment` |
| `Dispatch`, `Unrun`, `Run` | the attempt through the delegation engine, under a key per attempt |
| `RejectManifest`, `TakeChoice`, `AskFounder`, `StopPaused`, `Repair` | what is made of an attempt's report |
| `Commit`, `Prove`, `FailProof`, `Verify`, `RecordComplete` | the commit, the checks, `begin_verification` and `complete_criterion` |
| `Exhaust`, `File`, `Ask`, `Withdraw` | no attempt left: the decision item is filed, the project asks, or the item is withdrawn |
| `Finish`, `AwaitBoundary`, `Close`, `Release` | `complete_mvp` and the end of the invocation |
| `Conflict` | a transition was overtaken and raises |
| `Pause`, `Resume`, `Reopen`, `Replan` and the steps after it | the founder's requests; a replan takes no lease |
| `Answer`, `Approve`, `Conclude`, `Apply` | `resolve_decision`, a transaction each: the item's request is resolved, the item approved, the item done, and the project hears of it |
| `AnswerAgain`, `AnswerFails` | an answer given again while the item is done and the project still waits; a lock timeout or conflict that ends the founder's call where it is |
| `Crash`, `Restart` | the process ends, and a new one begins with the recovery |

### 2.5 WorkQueue

| Variable | In the code |
|---|---|
| `item` | the row of `work_items`: status, proposal, what the authority said, whether its result tells of a run |
| `requests` | the rows of `approval_requests` about it |
| `asked`, `directed` | what the calls that make it propose, and whether the founder commanded it |
| `up`, `faults` | the process, and its crashes and failed writes |
| `pc`, `op`, `view`, `req` | a call: where it is, what a desk does, the row it goes by, the request it is about |
| `granted`, `early` | history: whether the founder commanded or approved the item; whether it was claimed before it was classified |
| `cut` | history: whether a crash or a failed write cut the call off that had the item "running" |

A `Creator` is a call of `enqueue` or `queue_delegation` (`Insert`, `Classify`,
`Look`, `File`, `Reuse`), a `Runner` a caller of `run_next` (`Claim`, `Evaluate`,
`Call`, `Raise`, `Finish`, `Unrun`), a `Desk` a call of `ApprovalService`: `Begin` or
`Find` picks the request or the item, `Read` and `Look` are its lookups, `File`
and `Load` backfill a request, `Resolve` and `Sync` write the decision to request
and item, `EditRequest` and `EditItem` are `edit`, `BeginDispatch`, `Start` and
`Mark` are `dispatch`. Every `connect()` block is a step, and a `SELECT` before an
`INSERT` one of its own. Any of these steps that writes may wait too long for the
lock instead (`LockTimeout`) and raises out of the call, or, inside the `try` of
`run_next` (`autonomy.py:252`), into its `except`, where the item is written once
more. `Crash` forgets the calls; nothing looks at an item that a crash or a failed
write leaves "running".

### 2.6 BuildWorkers

| Variable | In the code |
|---|---|
| `status`, `left`, `busy`, `failed` | a session's row and its tasks: pending, running, failed |
| `up`, `faults`, `listed` | the process, its restarts, and the sessions `recover` has still to look at |
| `stopping`, `closed` | `_stopping`; the executor takes no more work |
| `future`, `loop`, `queue` | `_futures`, the state of each submitted future, the executor's queue |
| `pc`, `of`, `rounds`, `verdict` | a loop or request: where it is, its session, a loop's rounds, what its task came to |
| `late` | history: the tasks a loop claimed after the shutdown began |

`Begin`, `Resume`, `Reopen`, `Start`, `Unpause`, `Submit`, `Retry` and `Reread` are
the requests about a session, cut where they read or write the ledger or take the
manager's lock; `Pause`, `Cancel` and `Quarantine` one transaction each. `Dispatch`
is a thread of the executor taking a future; `Enter` and `Conclude` are
`_run_session`, and `Choose`, `Claim`, `Execute`, `Finish` and `Record` the
`run_next` in it, which a foreground `run` calls as well. `Shutdown`, `Close` and
`Exit` are the orderly end; `Crash`, `Restart` and `BootStart` the other one.

### 2.7 CommandRunner and CodingAgent

| Variable | In the code |
|---|---|
| `stage`, `proc`, `zero`, `cancelled`, `timedOut`, `ok` | a command: where its thread is, its process, its return code, the flags of `_ActiveProcess`, the result |
| `todo`, `victim` | a canceller: the run ids it has left, and the one it terminates |
| `survivors` | the workspaces in which a process outlived its command |
| `pc`, `kind` | where a run of the agent is, and for which kind of task |
| `round`, `calls`, `status`, `asked`, `stepped` | `_advance`: its counters, the run's status, the founder's question |
| `tracked`, `diff` | `changed_files`, and how the workspace differs from the snapshot |
| `snapshot` | whether a snapshot of the workspace is taken now, is not because the workspace has grown over the limit of 5000 files, or never was because it was over the limit when the run began |
| `checks`, `failing`, `verdict`, `repairs` | the automatic check: commands to run, the outcome, repairs made |
| `accepted` | what the evidence gate made of the run |
| `touched`, `spoilt` | history: files changed since the check began; a command that did not run to a plain 0 |

`Popen`, `Register`, `Exits`, `Returns`, `Expires`, `Terminate`, `Raises`, `Answer`
and `Retire` are one command from start to result, with a process that may end,
hang or ignore its signals; `CancelAll`, `Flag` and `Kill` are a cancellation,
`Die` the end of the kernel. Over them, `Begin`, `Ask`, `Call`, `CallCommand`,
`EndRound` and `Advanced` are the rounds (`Sizes` says how a tool may move the
workspace over the limit and back; without both snapshots `HasTargets` knows of the
write tools' files only), `BeginCheck`, `Refused`, `RunCheck` and
`Conclude` the check and its repairs, `Gate` and `End` what becomes of the run.

### 2.8 TelegramAdapter and Heartbeat

| Variable | In the code |
|---|---|
| `arrived`, `kept` | at Telegram: the updates sent to the bot, and those it still keeps |
| `phase`, `offset`, `batch`, `running` | the adapter's thread: where it is, `_offset`, the updates left of an answer, `_running` |
| `routed`, `earlier`, `begun`, `sighted` | history: what this process and earlier ones routed, where this one is to begin, and whether it learnt so from Telegram |
| `up`, `token`, `grace` | the process, whether it has a bot token, and whether the adapter is still given time |
| `at`, `alerted`, `attempted`, `sent` | the tick: where it is, `_alerted_telegram_on` and `_brief_attempted_on`, whether the brief went out |
| `audited` | the last brief in the audit trail is today's |
| `row` | the notification row under today's key |
| `faults`, `briefs`, `lost` | crashes today; briefs the founder got today, and those no record tells of |

`Arrive` is a message sent to the bot; `StartThread`, `SkipBacklog`, `Poll`,
`PollFails`, `Handle`, `PollDone` and `EndThread` are the thread, where a request
may reach Telegram and its answer not come back. `Tick`, `CheckChannel`, `Queue`,
`Deliver` and `NotifyRaises` are the tick as far as the channel goes; `CheckBrief`,
`SendBrief`, `BriefRaises` and `Record` the brief. `EndGrace`, `HourPasses` and
`Midnight` are time; `Boot` and `Crash` are the process.

### 2.9 Modelling decisions

* `ProjectAutonomy`: the phases `approval_required` and `mvp_complete` are left out
  (no boundary is reported by the native engine; the other phase is of earlier
  releases), and so are `set_priority`, `complete_external_boundary`,
  `migrate_legacy`, `record_increment` and the resumption after an approval. An
  attempt ends within its lease. A planner's criteria with unknown or cyclic
  dependencies are rejected before `plan`. The results of an increment are
  forgotten with the lease; an attempt cut short by a crash runs again under its
  key.
* `WorkQueue`: one item. A tier that cannot be approved is treated as a denial. A
  delegation needs an approval whatever it proposes, as the authority rules it.
  The handlers' access switch, undirected `auto_invoke`, the parent of a founder
  decision and an approval the hybrid engine asks for are left out.
* `BuildWorkers`: attempt limits stay in `BuildSession`; the thread pool is the
  library's and is modelled as a FIFO queue and `MaxWorkers` threads. Requests may
  still arrive while the manager shuts down.
* `CodingAgent`: a failure of the model and of a capability are one case; a
  verification plan is the number of its checks; what a surviving process writes later is not modelled. The
  only commands of a run with an output contract are read-only.
* `Heartbeat`: the cadence alert, the notice of a brief that failed, `send_now` and
  the project wake at the end of a tick are left out; midnight may fall into the
  sending of a brief, not between two checks of one tick; whether a channel's
  rules let a message pass is a free choice.

## 3. What TLC checks

### 3.1 Runs

| Run | Instance | Distinct states |
|---|---|---|
| `session_callers` | 2 calls, a task that may run in either place and the checkpoint task behind it, at most 2 attempts, lock timeouts, crashes | 559,666 |
| `session_liveness` | 1 call, a planned task and one added beside the plan | 160,930 |
| `lease_calls` | 2 calls, 2 requests of 2 units, 2 leases of 3 units, charges of 1 and 3, the service without an orchestrator, so that upgrades happen | 1,457,371 |
| `lease_reviews` | 3 reviews, 2 request ids, up to 2 sends of each | 233,120 |
| `store` | 2 clients of 2 processes, 1 notice, 3 changes, 1 retry | 582,359 |
| `autonomy_replans` | 2 workers, 2 chained criteria, plans of one or both, a founder who replans and answers at any moment; no faults | 952,587 |
| `autonomy_progress` | 1 worker, 2 attempts, a crash, a conflict or a failing answer, questions about the plan and a criterion, a founder who pauses, resumes and reopens | 184,662 |
| `queue_calls` | 1 creator, 2 runners, 1 desk with every operation, proposals of all three verdicts, 1 crash or failed write | 2,938,234 |
| `queue_decides` | 1 creator, 1 runner, 1 desk, items the founder did not command, 1 crash or failed write, fairness | 240,871 |
| `workers` | 2 sessions, 1 thread, 1 request handler, 2 tasks a run, 1 restart, fairness | 231,034 |
| `agent_checks` | 1 agent, tasks of all kinds, 2 cancellers, workspaces below and above the snapshot's limit, 1 round per advance and 2 of everything else, fairness | 404,814 |
| `heartbeat` | 2 messages, 1 crash a day, fairness | 296,520 |

What they ask, and what would break it:

* `session_callers`: `RunOwnership` (task and run table point at each other),
  `CallOwnsRun` (a call between claim and finish still owns the run it claimed),
  `DependencyOrder`, `CloudNeverRetried` (paid work is not repeated), `QueuedCanRun`
  (a queued row can be claimed), `HistoryIsFinal`, `RefinesTasks` (see 2.1). A claim
  without its conditions, a recovery that leaves half a pair, a retry of a cloud run
  or one that grants two attempts breaks them.
* `session_liveness`: `RunSettles` and `CancellationEnds`, every run and every
  cancellation comes to its end, whatever crashes.
* `lease_calls`: `SpendCovered`, the charges (up to each reservation) are covered
  by what the lease rows count as used or reserved: a release of something sent, a
  total lost in an upgrade, or a reservation dropped with its expired lease breaks
  it. `SpendWithinGrants`, all charges together stay within what all approvals
  granted, stated for sessions whose leases were never enlarged: after an
  enlargement a settlement may reopen the superseded row (4), whose remaining room
  has by then been granted again through its successor. `ReservedAgrees` (a lease's
  reserved total is what its outstanding events reserve), `NothingUnrecorded` (what
  was sent has a row).
* `lease_reviews`: `TurnsWithinGrants`, `SettledIsFinal`, when calls share an id.
* `store`: `StateIsHistory` (state row and event log tell the same), `NoticeKept`
  (an owed notice waits in the outbox or reached the channel: two loops, a restart
  and the bus's own deduplication do not settle it early), `LeaseNotTaken` (only
  time or its own release takes a live lease from a running worker),
  `RefinesRecord` (see 2.3).
* `autonomy_replans`: `TypeOK`; `WaitIsAnswerable`, a project in "needs_decision"
  has an item filed with the founder (one whose answer was cut off may refuse another
  answer, see 4); `CompletedKept`, a complete criterion stays
  complete as long as the plan has it; `MilestoneEarned`, the MVP is recorded for
  criteria that all passed their checks on a commit, also when a replan lands
  between the worker's look at the plan and `complete_mvp`.
* `autonomy_progress`: `InOrder`, a criterion completes in the increment begun for
  it and after everything it depends on; `Settles`, the project comes, again and
  again, to a point where only the founder or nothing is left to wait for;
  `AnswerHeard`, an answer reaches the project wherever a crash, a conflict or a
  failed write cuts it off, but for the one place where the code gives it up: between
  the item's approval and its "done" (`EveryWaitEnds`, 4). A listener that did not
  let a done item be answered again breaks it.
* `queue_calls`: `Authorised`, nothing is run that the authority does not allow and
  the founder did not command or approve, also when it was claimed before its
  verdict or edited meanwhile; `QueueRunsOnce`, two runners never have one item
  both, as long as it was not claimed before its classification.
* `queue_decides`: `Decidable`, what awaits the founder can be decided, also when
  the crash came before its request was filed; `Drains`, what is queued is taken
  up, and what runs ends in a result, also when its handler raises or a write inside
  the `try` fails, unless the process dies or a write fails where nothing catches it
  (`RunEndsInResult`, 4).
* `workers`: `OneLoop`, at most one loop a session, however start, resume,
  retry and recovery coincide; `StopsAtTask`, a loop claims at most one task after
  the shutdown began; `GetsItsTurn`, a loop that waits for the one thread gets it or
  is cancelled, and a kernel told to stop comes down.
* `agent_checks`: `PassIsEarned`, a passing check ran every command to a plain 0
  after the last tool that changed files; `VerdictIsCurrent`, a run whose files changed
  after its last check did not end ok and carries that check's bad verdict, not one
  of before the change; `CancelHonoured`, a command whose
  cancellation was answered True is not reported ok; `RunEnds`.
* `heartbeat`: `BriefOnce`, one scheduled brief a day, a second only where the first
  left no record; `RoutedInTurn`, a message is routed once, in its turn, and not
  again after a restart that learnt where it began; `DownIsReported`, an adapter
  that stays down is reported.

Every property has a mutant in `PROJECT.json`: a change of a mapped definition, of
the kind a bug in that code would be, under which TLC finds the property violated.

### 3.2 Bounds

| Bound | Value | Why it is enough |
|---|---|---|
| `Worker` (BuildSession) | 1 or 2 | the conflicts in the code are between two calls over one row; the safety theorems are for any number |
| `Caller` (BuildLease) | 2 or 3 | a request in flight while another call closes the lease it runs under; 3 where a renewal is not in the instance |
| `Task` | 2 | one dependency, one cloud-capable row, one closing row; or a planned row and an unplanned one |
| `AttemptCap` | 2 | first attempt, automatic retry, an operator's grant after either |
| `Request` | 2 | under a grant of 3 with reservations of 2, the second request is the one that must be refused, until the lease is renewed or enlarged |
| `MaxVersion` (BuildLease) | 1 or 2 | a lease and its successor; the third differs from the second in nothing |
| `MaxSend` | 1 or 2 | build turns send each id once; reviews may repeat one |
| `Upper`, `Bill` | 2; 1 or 3 | a charge below and above the reservation |
| `Client`, `Process` | 2, 2 | a holder and a taker, in one process after another or side by side |
| `MaxVersion` (AutonomyStore), `MaxAttempt` | 3, 1 | a change, one that overtakes it and one on top; a first delivery and its retry |
| `Notice` | 1 | notices do not look at each other; the theorems are for any set |
| `Criterion`, `Plans` | 2, of which the first needs the second; plans of both or of the second | an order, a plan that grows and one that shrinks |
| `Worker` (ProjectAutonomy) | 1 or 2 | the lease keeps a second one out; two are in the instance in which that is at stake |
| `MaxAttempt` (ProjectAutonomy) | 0 or 1 | a first attempt and a repair; the limit is reached either way |
| `MaxFault` | 0, 1; a day for the heartbeat | crashes, in `WorkQueue` also failed writes, in `ProjectAutonomy` also conflicts and failed answers; one is between any two steps; what the second one adds is what the first left behind, and the sessions' runs allow any number |
| `Creator`, `Runner`, `Desk` | 1, 1 or 2, 1 | two runners for one row, while one call makes it and one decides it |
| `MaxRequest` | 2 or 5 | a request and the one that replaces it; in `queue_decides` so many that no step is ever refused one |
| `Session`, `MaxWorkers`, `MaxLoop` | 2, 1, 2 | the second session waits for the one thread |
| `MaxTasks`, `Work` | 2; 1 or 2 | a loop ends at its limit, or because nothing is left |
| `Agent`, `Canceller` | 1, 2 | two cancellations of one command; agents share nothing but a workspace's leftovers |
| `MaxRounds`, `MaxCalls`, `MaxChecks`, `MaxRepairs` | 2, but for 1 round | the first, the last, and one after another; a repair advances once more, and so has a round of its own |
| `MaxUpdate` | 2 | one message handled and one after it, or in the same answer |

Calls are interchangeable in `BuildSession` and `BuildLease`, and so are requests,
since all of them reserve the same amount, and so are the runners of `WorkQueue`;
the safety runs use that as symmetry.
No run of a liveness property does. Deadlock checking is off where the bounded
system really stops: a ledger without a request id left (the lease runs, `store`),
a project that is finished or waits for a founder who makes no request
(`autonomy_*`), an item that is done (`queue_*`), sessions that are worked off
(`workers`). The other runs keep it on.

### 3.3 Fairness

Nobody is obliged to ask for anything, and the founder is obliged to nothing
except where it says so below. A dead kernel is started again, which is what the
supervisor scripts of the repository do.

* `BuildSession` (`FairSpec`): a call in progress keeps running
  (`WF_vars(Step(w))`): commands and requests have timeouts and the agent loop a
  bounded number of rounds, so no step of a call blocks for ever; and
  `WF_vars(Recover)`. The kernel may crash for ever: `RunSettles` and
  `CancellationEnds` hold nonetheless, because each recovery ends the runs it
  finds. Lock timeouts are left out of the liveness run: a call that loses its wait
  in `finish_task_run` leaves its run "running" until the next restart recovers it,
  and nothing makes a restart happen.
* `ProjectAutonomy` (`LiveSpec`): a worker goes on, a restart comes, and an answer
  the founder has begun is finished, or fails, which is bounded, and one she owes is
  given (weak). Strong: an
  increment that is chosen again and again is dispatched, an agent asked again and
  again delivers work, that work passes its checks, and the final verification
  passes. These four are assumptions about the model, without which a project may
  fail its attempts for ever; `InOrder` needs none of it.
* `WorkQueue` (`LiveSpec`): a call goes on, the scheduler comes back to the queue,
  a desk finishes what it began (weak); the founder denies, by its work item, what
  keeps waiting for her (strong: another call may hold the item at that moment).
  Failed writes are in the model, bounded by `MaxFault`.
* `BuildWorkers` (`LiveSpec`): requests, loops and their calls go on, an idle thread
  takes what waits, a stopping kernel closes and exits, a dead one starts and looks
  at its sessions. All of it weak.
* `CodingAgent` (`LiveSpec`): `WF_vars(Step(a))` only. No process has to end by
  itself: a command has a timeout, and the wait after its signals one as well.
* `Heartbeat` (`LiveSpec`): the tick goes on, the grace period and the hour end
  (weak), midnight comes although a tick is under way again and again, the
  database is not locked every time, and the founder's rules do not silence every
  channel every time (strong). The adapter owes nothing.

## 4. Where the code departs from its documents

The properties below state what a docstring, a comment, a test or a design
document says, or what one would expect of the operation, and the model of the
code refutes them. Each is defined in its module, next to the ones that hold, and
TLC finds it violated in the instance given here when its name is put into the
configuration (with `Spec` where no fairness is named, and without the symmetry
if it is a temporal property); no run of `PROJECT.json` expects a violation.

| Property | Instance | What happens |
|---|---|---|
| `AuditKept` (`BuildSession`) | `session_callers` with 1 call, no lock timeouts, `FairSpec` | `checkpoint` replaces the column by the copy the call read minutes before; a quarantine or retry entry written meanwhile is erased |
| `StoppedStays` (`BuildSession`) | the same | a call that is past its status check writes "complete" over "quarantined" or "cancelled" |
| `WholeLifecycle` (`BuildSession`) | the same, `Spec` | a plan cut short by a crash counts as the whole plan, and the session is completed without the rest |
| `CancelledWorkStops` (`BuildSession`) | the same | a task that was running when its session was cancelled is queued again by the recovery, or by `finish_task_run` when it failed after the status check |
| `ExhaustionAsked` (`BuildLease`) | 1 call, 3 requests, grant 4, charge 1, 1 version, warning at 99 %, orchestrated | with the orchestrator wired in, no upgrade request is filed for an exhausted lease |
| `AnsweredIsSettled` (`BuildLease`) | 2 calls, 2 requests, grant 4, 2 versions, orchestrated | an answer to a request of an expired lease, arriving under the renewed one, can be neither settled nor marked uncertain |
| `SentOnce` (`BuildLease`) | `lease_reviews` with 2 calls, 2 turns, charge 1 | two reviews with one request id share a reservation and both transmit |
| `UpgradeFits` (`BuildLease`) | 1 call, 3 requests, grant 4, 2 versions, not orchestrated | an approved upgrade fails because the other provider's lease took the next version |
| `ExpiredIsClosed` (`BuildLease`) | `lease_calls` | a late settlement reopens an expired lease |
| `UncertainPauses` (`BuildLease`) | 3 calls, 3 requests, grant 4, 1 version, orchestrated | one request is left uncertain and its lease paused; a call that had found the lease late before that expires it; a third call's settlement reopens it at "warning" |
| `TurnsFresh` (`BuildLease`) | the same, 3 turns | after a release the next turn number is one that a later reservation still has, and the index refuses with an exception instead of a budget decision |
| `QuarantineStopsPaid` (`BuildLease`) | `lease_calls` | a lease asked for before the quarantine can be approved after it |
| `InOrder` (`ProjectAutonomy`) | `autonomy_replans` with 1 worker and no questions | a worker chooses from the plan it read at its start; a replan before `begin_increment` begins a new scope, in which what the chosen criterion depends on is pending again, and it is built and completed first all the same |
| `Recoverable` (`ProjectAutonomy`) | the same with the requests {resume, reopen} and 1 fault | a crash between a continuation plan and its first increment leaves `current_criterion_id` at a criterion of the plan before; blocked in that state, the project cannot be resumed |
| `WaitsForAnswer` (`ProjectAutonomy`) | `autonomy_replans` | a replan asks the founder while a worker is under way; the worker then reports the project blocked, and it waits for no answer any more |
| `AttemptsNotKept` (`ProjectAutonomy`) | `autonomy_replans` | the last attempt of an increment fails its checks and leaves its files, and the criterion is queued again; the next worker finds them outside an increment and commits them as pre-existing work, which the comment at `project_autonomy_orchestrator.py:376` keeps for a planning boundary |
| `EveryWaitEnds` (`ProjectAutonomy`) | `autonomy_progress` | `resolve_decision` approves the item in transactions of its own before it writes "done" (`project_intake.py:258`); a crash or lock timeout between them leaves the item approved, a second answer is refused (`approval.py:693`), and the project waits for it for ever |
| `RunEndsInResult` (`WorkQueue`) | `queue_decides` | a status write that waits too long for the lock, in the `except` of `run_next`, before its `try`, or in `dispatch`, leaves the item "running" in a live process, and nothing looks for it (`autonomy.py:249`, `353`; `approval.py:524`-`597`) |
| `OneRunner` (`WorkQueue`) | `queue_calls` | `enqueue` inserts, a runner claims, `enqueue` writes the verdict's status "pending" over "running", a second runner claims (`db.py:527`, `autonomy.py:153`) |
| `StartIsServed` (`BuildWorkers`) | `workers` | `start` finds a loop that has looked at the session for the last time and answers that it runs |
| `ChangesAreChecked` (`CodingAgent`) | `agent_checks` | without both snapshots, in a workspace of more than 5000 files, only the write tools' files count, and a run in which a command edited files ends ok without a check; the docstring says "everything actually changed" (`coding_agent.py:231`), the comment at `:57` admits the fallback |
| `DeletionsAreChecked` (`CodingAgent`) | `agent_checks` | a run whose only change is a deletion ends ok without a check; the docstring says "everything actually changed" (`coding_agent.py:231`) |
| `FailureIsReal` (`CodingAgent`) | `agent_checks` with the kind "contract" | a run with a write allowlist has no `run_command` tool, so that every command of its check is refused as unknown, and the verdict is bad |
| `NothingLingers` (`CodingAgent`) | `agent_checks` | a process that outlives its signals is at work when the next run begins in its workspace |
| `NoReplay` (`Heartbeat`) | `heartbeat` with 1 message, `Spec` | after a restart the first `getUpdates` fails, the adapter begins without an offset and a message routed before the restart is routed again ("so a restart does not replay", `telegram_adapter.py:217`) |

Without a property of their own, seen while reading the code for the models:

* two overlapping calls of `queue_delegation` with one key both run the item
  (`delegation.py:300`); approve, deny and edit racing each other are
  last-write-wins; two dispatches that both read "approved" both run; an approval
  given before a pending item was classified meets an item already claimed;
* a claim that is refused raises out of `run_next` and ends the background loop; a
  foreground run that takes the task makes the loop end "idle", and the session
  stays active without a loop;
* the tool calls left of a round are still executed after `ask_founder`; a
  cancelled command is, to the agent, one more tool error; a command between its
  `Popen` and its registration is missed by `cancel_workspace` and `cancel_all`;
* the status "project_decision_requires_ui" is not among the adapter's replying
  statuses, so that the reply the API composes for it (`api.py:2656`) is never
  sent; a refused brief is audited and not notified (`heartbeat.py:275`, against
  the docstring at `:23`); the audit row of `send_now` suppresses that day's
  scheduled brief, whatever became of it; a record written after midnight
  suppresses the next day's; an alert whose `notify` fails, or is taken for a
  duplicate of a dead process's queued row, is not made again until the next day;
* a failed stream whose exception has no text is not marked uncertain:
  `mark_uncertain` refuses the empty reason (`build_budget.py:181`), which
  `anthropic_build.py:141` does not replace, as `openai_review.py:137` does; the
  reservation stays and the lease is not paused;
* the one-shot egress grants are issued and never consumed: `consume_grant` has no
  caller;
* the review routes approve and use a lease without looking at the session's
  status, so that a quarantined session can be reviewed.

## 5. What is proved

TLAPS checks the theorems for every value of the constants that satisfies the
assumptions stated in the modules: any finite set of tasks with any dependencies,
any attempt limits, any number of concurrent calls, requests, lease versions,
clients, processes, notices, runners, desks, workers, criteria, sessions, threads,
agents, cancellers and messages, any positive reservations, any charges. Every
safety invariant and every action property that a run checks is stated by a
theorem, and so are both refinements; what is left to TLC is liveness (5.9).
`TypeOK` of every module but `ProjectAutonomy` is a theorem and no property of a
run, and so are `AttemptsGranted` and `CancelledIsQuiet` of `BuildSession`.

Each inductive invariant was first given to TLC as an invariant of the runs of its
module, and holds there.

### 5.1 BuildSessionProofs

The safety properties are not inductive one by one: that a task is not executed
twice rests on the agreement of task and run table, which rests on what each call
remembers having claimed. The inductive invariant is

    IInv == TypeInv /\ RowInv /\ SafetyInv

* `TypeInv`: `TypeOK`, and `JobOK`, what a call holds at each label;
* `RowInv`: `RunOwnership`, a running task points at an attempt, an absent task has
  none, and no attempt number above `attempts` has a row;
* `SafetyInv`: the safety properties themselves, which need each other (an
  operator's retry keeps `CloudNeverRetried` because the last attempt is the only
  one that can be a cloud attempt).

`CallsAreExclusive` adds `OwnInv`: `CallOwnsRun`, and that a dead kernel has no
calls; it is proved on top of `IInv`. `HistoryFinal` is an action property under
the same invariant.

The actions fall into a few kinds of effect on the rows (kept, added, claimed,
ended, cancelled, recovered); a lemma says so for each action (`StepKinds`), and
each part of the invariant is shown for each kind.

`LedgerKeepsPromise` is the refinement of `TaskRecord`, kind by kind: an added row
is its `Add`, a claim its `Start`, a finish and a recovery its `End`, a cancellation
its `Withdraw`, an operator's retry its `Grant`, and everything else a stutter. A
claim can be a `Start` because a queued task was never paid for
(`CloudNeverRetried`), and a row that goes back to the queue may, because its
active run is its last one (`RunOwnership`), so that a look at that run's backend
is a look at all of them.

### 5.2 BuildLeaseProofs

    IInv == TypeOK /\ HoldsRequest /\ RowWhileSending /\ OwnRequest /\ NotYetSent
            /\ NothingUnrecorded

`NothingUnrecorded` says that a request once sent has a row for ever. The only
step that deletes a row is `ReleaseUnsent`, and it must be shown that the row it
deletes was never sent: the call that releases it has not sent it (`NotYetSent`),
and no other call has the same id (`OwnRequest`). Both are true of build turns
only, which draw a fresh id per turn; reviews, which take the id of their caller,
have no release. `RowWhileSending` gives the row of a request about to be sent,
and `HoldsRequest` that a call past its preflight has an id at all.

`LedgerTypes` (`TypeOK`, which includes that an event has a lease exactly while it
has a row), `SendsAreRecorded` (`NothingUnrecorded`) and `SettlementsAreFinal`
(`SettledIsFinal`) follow.

**The sums.** A sum over requests or leases is written as the number of its units
(`Sum(f, S)` counts a set that holds `f[x]` units for each `x`), so that the
theorems about cardinalities of disjoint unions, products and intervals say how
it changes; no induction over sets is needed. On top of `IInv`,

    SumInv == IInv /\ TargetWritten /\ Metered /\ TurnReserved /\ Totals /\ TurnsNumbered

* `Totals`: a lease reserves what it began with and what its outstanding rows
  reserve (`ReservedHeld`); its totals cover what it began with and what its rows
  weigh (`TotalsCover`); a superseded lease left its totals with its successor
  (`SupersededCarried`); and a lease that was never enlarged weighs no more than
  its limit (`WithinLimit`);
* `TurnsNumbered`: the rows of a lease have turn numbers of their own within its
  turn limit;
* `Metered`, `TurnReserved`, `TargetWritten`: what a call in flight knows of its row
  and the provider's meter.

The steps fall into kinds again (nothing that counts, a transmission, a
reservation, a release, a settlement, a new lease, an enlarged one). The theorems are `LedgerSums`
(`SumInv`), `ReservationsAgree`, `SpendIsGranted`, `SpendIsCovered` and
`TurnsAreGranted`, and two of them have a hypothesis that the run which checks the
property shares:

* `SpendIsGranted` and `SpendIsCovered` are about build turns (`Provider =
  "anthropic"`). A review takes its request id from its caller; two reviews under
  one id share a reservation and are charged twice (`SentOnce`, section 4), and
  then the totals do not cover the charge.
* `TurnsAreGranted` holds for reviews, and for build turns as long as no lease was
  enlarged, which is also what `SpendWithinGrants` says: after an enlargement a
  settlement may reopen the superseded row.

### 5.3 AutonomyStoreProofs

    IInv == TypeOK /\ StateIsHistory /\ ViewSound /\ HasRow /\ ResultSound
            /\ Promised /\ DeliveredSent

That a change is made on top of every change before it (`RefinesRecord`) rests on
`ViewSound`: a caller that is about to write has read a version not above the
current one, and if it is the current one, then the state it read is the current
state. So the compare of the version is a compare of the state. `Promised` says
that what an event owes has an outbox row, `DeliveredSent` and `ResultSound` that a
row is marked delivered only for a notice the channel took, which together with
`HasRow` is `NoticeKept`. `StoreRefinesRecord` maps the initial states and shows
for each action that it is the record's `Change`, a settlement, a step of the
lease, or a stutter. `Invariant`, `TypeCorrect`, `HistoryIsState`, `NoticesKept`
and `LeasesNotTaken` are the other theorems.

### 5.4 ProjectAutonomyProofs

    AutonomyInv == LeaseKept /\ (\A w : InHand(w)) /\ RowKept

The founder's requests write the row without the lease, between any two steps of
a worker, so no property is about the row alone. `LeaseKept`: a worker is past its
claim exactly while the lease names it. `InHand`: the criterion a worker works on
is not complete, what was complete when it read the row is, it has passed its
checks once it is to be recorded, and a question is filed before it is asked.
`RowKept`: what is complete has passed its checks, and the item behind a decision
is filed.

What a step makes of the row is told first: each method of the reporter moves the
row without completing anything, taking anything complete back, recording the
milestone or asking (`Moves`), but for three that do one of these each (`RowSteps`).
Then what a step leaves alone (`Frame`), one line per variable, and the invariants
follow from the two. `AutonomyInvariant` is the invariant with `TypeOK`;
`WaitsAreAnswerable`, `CompletedStays` and `MilestonesAreEarned` are
`WaitIsAnswerable`, `CompletedKept` and `MilestoneEarned`, through every replan.

`CompletionsInOrder` (`InOrder`) holds when the founder does not replan, which is
the instance that checks it, with crashes, conflicts, answers, pauses and reopens.
With replans the code does not keep it (section 4): a replan writes the plan and
the phase under a running increment. The invariant behind it is `OrderInv`: the
increment under way is of a pending criterion whose dependencies are complete,
and what a worker saw of it is still so.

### 5.5 WorkQueueProofs

`TypeCorrect` is proved with `TypeInv == TypeOK /\ Sound`: a call has at hand what
the code it is in takes for granted (a desk past its lookup has a request, a row
that is filed about has a proposal). `RunsAreAuthorised` (`Authorised`) needs
`GrantInv`: where the founder's word is on its way to a run, in the row, in the
copy a call goes by, or in the delegation that made the item. `RunnersExclude`
(`QueueRunsOnce`) needs `Exclusive`: as long as no item was claimed early, no runner
has an item that can still be claimed, or whose verdict is still to be written,
and no two have one.

### 5.6 BuildWorkersProofs

    WorkersInv == TasksKept /\ OneWorker /\ QueueKept /\ LoopsKept /\ BootKept /\ StopKept

`OneLoop` needs `LoopsKept`: a loop that waits or runs is the future of its session,
and a loop is the future of one session only. Since `start` looks at that future
under the lock, a second loop is submitted only when the first has ended; that a
number used again is nobody's future is part of it, as is the queue that lists
the waiting loops once each (`QueueKept`). `BootKept` keeps the recovery at boot
from meeting requests. `OneWorker` and `TasksKept` give the types of what a worker
takes and gives back. `StopsAtTask` needs `StopKept`: a loop that claimed after the
shutdown is at a place from where it comes to the check before it claims again.

The theorems are `WorkersInvariant`, `OneLoopEach` and `StopsWithinATask`. The module
assumes that there is a session, since a thread at rest is about some session.

### 5.7 CodingAgentProofs

    IInv == TypeInv /\ Places /\ Answers /\ Verdicts /\ Current

`Places` ties the runner to the agent: a command is under way only during a call or
a check, and its process has ended when it answers. `Answers` says that a command
answered ok returned 0, was not cancelled and did not run out of time
(`CancellationsHonoured`); `Verdicts` that no file changes while checks run and a
command that was not a plain 0 has already made the verdict (`PassesAreEarned`);
`Current` that a verdict before the end is the bad one a repair is for, and that
what changed since is a change by a tool that is over, which makes the repair go
into another check or stop with a question or an error (`VerdictsAreCurrent`).

### 5.8 HeartbeatProofs

    IInv == AdapterTypeOK /\ InTurn /\ Arrivals /\ HeartbeatTypes /\ Briefs

`InTurn`: what a thread has routed is exactly what came after its beginning and
before the next update due, Telegram has forgotten nothing of what is due, and an
answer holds the updates from there on. `Arrivals`: what earlier processes routed
came before the beginning of a process that learnt it. They give `RoutesInTurn`
(`RoutedInTurn`). `Briefs`: a brief no record tells of is the one being recorded,
or one that was lost; it gives `BriefsOnce` (`BriefOnce`).

### 5.9 What is only model-checked

* Every liveness property (`RunSettles`, `CancellationEnds`, `Settles`,
  `AnswerHeard`, `Decidable`, `Drains`, `GetsItsTurn`, `RunEnds`, `DownIsReported`):
  fairness is outside what the prover does.
* Everything in section 4, which is a counterexample each.

## 6. Not modelled

`PROJECT.json` lists every component with what is modelled of it or why it is not.
In short:

* assessment, routing scores, calibration, verification commands, prompts, memory,
  connectors, briefs, reports, the trading bot and the devices compute text or
  numbers, or move data in and out, without state that actors share;
* pairing, signing and the replay window of the channels authenticate a sender;
  OpenClaw is another transport for the same flow;
* the egress decision is a lookup, and its one-shot grants are never consumed;
* action plans are front ends of the work queue, the other delegation roles of the
  build and the queue;
* the parent of a founder decision, the hybrid engine's own approvals and the
  producers of work items (scans, briefs, plans).

Within the modelled components, evidence rows and assessments are append-only and
left out, as are the unused `pause_lease`, schema migrations and the three-way
split of an amount.

## 7. Plan

1. **`SpendEnvelope`**: an abstract ledger (granted, committed, charged) that
   `BuildLease` implements while no lease is enlarged.
2. **An abstract work item** (proposed, allowed, taken, through) that `WorkQueue`
   implements as long as no item is claimed before its classification.
3. **Evidence gate and routing** (`_apply_evidence_gate`, `build_routing.py`) and the
   channels' rules as operators, checked against a reference definition over
   bounded inputs.
