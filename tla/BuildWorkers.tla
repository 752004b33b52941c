---------------------------- MODULE BuildWorkers ----------------------------
(***************************************************************************)
(* BuildExecutionManager: a pool of threads that works off the sessions,   *)
(* one loop per session, while the founder starts, pauses, resumes, runs,  *)
(* cancels and quarantines them, and the kernel stops or dies.             *)
(*                                                                         *)
(* The ledger under it is BuildSession; here a session is a chain of tasks *)
(* of which one at a time can be claimed. A loop is one submitted future.  *)
(* A method of the store is one step; what a call read before it acts on   *)
(* is kept in its view.                                                    *)
(***************************************************************************)
EXTENDS Naturals, Sequences, FiniteSets

CONSTANTS
    Session,
    Caller,        \* request handlers
    Work,          \* Work[s]: the tasks of session s
    Ops,           \* Ops[s]: what is asked about session s
    MaxLoop,       \* bound: futures somebody still refers to
    MaxWorkers,    \* max_workers
    MaxTasks,      \* max_tasks_per_run
    MaxFault       \* bound: restarts

ASSUME WorkersAssumption ==
    /\ Session # {}
    /\ Work \in [Session -> Nat \ {0}]
    /\ Ops \in [Session -> SUBSET {"start", "resume", "run", "retry", "pause", "cancel",
                                  "quarantine"}]
    /\ MaxLoop \in Nat \ {0}
    /\ MaxWorkers \in Nat \ {0}
    /\ MaxTasks \in Nat \ {0}
    /\ MaxFault \in Nat
    /\ Caller \cap (1..MaxLoop) = {}

Loop == 1..MaxLoop
NoLoop == 0
Runner == Loop \cup Caller

VARIABLES
    status,     \* build_sessions.status
    left,       \* its pending tasks
    busy,       \* is one of its tasks running?
    failed,     \* has one of its tasks failed?
    up,         \* is the kernel process running?
    faults,     \* restarts so far
    listed,     \* the sessions recover() has still to look at
    stopping,   \* _stopping
    closed,     \* the executor takes no more work
    future,     \* _futures
    loop,       \* what became of each submitted loop
    queue,      \* the executor's queue
    pc,         \* where each loop and each request is
    of,         \* the session it is about
    rounds,     \* the rounds of a loop
    verdict,    \* what the task a runner executed came to
    late        \* history: tasks a loop claimed after the shutdown

rowVars == <<status, left, busy, failed>>
poolVars == <<stopping, closed, future, loop, queue>>
callVars == <<pc, of, rounds, verdict>>
vars == <<rowVars, up, faults, listed, poolVars, callVars, late>>

----------------------------------------------------------------------------
Status == {"active", "paused", "cancelling", "cancelled", "quarantined", "complete"}
Verdict == {"none", "succeeded", "completed", "failed", "cancelled"}
Where == {"idle", "resuming", "reopening", "starting", "unpausing", "submitting",
          "retrying", "rereading", "entering", "choosing", "claiming", "executing",
          "finishing", "recording", "ending"}

TypeOK ==
    /\ status \in [Session -> Status]
    /\ left \in [Session -> Nat] /\ \A s \in Session : left[s] <= Work[s]
    /\ busy \in [Session -> BOOLEAN]
    /\ failed \in [Session -> BOOLEAN]
    /\ up \in BOOLEAN
    /\ faults \in 0..MaxFault
    /\ listed \subseteq Session
    /\ stopping \in BOOLEAN
    /\ closed \in BOOLEAN
    /\ future \in [Session -> Loop \cup {NoLoop}]
    /\ loop \in [Loop -> {"unused", "queued", "running", "done"}]
    /\ queue \in Seq(Loop) /\ Len(queue) <= MaxLoop
    /\ pc \in [Runner -> Where]
    /\ of \in [Runner -> Session]
    /\ rounds \in [Loop -> 0..MaxTasks]
    /\ verdict \in [Runner -> Verdict]
    /\ late \in [Loop -> Nat]

(* What an idle runner is about. *)
NoSession == CHOOSE s \in Session : TRUE

NoMemory ==
    /\ stopping' = FALSE
    /\ closed' = FALSE
    /\ future' = [s \in Session |-> NoLoop]
    /\ loop' = [l \in Loop |-> "unused"]
    /\ queue' = <<>>
    /\ pc' = [r \in Runner |-> "idle"]
    /\ of' = [r \in Runner |-> NoSession]
    /\ rounds' = [l \in Loop |-> 0]
    /\ verdict' = [r \in Runner |-> "none"]
    /\ late' = [l \in Loop |-> 0]

Init ==
    /\ status = [s \in Session |-> "active"]
    /\ left = Work
    /\ busy = [s \in Session |-> FALSE]
    /\ failed = [s \in Session |-> FALSE]
    /\ up = TRUE
    /\ faults = 0
    /\ listed = {}
    /\ stopping = FALSE
    /\ closed = FALSE
    /\ future = [s \in Session |-> NoLoop]
    /\ loop = [l \in Loop |-> "unused"]
    /\ queue = <<>>
    /\ pc = [r \in Runner |-> "idle"]
    /\ of = [r \in Runner |-> NoSession]
    /\ rounds = [l \in Loop |-> 0]
    /\ verdict = [r \in Runner |-> "none"]
    /\ late = [l \in Loop |-> 0]

Serving == up /\ listed = {}
At(r, where) == up /\ pc[r] = where
Goto(r, where) == pc' = [pc EXCEPT ![r] = where]
Live == {l \in Loop : loop[l] \in {"queued", "running"}}
Running == {l \in Loop : loop[l] = "running"}

(* A request is answered, or raises. *)
Answered(c) ==
    /\ Goto(c, "idle")
    /\ of' = [of EXCEPT ![c] = NoSession]
    /\ verdict' = [verdict EXCEPT ![c] = "none"]
    /\ UNCHANGED rounds

(* run_next returns: a loop ends or looks again, a request is answered.    *)
Return(r, ends) ==
    IF r \in Caller THEN Answered(r)
    ELSE /\ Goto(r, IF ends THEN "ending" ELSE "entering")
         /\ verdict' = [verdict EXCEPT ![r] = "none"]
         /\ UNCHANGED <<of, rounds>>

----------------------------------------------------------------------------
(* Requests                                                                *)

Begin(c, o, s) ==
    /\ Serving /\ pc[c] = "idle" /\ o \in Ops[s]
    /\ of' = [of EXCEPT ![c] = s]
    /\ LET first == [start |-> "starting", resume |-> "resuming", run |-> "choosing",
                     retry |-> "retrying"]
       IN  Goto(c, first[o])
    /\ UNCHANGED <<rowVars, up, faults, listed, poolVars, rounds, verdict, late>>

(* resume: the session is read, and resumed when it was paused.            *)
Resume(c) ==
    /\ At(c, "resuming")
    /\ Goto(c, IF status[of[c]] = "paused" THEN "reopening" ELSE "starting")
    /\ UNCHANGED <<rowVars, up, faults, listed, poolVars, of, rounds, verdict, late>>

(* resume_session raises unless the session is still paused.               *)
ResumeSession(c, where, then) ==
    /\ At(c, where)
    /\ IF status[of[c]] = "paused"
       THEN /\ status' = [status EXCEPT ![of[c]] = "active"]
            /\ Goto(c, then)
            /\ UNCHANGED <<of, rounds, verdict>>
       ELSE Answered(c) /\ UNCHANGED status
    /\ UNCHANGED <<left, busy, failed, up, faults, listed, poolVars, late>>

Reopen(c) == ResumeSession(c, "reopening", "starting")
Unpause(c) == ResumeSession(c, "unpausing", "submitting")

(* start: up to the lock.                                                  *)
Start(c) ==
    /\ At(c, "starting")
    /\ IF stopping \/ status[of[c]] \in {"cancelled", "quarantined", "complete"}
       THEN Answered(c)
       ELSE /\ Goto(c, IF status[of[c]] = "paused" THEN "unpausing" ELSE "submitting")
            /\ UNCHANGED <<of, rounds, verdict>>
    /\ UNCHANGED <<rowVars, up, faults, listed, poolVars, late>>

DoneUnchecked(l) == TRUE
Done(l) == l = NoLoop \/ loop[l] = "done"

(* executor.submit: the loop waits for a thread. The future it replaces is *)
(* nobody's any more, and its number free.                                 *)
Unused == {l \in Loop : loop[l] = "unused"}
Enlist(s, l) ==
    /\ IF future[s] # NoLoop /\ loop[future[s]] = "done" THEN l = future[s]
       ELSE l \in Unused /\ \A m \in Unused : l <= m
    /\ loop' = [loop EXCEPT ![l] = "queued"]
    /\ future' = [future EXCEPT ![s] = l]
    /\ queue' = Append(queue, l)

(* start, under the lock; a closed executor raises.                        *)
Submit(c) ==
    /\ At(c, "submitting")
    /\ IF Done(future[of[c]]) /\ ~closed
       THEN \E l \in Loop :
              /\ Enlist(of[c], l)
              /\ of' = [of EXCEPT ![l] = of[c], ![c] = NoSession]
       ELSE of' = [of EXCEPT ![c] = NoSession] /\ UNCHANGED <<loop, future, queue>>
    /\ Goto(c, "idle")
    /\ UNCHANGED <<rowVars, up, faults, listed, stopping, closed, rounds, verdict, late>>

(* retry_failed_local_task; then the session is read, and started only     *)
(* when it is active.                                                      *)
Retry(c) ==
    /\ At(c, "retrying")
    /\ IF failed[of[c]] /\ status[of[c]] \in {"active", "paused"}
       THEN /\ failed' = [failed EXCEPT ![of[c]] = FALSE]
            /\ left' = [left EXCEPT ![of[c]] = @ + 1]
            /\ Goto(c, "rereading")
            /\ UNCHANGED <<of, rounds, verdict>>
       ELSE Answered(c) /\ UNCHANGED <<left, failed>>
    /\ UNCHANGED <<status, busy, up, faults, listed, poolVars, late>>

Reread(c) ==
    /\ At(c, "rereading")
    /\ IF status[of[c]] = "active"
       THEN Goto(c, "starting") /\ UNCHANGED <<of, rounds, verdict>>
       ELSE Answered(c)
    /\ UNCHANGED <<rowVars, up, faults, listed, poolVars, late>>

(* pause_session, cancel_session and quarantine_session: one transaction   *)
(* each. The commands a cancellation ends are in CodingAgent.              *)
Pause(s) ==
    /\ Serving /\ "pause" \in Ops[s] /\ status[s] = "active"
    /\ status' = [status EXCEPT ![s] = "paused"]
    /\ UNCHANGED <<left, busy, failed, up, faults, listed, poolVars, callVars, late>>

Cancel(s) ==
    /\ Serving /\ "cancel" \in Ops[s]
    /\ status' = [status EXCEPT ![s] = IF busy[s] THEN "cancelling" ELSE "cancelled"]
    /\ left' = [left EXCEPT ![s] = 0]
    /\ UNCHANGED <<busy, failed, up, faults, listed, poolVars, callVars, late>>

Quarantine(s) ==
    /\ Serving /\ "quarantine" \in Ops[s] /\ status[s] \notin {"complete", "cancelled"}
    /\ status' = [status EXCEPT ![s] = "quarantined"]
    /\ UNCHANGED <<left, busy, failed, up, faults, listed, poolVars, callVars, late>>

----------------------------------------------------------------------------
(* _run_session                                                            *)

(* A thread of the pool takes the loop that waited longest.                *)
Dispatch ==
    /\ up /\ queue # <<>>
    /\ Cardinality(Running) < MaxWorkers
    /\ loop' = [loop EXCEPT ![Head(queue)] = "running"]
    /\ queue' = Tail(queue)
    /\ Goto(Head(queue), "entering")
    /\ UNCHANGED <<rowVars, up, faults, listed, stopping, closed, future, of, rounds,
                   verdict, late>>

(* The check before each of the max_tasks_per_run rounds.                  *)
WhileActive(l) == status[of[l]] = "active"
UnlessStopped(l) == rounds[l] < MaxTasks /\ status[of[l]] = "active"
GoesOn(l) ==
    /\ rounds[l] < MaxTasks
    /\ ~stopping
    /\ status[of[l]] = "active"

Enter(l) ==
    /\ At(l, "entering")
    /\ IF GoesOn(l)
       THEN /\ rounds' = [rounds EXCEPT ![l] = IF @ < MaxTasks THEN @ + 1 ELSE @]
            /\ Goto(l, "choosing")
       ELSE Goto(l, "ending") /\ UNCHANGED rounds
    /\ UNCHANGED <<rowVars, up, faults, listed, poolVars, of, verdict, late>>

(* The future is done: a moment after the loop looked for the last time.   *)
Conclude(l) ==
    /\ At(l, "ending")
    /\ loop' = [loop EXCEPT ![l] = IF \E s \in Session : future[s] = l THEN "done"
                                  ELSE "unused"]
    /\ Goto(l, "idle")
    /\ of' = [of EXCEPT ![l] = NoSession]
    /\ rounds' = [rounds EXCEPT ![l] = 0]
    /\ late' = [late EXCEPT ![l] = 0]
    /\ UNCHANGED <<rowVars, up, faults, listed, stopping, closed, future, queue, verdict>>

----------------------------------------------------------------------------
(* run_next                                                                *)

Ready(s) == left[s] > 0 /\ ~busy[s] /\ ~failed[s]
AllSucceeded(s) == left[s] = 0 /\ ~busy[s] /\ ~failed[s]

(* The results after which _run_session returns.                           *)
EndsLoop == {"blocked", "idle", "complete", "paused", "cancelled"}

(* The session and its tasks are read; a task may be the founder's to      *)
(* route, and a session whose tasks all succeeded is completed.            *)
Choose(r) ==
    /\ At(r, "choosing")
    /\ LET s == of[r]
       IN  \/ status[s] # "active" /\ Return(r, status[s] \in EndsLoop)
           \/ /\ status[s] = "active" /\ AllSucceeded(s)
              /\ Goto(r, "recording")
              /\ verdict' = [verdict EXCEPT ![r] = "completed"]
              /\ UNCHANGED <<of, rounds>>
           \/ /\ status[s] = "active" /\ ~AllSucceeded(s)
              /\ \/ Ready(s) /\ Goto(r, "claiming") /\ UNCHANGED <<of, rounds, verdict>>
                 \/ Return(r, TRUE)
    /\ UNCHANGED <<rowVars, up, faults, listed, poolVars, late>>

(* claim_task, which raises out of run_next and out of the loop when the   *)
(* task is no longer to be had.                                            *)
Claim(r) ==
    /\ At(r, "claiming")
    /\ IF status[of[r]] = "active" /\ Ready(of[r])
       THEN /\ left' = [left EXCEPT ![of[r]] = @ - 1]
            /\ busy' = [busy EXCEPT ![of[r]] = TRUE]
            /\ late' = [l \in Loop |-> IF l = r /\ stopping THEN late[l] + 1 ELSE late[l]]
            /\ Goto(r, "executing")
            /\ UNCHANGED <<of, rounds, verdict>>
       ELSE Return(r, TRUE) /\ UNCHANGED <<left, busy, late>>
    /\ UNCHANGED <<status, failed, up, faults, listed, poolVars>>

(* The task is executed, and judged by the session as it is afterwards.    *)
Execute(r) ==
    /\ At(r, "executing")
    /\ \E v \in IF status[of[r]] \in {"cancelling", "cancelled", "quarantined"}
                 THEN {"cancelled"}
                 ELSE {"failed", IF left[of[r]] = 0 THEN "completed" ELSE "succeeded"} :
         verdict' = [verdict EXCEPT ![r] = v]
    /\ Goto(r, "finishing")
    /\ UNCHANGED <<rowVars, up, faults, listed, poolVars, of, rounds, late>>

(* A task that did not succeed goes back to the queue or has failed.       *)
Unsuccessful(s) ==
    \/ left' = [left EXCEPT ![s] = @ + 1] /\ UNCHANGED failed
    \/ failed' = [failed EXCEPT ![s] = TRUE] /\ UNCHANGED left

Finish(r) ==
    /\ At(r, "finishing")
    /\ busy' = [busy EXCEPT ![of[r]] = FALSE]
    /\ IF verdict[r] = "failed" THEN Unsuccessful(of[r]) ELSE UNCHANGED <<left, failed>>
    /\ status' = [status EXCEPT ![of[r]] = IF @ = "cancelling" THEN "cancelled" ELSE @]
    /\ IF verdict[r] \in {"succeeded", "completed"}
       THEN Goto(r, "recording") /\ UNCHANGED <<of, rounds, verdict>>
       ELSE Return(r, verdict[r] \in EndsLoop)
    /\ UNCHANGED <<up, faults, listed, poolVars, late>>

(* checkpoint: the last phase completes the session, whatever its status.  *)
Record(r) ==
    /\ At(r, "recording")
    /\ status' = [status EXCEPT ![of[r]] =
                     IF verdict[r] = "completed" THEN "complete" ELSE @]
    /\ Return(r, status'[of[r]] = "complete")
    /\ UNCHANGED <<left, busy, failed, up, faults, listed, poolVars, late>>

----------------------------------------------------------------------------
(* shutdown, exit, crash and recovery                                      *)

Shutdown ==
    /\ Serving /\ ~stopping
    /\ faults < MaxFault
    /\ stopping' = TRUE
    /\ UNCHANGED <<rowVars, up, faults, listed, closed, future, loop, queue, callVars, late>>

(* executor.shutdown(cancel_futures=True) *)
Close ==
    /\ up /\ stopping /\ ~closed
    /\ closed' = TRUE
    /\ queue' = <<>>
    /\ loop' = [l \in Loop |-> IF loop[l] = "queued" THEN "done" ELSE loop[l]]
    /\ UNCHANGED <<rowVars, up, faults, listed, stopping, future, callVars, late>>

Down ==
    /\ up' = FALSE
    /\ faults' = faults + 1
    /\ listed' = {}
    /\ NoMemory
    /\ UNCHANGED rowVars

(* The interpreter waits for the threads of the pool.                      *)
Exit == up /\ closed /\ Running = {} /\ Down

Crash == up /\ ~stopping /\ faults < MaxFault /\ Down

(* recover_interrupted_runs, and the list of the active sessions.          *)
Restart ==
    /\ ~up
    /\ up' = TRUE
    /\ busy' = [s \in Session |-> FALSE]
    /\ \E requeued \in SUBSET {s \in Session : busy[s]} :
         /\ left' = [s \in Session |-> IF s \in requeued THEN left[s] + 1 ELSE left[s]]
         /\ failed' = [s \in Session |-> failed[s] \/ (busy[s] /\ s \notin requeued)]
    /\ status' = [s \in Session |-> IF status[s] = "cancelling" THEN "cancelled"
                                    ELSE status[s]]
    /\ listed' = {s \in Session : status[s] = "active"}
    /\ UNCHANGED <<faults, poolVars, callVars, late>>

(* recover: nobody but earlier loops is about yet, so start() finds the    *)
(* session as it was listed.                                               *)
BootStart(s) ==
    /\ up /\ s \in listed
    /\ listed' = listed \ {s}
    /\ IF left[s] > 0
       THEN \E l \in Loop : Enlist(s, l) /\ of' = [of EXCEPT ![l] = s]
       ELSE UNCHANGED <<loop, future, queue, of>>
    /\ UNCHANGED <<rowVars, up, faults, stopping, closed, pc, rounds, verdict, late>>

----------------------------------------------------------------------------
Requesting(c) ==
    \/ Resume(c) \/ Reopen(c) \/ Start(c) \/ Unpause(c) \/ Submit(c)
    \/ Retry(c) \/ Reread(c)
RunNext(r) == Choose(r) \/ Claim(r) \/ Execute(r) \/ Finish(r) \/ Record(r)
Looping(l) == Enter(l) \/ Conclude(l)

Next ==
    \/ \E c \in Caller :
         Requesting(c) \/ \E o \in {"start", "resume", "run", "retry"}, s \in Session : Begin(c, o, s)
    \/ \E s \in Session : Pause(s) \/ Cancel(s) \/ Quarantine(s) \/ BootStart(s)
    \/ \E r \in Runner : RunNext(r)
    \/ \E l \in Loop : Looping(l)
    \/ Dispatch \/ Shutdown \/ Close \/ Exit \/ Crash \/ Restart

Spec == Init /\ [][Next]_vars

(* Threads go on while the process runs, an idle thread takes what waits,  *)
(* and a dead kernel is started again. Nobody has to ask for anything.     *)
Fairness ==
    /\ \A c \in Caller : WF_vars(Requesting(c))
    /\ \A r \in Runner : WF_vars(RunNext(r))
    /\ \A l \in Loop : WF_vars(Looping(l))
    /\ \A s \in Session : WF_vars(BootStart(s))
    /\ WF_vars(Dispatch) /\ WF_vars(Close) /\ WF_vars(Exit) /\ WF_vars(Restart)

LiveSpec == Spec /\ Fairness

----------------------------------------------------------------------------
(* A session has at most one loop, however start, resume, retry and the    *)
(* recovery at boot coincide (start, under its lock).                      *)
OneLoop ==
    \A s \in Session : Cardinality({l \in Live : of[l] = s}) <= 1

(* "Shutdown prevents a worker from starting another task" (the test of    *)
(* that name): a loop that was past its check may still claim the task it  *)
(* was about to, and no second one.                                        *)
StopsAtTask == \A l \in Loop : late[l] <= 1

(* A loop that waits for a thread gets one, or is cancelled: no session    *)
(* holds a thread for ever, however often its tasks are retried. And a     *)
(* kernel told to stop comes down, whatever is asked of it meanwhile.      *)
GetsItsTurn ==
    /\ \A l \in Loop : loop[l] = "queued" ~> loop[l] # "queued"
    /\ stopping ~> ~stopping

(* start answers "running" only for a loop that will look at the session   *)
(* again ("background start, pause, resume").                              *)
StartIsServed ==
    [][\A c \in Caller : Submit(c) /\ ~closed => pc[future'[of[c]]] # "ending"]_vars
=============================================================================
