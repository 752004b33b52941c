------------------------- MODULE BuildWorkersProofs -------------------------
(***************************************************************************)
(* Proofs about BuildWorkers: its types, that a session has at most one    *)
(* loop, and that a loop claims at most one task after the shutdown.       *)
(*                                                                         *)
(* The invariant says who holds what: the queue lists the loops that wait, *)
(* a loop has a place in the code exactly when it runs, a live loop is the *)
(* future of its session, a task that is worked on is one worker's, and    *)
(* tasks are neither made nor counted twice. Most steps leave all of this  *)
(* still, each in the same few ways (Still); the others are taken one by   *)
(* one.                                                                    *)
(***************************************************************************)
EXTENDS BuildWorkers, FiniteSetTheorems, TLAPS

(* A runner that has a task in hand. *)
Working(r) == pc[r] \in {"executing", "finishing"}
One(b) == IF b THEN 1 ELSE 0

(* Every task is pending, running, failed or through: none is made.        *)
TasksKept == \A s \in Session : left[s] + One(busy[s]) + One(failed[s]) <= Work[s]

(* A task that is worked on runs, and nobody else has one of its session.  *)
OneWorker ==
    /\ \A r \in Runner : Working(r) => busy[of[r]]
    /\ \A q, r \in Runner : Working(q) /\ Working(r) /\ of[q] = of[r] => q = r

InQueue(l) == \E i \in 1..Len(queue) : queue[i] = l

(* The queue holds the loops that wait, each once.                         *)
QueueKept ==
    /\ \A l \in Loop : InQueue(l) <=> loop[l] = "queued"
    /\ \A i, j \in 1..Len(queue) : queue[i] = queue[j] => i = j

(* A loop has a place in the code exactly when it runs; a loop that lives  *)
(* is the future of its session, and no loop is the future of two.         *)
LoopsKept ==
    /\ \A l \in Loop : loop[l] = "running" <=> pc[l] # "idle"
    /\ \A l \in Live : future[of[l]] = l
    /\ \A s \in Session : future[s] # NoLoop => loop[future[s]] # "unused"
    /\ \A s, t \in Session : future[s] = future[t] /\ future[s] # NoLoop => s = t

(* What a process that has just begun knows.                               *)
Memoryless ==
    /\ ~stopping /\ ~closed /\ listed = {} /\ queue = <<>>
    /\ \A s \in Session : future[s] = NoLoop
    /\ \A l \in Loop : loop[l] = "unused"
    /\ \A r \in Runner : pc[r] = "idle"

(* A dead kernel has no calls; one that starts looks at a session before   *)
(* anybody else does.                                                      *)
BootKept ==
    /\ ~up => Memoryless
    /\ listed # {} => ~stopping /\ \A c \in Caller : pc[c] = "idle"
    /\ \A s \in listed : future[s] = NoLoop

(* A loop that has claimed after the shutdown claimed once, and is past   *)
(* the check that lets it claim.                                           *)
StopKept ==
    /\ closed => stopping
    /\ stopping => faults < MaxFault
    /\ \A l \in Loop : late[l] = 0 \/ /\ stopping /\ late[l] = 1
                                      /\ pc[l] \notin {"idle", "choosing", "claiming"}

WorkersInv == TasksKept /\ OneWorker /\ QueueKept /\ LoopsKept /\ BootKept /\ StopKept

----------------------------------------------------------------------------
(* What the constants say of loops and callers.                            *)
LEMMA LoopFacts ==
    /\ Loop \subseteq Nat \ {0}
    /\ Loop \subseteq Runner /\ Caller \subseteq Runner
    /\ \A c \in Caller : c \notin Loop
    /\ NoLoop \notin Loop
    /\ NoSession \in Session
    /\ \A r \in Runner : r \in Loop \/ r \in Caller
BY WorkersAssumption DEF Loop, Runner, NoLoop, NoSession

(* Nothing happens to the queue, the futures and the loops; a runner may   *)
(* go somewhere.                                                           *)
PoolStill ==
    /\ UNCHANGED <<future, loop, queue>>
    /\ \A l \in Loop : of'[l] = of[l] /\ (pc'[l] = "idle" <=> pc[l] = "idle")

(* No task is claimed, given back or failed.                               *)
RowsStill ==
    /\ UNCHANGED <<left, busy, failed>>
    /\ \A r \in Runner : Working(r)' => Working(r) /\ of'[r] = of[r]

(* Nothing happens that only a start or an end of the kernel brings.       *)
BootStill ==
    /\ up /\ UNCHANGED <<up, listed, stopping, future>>
    /\ \A c \in Caller : pc[c] = "idle" /\ listed # {} => pc'[c] = "idle"

(* No loop claims, or gets back to where it may without the check.         *)
LateStill ==
    /\ UNCHANGED <<stopping, closed, faults>>
    /\ \A l \in Loop : late'[l] = late[l] /\ (pc'[l] = pc[l] \/ pc'[l] \notin {"idle", "choosing", "claiming"}
                        \/ pc[l] \in {"idle", "choosing", "claiming"} \/ ~stopping)

(* Each kind of stillness keeps its part of the invariant.                 *)
LEMMA PoolStillKeeps ==
    ASSUME TypeOK, QueueKept, LoopsKept, PoolStill
    PROVE  QueueKept' /\ LoopsKept'
BY LoopFacts DEF TypeOK, QueueKept, LoopsKept, PoolStill, InQueue, Live

LEMMA RowsStillKeeps ==
    ASSUME TypeOK, TasksKept, OneWorker, RowsStill
    PROVE  TasksKept' /\ OneWorker'
BY LoopFacts DEF TypeOK, TasksKept, OneWorker, RowsStill, Working, One

LEMMA BootStillKeeps ==
    ASSUME TypeOK, BootKept, BootStill
    PROVE  BootKept'
BY LoopFacts DEF TypeOK, BootKept, BootStill

LEMMA LateStillKeeps ==
    ASSUME TypeOK, StopKept, LateStill
    PROVE  StopKept'
BY LoopFacts DEF TypeOK, StopKept, LateStill

Still == PoolStill /\ RowsStill /\ BootStill /\ LateStill

LEMMA StillKeeps ==
    ASSUME TypeOK, WorkersInv, Still
    PROVE  WorkersInv'
BY PoolStillKeeps, RowsStillKeeps, BootStillKeeps, LateStillKeeps DEF WorkersInv, Still

(* run_next returns: a loop goes on, a request is answered.                *)
LEMMA Returned ==
    ASSUME TypeOK, NEW r \in Runner, NEW ends \in BOOLEAN, Return(r, ends)
    PROVE  /\ \A q \in Runner \ {r} : pc'[q] = pc[q] /\ of'[q] = of[q]
           /\ r \in Loop => pc'[r] \in {"entering", "ending"} /\ of'[r] = of[r]
           /\ r \in Caller => pc'[r] = "idle"
           /\ of' \in [Runner -> Session] /\ pc' \in [Runner -> Where]
           /\ verdict' \in [Runner -> Verdict] /\ rounds' = rounds
<1> USE LoopFacts DEF TypeOK, Where, Verdict
<1>1. CASE r \in Caller
  <2>1. /\ pc' = [pc EXCEPT ![r] = "idle"] /\ of' = [of EXCEPT ![r] = NoSession]
        /\ verdict' = [verdict EXCEPT ![r] = "none"] /\ rounds' = rounds
    BY <1>1 DEF Return, Answered, Goto
  <2>2. r \notin Loop
    BY <1>1
  <2> QED BY <1>1, <2>1, <2>2
<1>2. CASE r \notin Caller
  <2>1. pc' = [pc EXCEPT ![r] = IF ends THEN "ending" ELSE "entering"]
    BY <1>2 DEF Return, Goto
  <2>2. verdict' = [verdict EXCEPT ![r] = "none"] /\ of' = of /\ rounds' = rounds
    BY <1>2 DEF Return
  <2> QED BY <1>2, <2>1, <2>2
<1> QED BY <1>1, <1>2

(* The steps that are still in every way.                                  *)
LEMMA EasySteps ==
    ASSUME TypeOK, WorkersInv, 
           \/ \E c \in Caller : Resume(c) \/ Reopen(c) \/ Start(c) \/ Unpause(c) \/ Reread(c)
           \/ \E c \in Caller, o \in {"start", "resume", "run", "retry"}, s \in Session : Begin(c, o, s)
           \/ \E s \in Session : Pause(s) \/ Quarantine(s)
           \/ \E r \in Runner : Choose(r) \/ Execute(r) \/ Record(r)
           \/ \E l \in Loop : Enter(l)
    PROVE  Still
<1> USE LoopFacts DEF Still, PoolStill, RowsStill, BootStill, LateStill, Working, TypeOK
<1>1. CASE \E c \in Caller : Resume(c)
  BY <1>1 DEF Resume, At, Goto, rowVars, poolVars
<1>2. CASE \E c \in Caller : Reopen(c) \/ Unpause(c)
  BY <1>2 DEF Reopen, Unpause, ResumeSession, At, Goto, Answered, rowVars, poolVars
<1>3. CASE \E c \in Caller : Start(c) \/ Reread(c)
  BY <1>3 DEF Start, Reread, At, Goto, Answered, rowVars, poolVars
<1>4. CASE \E c \in Caller, o \in {"start", "resume", "run", "retry"}, s \in Session : Begin(c, o, s)
  BY <1>4 DEF Begin, Serving, Goto, rowVars, poolVars, WorkersInv, BootKept
<1>5. CASE \E s \in Session : Pause(s) \/ Quarantine(s)
  BY <1>5 DEF Pause, Quarantine, Serving, rowVars, poolVars, callVars
<1>6. CASE \E r \in Runner : Choose(r)
  <2>1. PICK r \in Runner : Choose(r)
    BY <1>6
  <2>2. CASE \E ends \in BOOLEAN : Return(r, ends)
    <3>1. /\ \A q \in Runner \ {r} : pc'[q] = pc[q] /\ of'[q] = of[q]
          /\ r \in Loop => pc'[r] \in {"entering", "ending"} /\ of'[r] = of[r]
          /\ r \in Caller => pc'[r] = "idle"
      BY <2>2, Returned
    <3> QED BY <2>1, <3>1 DEF Choose, At, rowVars, poolVars
  <2>3. CASE \E where \in {"recording", "claiming"} : Goto(r, where) /\ UNCHANGED <<of, rounds>>
    BY <2>1, <2>3 DEF Choose, At, Goto, rowVars, poolVars
  <2>4. \/ Return(r, status[of[r]] \in EndsLoop) \/ Return(r, TRUE)
        \/ \E where \in {"recording", "claiming"} : Goto(r, where) /\ UNCHANGED <<of, rounds>>
    BY <2>1, Zenon DEF Choose
  <2>5. ASSUME Return(r, status[of[r]] \in EndsLoop)
        PROVE  \E ends \in BOOLEAN : Return(r, ends)
    <3>1. (status[of[r]] \in EndsLoop) \in BOOLEAN
      OBVIOUS
    <3> QED BY <2>5, <3>1, Zenon
  <2>6. ASSUME Return(r, TRUE)
        PROVE  \E ends \in BOOLEAN : Return(r, ends)
    BY <2>6
  <2> QED BY <2>2, <2>3, <2>4, <2>5, <2>6
<1>7. CASE \E r \in Runner : Execute(r)
  BY <1>7 DEF Execute, At, Goto, rowVars, poolVars
<1>8. CASE \E r \in Runner : Record(r)
  <2>1. PICK r \in Runner : Record(r)
    BY <1>8
  <2>2. \E ends \in BOOLEAN : Return(r, ends)
    <3>1. Return(r, status'[of[r]] = "complete")
      BY <2>1 DEF Record
    <3> QED BY <3>1
  <2>3. /\ \A q \in Runner \ {r} : pc'[q] = pc[q] /\ of'[q] = of[q]
        /\ r \in Loop => pc'[r] \in {"entering", "ending"} /\ of'[r] = of[r]
        /\ r \in Caller => pc'[r] = "idle"
    BY <2>2, Returned
  <2>4. /\ up /\ pc[r] = "recording"
        /\ UNCHANGED <<left, busy, failed, up, faults, listed, poolVars, late>>
    BY <2>1 DEF Record, At
  <2>5. PoolStill /\ BootStill
    BY <2>3, <2>4 DEF poolVars
  <2>6. RowsStill
    BY <2>3, <2>4
  <2>7. LateStill
    BY <2>3, <2>4 DEF poolVars
  <2> HIDE DEF TypeOK, PoolStill, BootStill, RowsStill, LateStill
  <2> QED BY <2>5, <2>6, <2>7
<1>9. CASE \E l \in Loop : Enter(l)
  <2>1. PICK l \in Loop : Enter(l)
    BY <1>9
  <2>2. \/ pc' = [pc EXCEPT ![l] = "choosing"] /\ ~stopping
        \/ pc' = [pc EXCEPT ![l] = "ending"]
    BY <2>1 DEF Enter, GoesOn, Goto
  <2>3. /\ At(l, "entering")
        /\ UNCHANGED <<rowVars, up, faults, listed, poolVars, of, verdict, late>>
    BY <2>1 DEF Enter
  <2> QED BY <2>2, <2>3 DEF At, rowVars, poolVars
<1> HIDE DEF TypeOK, PoolStill, BootStill, RowsStill, LateStill, Still
<1> QED BY <1>1, <1>2, <1>3, <1>4, <1>5, <1>6, <1>7, <1>8, <1>9

----------------------------------------------------------------------------
(* A loop gets a future and a place at the end of the queue.               *)
LEMMA Enlisted ==
    ASSUME TypeOK, QueueKept, LoopsKept, NEW s \in Session, NEW l \in Loop,
           Done(future[s]), Enlist(s, l),
           \A m \in Loop : of'[m] = IF m = l THEN s ELSE of[m],
           \A m \in Loop : pc'[m] = pc[m]
    PROVE  /\ QueueKept' /\ LoopsKept'
           /\ loop[l] \in {"unused", "done"}
           /\ \A t \in Session \ {s} : future'[t] = future[t]
<1> USE LoopFacts
<1>1. /\ loop[l] \in {"unused", "done"}
      /\ \A t \in Session \ {s} : future[t] # l
  BY DEF Enlist, Unused, LoopsKept, TypeOK
<1>2. /\ loop' = [loop EXCEPT ![l] = "queued"]
      /\ future' = [future EXCEPT ![s] = l]
      /\ queue' = Append(queue, l)
  BY DEF Enlist
<1>3. /\ Len(queue) \in Nat /\ Len(queue') = Len(queue) + 1 /\ queue'[Len(queue) + 1] = l
      /\ \A i \in 1..Len(queue) : queue'[i] = queue[i] /\ queue[i] \in Loop
  BY <1>2 DEF TypeOK
<1>4. \A i \in 1..Len(queue) : loop[queue[i]] = "queued"
  BY <1>3 DEF QueueKept, InQueue
<1>5. \A m \in Loop : InQueue(m)' <=> InQueue(m) \/ m = l
  BY <1>3 DEF InQueue
<1>6. QueueKept'
  BY <1>1, <1>2, <1>3, <1>4, <1>5 DEF QueueKept, TypeOK
<1>7. \A m \in Live : m # l /\ of[m] # s
  BY <1>1 DEF LoopsKept, Live, Done, TypeOK
<1>8. LoopsKept'
  BY <1>1, <1>2, <1>7 DEF LoopsKept, TypeOK, Live
<1>9. \A t \in Session \ {s} : future'[t] = future[t]
  BY <1>2 DEF TypeOK
<1> QED BY <1>1, <1>6, <1>8, <1>9

(* start under its lock: the session had no live loop, and has one now.    *)
LEMMA SubmitKeeps ==
    ASSUME TypeOK, WorkersInv, NEW c \in Caller, Submit(c)
    PROVE  WorkersInv'
<1> USE LoopFacts
<1>1. /\ up /\ pc[c] = "submitting" /\ pc' = [pc EXCEPT ![c] = "idle"]
      /\ UNCHANGED <<rowVars, up, faults, listed, stopping, closed, rounds, verdict, late>>
  BY DEF Submit, At, Goto
<1>2. LateStill
  BY <1>1 DEF LateStill, TypeOK
<1>3. CASE UNCHANGED <<loop, future, queue>> /\ of' = [of EXCEPT ![c] = NoSession]
  <2>1. PoolStill /\ BootStill
    BY <1>1, <1>3 DEF PoolStill, BootStill, TypeOK
  <2>2. RowsStill
    BY <1>1, <1>3 DEF RowsStill, Working, TypeOK, rowVars
  <2> QED BY <1>2, <2>1, <2>2, StillKeeps DEF Still
<1>4. ASSUME NEW l \in Loop, Enlist(of[c], l), Done(future[of[c]]),
             of' = [of EXCEPT ![l] = of[c], ![c] = NoSession]
      PROVE  WorkersInv'
  <2> DEFINE s == of[c]
  <2>1. s \in Session /\ \A m \in Loop : of'[m] = IF m = l THEN s ELSE of[m]
    BY <1>4 DEF TypeOK
  <2>2. \A m \in Loop : pc'[m] = pc[m]
    BY <1>1 DEF TypeOK
  <2>3. /\ QueueKept' /\ LoopsKept' /\ loop[l] \in {"unused", "done"}
        /\ \A t \in Session \ {s} : future'[t] = future[t]
    BY <1>4, <2>1, <2>2, Enlisted DEF WorkersInv
  <2>4. pc[l] = "idle"
    BY <2>3 DEF WorkersInv, LoopsKept
  <2>5. RowsStill
    BY <1>1, <1>4, <2>4 DEF RowsStill, Working, TypeOK, rowVars
  <2>6. listed = {}
    BY <1>1 DEF WorkersInv, BootKept
  <2>7. BootKept'
    BY <1>1, <2>6 DEF BootKept
  <2> QED BY <1>2, <2>3, <2>5, <2>7, RowsStillKeeps, LateStillKeeps DEF WorkersInv
<1>5. \/ UNCHANGED <<loop, future, queue>> /\ of' = [of EXCEPT ![c] = NoSession]
      \/ /\ Done(future[of[c]])
         /\ \E l \in Loop : Enlist(of[c], l) /\ of' = [of EXCEPT ![l] = of[c], ![c] = NoSession]
  BY DEF Submit
<1> QED BY <1>3, <1>4, <1>5

(* The recovery at boot: a listed session has had no loop in this process. *)
LEMMA BootStartKeeps ==
    ASSUME TypeOK, WorkersInv, NEW s \in Session, BootStart(s)
    PROVE  WorkersInv'
<1> USE LoopFacts
<1>1. /\ up /\ s \in listed /\ listed' = listed \ {s}
      /\ UNCHANGED <<rowVars, up, faults, stopping, closed, pc, rounds, verdict, late>>
  BY DEF BootStart
<1>2. LateStill
  BY <1>1 DEF LateStill
<1>3. future[s] = NoLoop
  BY <1>1 DEF WorkersInv, BootKept
<1>4. CASE UNCHANGED <<loop, future, queue, of>>
  <2>1. PoolStill /\ RowsStill
    BY <1>1, <1>4 DEF PoolStill, RowsStill, Working, rowVars
  <2>2. BootKept'
    BY <1>1, <1>4 DEF BootKept, WorkersInv
  <2> QED BY <1>2, <2>1, <2>2, PoolStillKeeps, RowsStillKeeps, LateStillKeeps DEF WorkersInv
<1>5. ASSUME NEW l \in Loop, Enlist(s, l), of' = [of EXCEPT ![l] = s]
      PROVE  WorkersInv'
  <2>1. \A m \in Loop : of'[m] = IF m = l THEN s ELSE of[m]
    BY <1>5 DEF TypeOK
  <2>2. Done(future[s]) /\ \A m \in Loop : pc'[m] = pc[m]
    BY <1>1, <1>3 DEF Done
  <2>3. /\ QueueKept' /\ LoopsKept' /\ loop[l] \in {"unused", "done"}
        /\ \A t \in Session \ {s} : future'[t] = future[t]
    BY <1>5, <2>1, <2>2, Enlisted DEF WorkersInv
  <2>4. pc[l] = "idle"
    BY <2>3 DEF WorkersInv, LoopsKept
  <2>5. RowsStill
    BY <1>1, <1>5, <2>4 DEF RowsStill, Working, TypeOK, rowVars
  <2>6. BootKept'
    BY <1>1, <2>3 DEF BootKept, WorkersInv, TypeOK
  <2> QED BY <1>2, <2>3, <2>5, <2>6, RowsStillKeeps, LateStillKeeps DEF WorkersInv
<1>6. \/ UNCHANGED <<loop, future, queue, of>>
      \/ \E l \in Loop : Enlist(s, l) /\ of' = [of EXCEPT ![l] = s]
  BY DEF BootStart
<1> QED BY <1>4, <1>5, <1>6

(* The loop at the head of the queue leaves it and runs.                   *)
LEMMA DispatchKeeps ==
    ASSUME TypeOK, WorkersInv, Dispatch
    PROVE  WorkersInv'
<1> USE LoopFacts
<1> DEFINE l == Head(queue)
<1>1. /\ up /\ queue # <<>> /\ loop' = [loop EXCEPT ![l] = "running"] /\ queue' = Tail(queue)
      /\ pc' = [pc EXCEPT ![l] = "entering"]
      /\ UNCHANGED <<rowVars, up, faults, listed, stopping, closed, future, of, late>>
  BY DEF Dispatch, Goto
<1>2. /\ Len(queue) \in Nat \ {0} /\ Len(queue') = Len(queue) - 1 /\ l = queue[1] /\ l \in Loop
      /\ \A i \in 1..Len(queue') : queue'[i] = queue[i + 1]
  BY <1>1 DEF TypeOK
<1> HIDE DEF l
<1>3. \A m \in Loop : InQueue(m)' <=> InQueue(m) /\ m # l
  <2>1. ASSUME NEW m \in Loop, InQueue(m)'
        PROVE  InQueue(m) /\ m # l
    <3>1. PICK i \in 1..Len(queue') : queue'[i] = m
      BY <2>1 DEF InQueue
    <3> QED BY <1>2, <3>1 DEF InQueue, WorkersInv, QueueKept
  <2>2. ASSUME NEW m \in Loop, InQueue(m), m # l
        PROVE  InQueue(m)'
    <3>1. PICK i \in 1..Len(queue) : queue[i] = m
      BY <2>2 DEF InQueue
    <3>2. i - 1 \in 1..Len(queue') /\ queue'[i - 1] = m
      BY <1>2, <2>2, <3>1
    <3> QED BY <3>2 DEF InQueue
  <2> QED BY <2>1, <2>2
<1>4. loop[l] = "queued"
  <2>1. 1 \in 1..Len(queue) /\ queue[1] = l
    BY <1>2
  <2>2. InQueue(l)
    BY <2>1 DEF InQueue
  <2> QED BY <1>2, <2>2 DEF WorkersInv, QueueKept
<1>5. QueueKept'
  <2>1. \A i, j \in 1..Len(queue') : queue'[i] = queue'[j] => i = j
    BY <1>2 DEF WorkersInv, QueueKept
  <2>2. \A m \in Loop : InQueue(m)' <=> loop'[m] = "queued"
    BY <1>1, <1>2, <1>3 DEF WorkersInv, QueueKept, TypeOK
  <2> QED BY <2>1, <2>2 DEF QueueKept
<1>6. LoopsKept'
  BY <1>1, <1>2, <1>4 DEF WorkersInv, LoopsKept, Live, TypeOK
<1>7. pc[l] = "idle"
  BY <1>2, <1>4 DEF WorkersInv, LoopsKept
<1>8. RowsStill
  BY <1>1, <1>2, <1>7 DEF RowsStill, Working, TypeOK, rowVars
<1>9. BootStill
  BY <1>1, <1>2 DEF BootStill, TypeOK
<1>10. LateStill
  BY <1>1, <1>2 DEF LateStill, TypeOK
<1> QED BY <1>5, <1>6, <1>8, <1>9, <1>10, RowsStillKeeps, BootStillKeeps, LateStillKeeps
        DEF WorkersInv

----------------------------------------------------------------------------
(* What TasksKept says of a session.                                       *)
LEMMA TasksOf ==
    ASSUME TypeOK, TasksKept, NEW s \in Session
    PROVE  /\ left[s] \in Nat /\ Work[s] \in Nat
           /\ One(busy[s]) \in {0, 1} /\ One(failed[s]) \in {0, 1}
           /\ left[s] + One(busy[s]) + One(failed[s]) <= Work[s]
BY WorkersAssumption DEF TypeOK, TasksKept, One

(* A retried task was failed, and is pending again.                        *)
LEMMA RetryKeeps ==
    ASSUME TypeOK, WorkersInv, NEW c \in Caller, Retry(c)
    PROVE  WorkersInv'
<1> USE LoopFacts
<1>1. /\ At(c, "retrying")
      /\ UNCHANGED <<status, busy, up, faults, listed, poolVars, late>>
      /\ \/ pc' = [pc EXCEPT ![c] = "rereading"] /\ of' = of
         \/ pc' = [pc EXCEPT ![c] = "idle"] /\ of' = [of EXCEPT ![c] = NoSession]
  BY DEF Retry, Answered, Goto
<1>2. PoolStill /\ BootStill /\ LateStill
  BY <1>1 DEF PoolStill, BootStill, LateStill, At, TypeOK, poolVars
<1>3. OneWorker'
  <2>1. \A r \in Runner : Working(r)' => Working(r) /\ of'[r] = of[r]
    BY <1>1 DEF Working, At, TypeOK
  <2> QED BY <1>1, <2>1 DEF OneWorker, WorkersInv
<1>4. TasksKept'
  <2>1. \/ UNCHANGED <<left, failed>>
        \/ /\ failed[of[c]] /\ failed' = [failed EXCEPT ![of[c]] = FALSE]
           /\ left' = [left EXCEPT ![of[c]] = @ + 1]
    BY DEF Retry
  <2>2. SUFFICES ASSUME NEW s \in Session
                 PROVE  left'[s] + One(busy'[s]) + One(failed'[s]) <= Work[s]
    BY DEF TasksKept
  <2>3. TasksKept /\ of[c] \in Session /\ busy' = busy
    BY <1>1 DEF WorkersInv, TypeOK
  <2>4. CASE UNCHANGED <<left, failed>>
    BY <2>3, <2>4, TasksOf
  <2>5. CASE ~UNCHANGED <<left, failed>>
    <3>1. CASE s = of[c]
      <4>1. failed[s] /\ ~failed'[s] /\ left'[s] = left[s] + 1
        BY <2>1, <2>5, <3>1 DEF TypeOK
      <4> QED BY <2>3, <4>1, TasksOf DEF One
    <3>2. CASE s # of[c]
      <4>1. failed'[s] = failed[s] /\ left'[s] = left[s]
        BY <2>1, <2>5, <3>2 DEF TypeOK
      <4> QED BY <2>3, <4>1, TasksOf
    <3> QED BY <3>1, <3>2
  <2> QED BY <2>4, <2>5
<1> QED BY <1>2, <1>3, <1>4, PoolStillKeeps, BootStillKeeps, LateStillKeeps DEF WorkersInv

(* A cancellation leaves nothing pending, and what runs running.           *)
LEMMA CancelKeeps ==
    ASSUME TypeOK, WorkersInv, NEW s \in Session, Cancel(s)
    PROVE  WorkersInv'
<1> USE LoopFacts
<1>1. /\ up /\ left' = [left EXCEPT ![s] = 0]
      /\ UNCHANGED <<busy, failed, up, faults, listed, poolVars, callVars, late>>
  BY DEF Cancel, Serving
<1>2. PoolStill /\ BootStill /\ LateStill
  BY <1>1 DEF PoolStill, BootStill, LateStill, TypeOK, poolVars, callVars
<1>3. OneWorker'
  BY <1>1 DEF OneWorker, Working, WorkersInv, callVars
<1>4. TasksKept'
  <2>1. \A t \in Session : left'[t] \in {0, left[t]}
    BY <1>1 DEF TypeOK
  <2> QED BY <1>1, <2>1, TasksOf DEF TasksKept, WorkersInv
<1> QED BY <1>2, <1>3, <1>4, PoolStillKeeps, BootStillKeeps, LateStillKeeps DEF WorkersInv

(* claim_task: a task was pending, none of the session ran, and a loop that*)
(* claims after the shutdown has not done so before.                       *)
LEMMA ClaimKeeps ==
    ASSUME TypeOK, WorkersInv, NEW r \in Runner, Claim(r)
    PROVE  WorkersInv'
<1> USE LoopFacts
<1>1. /\ up /\ pc[r] = "claiming" /\ UNCHANGED <<status, failed, up, faults, listed, poolVars>>
  BY DEF Claim, At
<1>2. CASE Return(r, TRUE) /\ UNCHANGED <<left, busy, late>>
  <2>1. /\ \A q \in Runner \ {r} : pc'[q] = pc[q] /\ of'[q] = of[q]
        /\ r \in Loop => pc'[r] \in {"entering", "ending"} /\ of'[r] = of[r]
        /\ r \in Caller => pc'[r] = "idle"
    BY <1>2, Returned
  <2>2. PoolStill /\ BootStill
    BY <1>1, <2>1 DEF PoolStill, BootStill, poolVars
  <2>3. RowsStill /\ LateStill
    BY <1>1, <1>2, <2>1 DEF RowsStill, LateStill, Working, poolVars
  <2> QED BY <2>2, <2>3, StillKeeps DEF Still
<1>3. CASE ~(Return(r, TRUE) /\ UNCHANGED <<left, busy, late>>)
  <2>1. /\ Ready(of[r])
        /\ left' = [left EXCEPT ![of[r]] = @ - 1]
        /\ busy' = [busy EXCEPT ![of[r]] = TRUE]
        /\ late' = [l \in Loop |-> IF l = r /\ stopping THEN late[l] + 1 ELSE late[l]]
        /\ pc' = [pc EXCEPT ![r] = "executing"]
        /\ of' = of
    BY <1>3 DEF Claim, Goto
  <2>2. PoolStill /\ BootStill
    BY <1>1, <2>1 DEF PoolStill, BootStill, poolVars, TypeOK
  <2>3. TasksKept'
    BY <1>1, <2>1, WorkersAssumption DEF TasksKept, WorkersInv, One, TypeOK, Ready
  <2>4. OneWorker'
    BY <1>1, <2>1 DEF OneWorker, Working, WorkersInv, TypeOK, Ready
  <2>5. StopKept'
    <3>1. ASSUME NEW l \in Loop, l # r
          PROVE  late'[l] = late[l] /\ pc'[l] = pc[l]
      BY <2>1, <3>1 DEF TypeOK
    <3>2. r \in Loop => late[r] = 0 /\ late'[r] \in {0, 1} /\ (~stopping => late'[r] = 0)
      BY <1>1, <2>1 DEF WorkersInv, StopKept
    <3> QED BY <1>1, <2>1, <3>1, <3>2 DEF WorkersInv, StopKept, TypeOK, poolVars
  <2> QED BY <2>2, <2>3, <2>4, <2>5, PoolStillKeeps, BootStillKeeps DEF WorkersInv
<1> QED BY <1>2, <1>3

(* The task in hand is over, and pending again, failed or through.         *)
LEMMA FinishKeeps ==
    ASSUME TypeOK, WorkersInv, NEW r \in Runner, Finish(r)
    PROVE  WorkersInv'
<1> USE LoopFacts
<1>1. /\ up /\ pc[r] = "finishing" /\ busy' = [busy EXCEPT ![of[r]] = FALSE]
      /\ UNCHANGED <<up, faults, listed, poolVars, late>>
  BY DEF Finish, At
<1>2. /\ \A q \in Runner \ {r} : pc'[q] = pc[q] /\ of'[q] = of[q]
      /\ r \in Loop => pc'[r] \in {"entering", "ending", "recording"} /\ of'[r] = of[r]
      /\ pc'[r] \in {"entering", "ending", "recording", "idle"}
  <2>1. CASE Return(r, verdict[r] \in EndsLoop)
    <3>1. (verdict[r] \in EndsLoop) \in BOOLEAN
      OBVIOUS
    <3> HIDE DEF EndsLoop
    <3> QED BY <2>1, <3>1, Returned
  <2>2. CASE Goto(r, "recording") /\ UNCHANGED <<of, rounds, verdict>>
    BY <2>2 DEF Goto, TypeOK
  <2> QED BY <2>1, <2>2, Zenon DEF Finish
<1>3. \/ UNCHANGED <<left, failed>>
      \/ left' = [left EXCEPT ![of[r]] = @ + 1] /\ UNCHANGED failed
      \/ failed' = [failed EXCEPT ![of[r]] = TRUE] /\ UNCHANGED left
  BY DEF Finish, Unsuccessful
<1>4. busy[of[r]] /\ \A q \in Runner \ {r} : Working(q) => of[q] # of[r]
  BY <1>1 DEF WorkersInv, OneWorker, Working
<1>5. TasksKept'
  <2>1. SUFFICES ASSUME NEW s \in Session
                 PROVE  left'[s] + One(busy'[s]) + One(failed'[s]) <= Work[s]
    BY DEF TasksKept
  <2>2. TasksKept /\ of[r] \in Session
    BY DEF WorkersInv, TypeOK
  <2>3. CASE s = of[r]
    <3>1. busy[s] /\ ~busy'[s]
      BY <1>1, <1>4, <2>3 DEF TypeOK
    <3>2. \/ left'[s] = left[s] /\ failed'[s] = failed[s]
          \/ left'[s] = left[s] + 1 /\ failed'[s] = failed[s]
          \/ left'[s] = left[s] /\ failed'[s]
      BY <1>3, <2>2, <2>3 DEF TypeOK
    <3> QED BY <2>2, <3>1, <3>2, TasksOf DEF One
  <2>4. CASE s # of[r]
    <3>1. busy'[s] = busy[s] /\ left'[s] = left[s] /\ failed'[s] = failed[s]
      BY <1>1, <1>3, <2>2, <2>4 DEF TypeOK
    <3> QED BY <2>2, <3>1, TasksOf
  <2> QED BY <2>3, <2>4
<1>6. OneWorker'
  <2>1. \A q \in Runner : Working(q)' => q # r /\ Working(q) /\ of'[q] = of[q]
    BY <1>2 DEF Working
  <2>2. \A s \in Session : s # of[r] => busy'[s] = busy[s]
    BY <1>1 DEF TypeOK
  <2>3. \A q \in Runner : of[q] \in Session
    BY DEF TypeOK
  <2> QED BY <1>4, <2>1, <2>2, <2>3 DEF OneWorker, WorkersInv
<1>7. PoolStill /\ BootStill
  BY <1>1, <1>2 DEF PoolStill, BootStill, poolVars, TypeOK
<1>8. LateStill
  BY <1>1, <1>2 DEF LateStill, poolVars
<1> QED BY <1>5, <1>6, <1>7, <1>8, PoolStillKeeps, BootStillKeeps, LateStillKeeps DEF WorkersInv

(* A loop that is over is nobody's, or its session's last future.          *)
LEMMA ConcludeKeeps ==
    ASSUME TypeOK, WorkersInv, NEW l \in Loop, Conclude(l)
    PROVE  WorkersInv'
<1> USE LoopFacts
<1>1. /\ up /\ pc[l] = "ending" /\ pc' = [pc EXCEPT ![l] = "idle"]
      /\ of' = [of EXCEPT ![l] = NoSession] /\ late' = [late EXCEPT ![l] = 0]
      /\ UNCHANGED <<rowVars, up, faults, listed, stopping, closed, future, queue>>
  BY DEF Conclude, At, Goto
<1>2. /\ loop' = [loop EXCEPT ![l] = loop'[l]]
      /\ loop'[l] \in {"done", "unused"}
      /\ \A s \in Session : future[s] = l => loop'[l] = "done"
  BY DEF Conclude, TypeOK
<1>3. loop[l] = "running"
  BY <1>1 DEF WorkersInv, LoopsKept
<1>4. QueueKept'
  BY <1>1, <1>2, <1>3 DEF WorkersInv, QueueKept, InQueue, TypeOK
<1>5. LoopsKept'
  BY <1>1, <1>2, <1>3 DEF WorkersInv, LoopsKept, Live, TypeOK
<1>6. RowsStill
  BY <1>1 DEF RowsStill, Working, rowVars, TypeOK
<1>7. BootStill
  BY <1>1 DEF BootStill, TypeOK
<1>8. StopKept'
  BY <1>1 DEF WorkersInv, StopKept, TypeOK
<1> QED BY <1>4, <1>5, <1>6, <1>7, <1>8, RowsStillKeeps, BootStillKeeps DEF WorkersInv

(* The shutdown and the closing of the pool start nothing.                 *)
LEMMA ShutdownKeeps ==
    ASSUME TypeOK, WorkersInv, Shutdown \/ Close
    PROVE  WorkersInv'
<1> USE LoopFacts
<1>1. UNCHANGED <<rowVars, up, faults, listed, future, callVars, late>> /\ up /\ stopping'
  BY DEF Shutdown, Close, Serving
<1>2. RowsStill
  BY <1>1 DEF RowsStill, Working, rowVars, callVars
<1>3. StopKept'
  BY <1>1 DEF WorkersInv, StopKept, Shutdown, Close, callVars
<1>4. BootKept'
  BY <1>1 DEF WorkersInv, BootKept, Shutdown, Close, Serving, callVars
<1>5. QueueKept' /\ LoopsKept'
  <2>1. CASE Shutdown
    <3>1. PoolStill
      BY <2>1 DEF Shutdown, PoolStill, callVars
    <3> QED BY <3>1, PoolStillKeeps DEF WorkersInv
  <2>2. CASE Close
    <3>1. /\ queue' = <<>>
          /\ loop' = [l \in Loop |-> IF loop[l] = "queued" THEN "done" ELSE loop[l]]
      BY <2>2 DEF Close
    <3>2. QueueKept'
      BY <3>1 DEF QueueKept, InQueue
    <3>3. LoopsKept'
      BY <1>1, <3>1 DEF WorkersInv, LoopsKept, Live, TypeOK, callVars
    <3> QED BY <3>2, <3>3
  <2> QED BY <2>1, <2>2
<1> QED BY <1>2, <1>3, <1>4, <1>5, RowsStillKeeps DEF WorkersInv

(* With the process its memory is gone.                                    *)
LEMMA DownKeeps ==
    ASSUME TypeOK, WorkersInv, Exit \/ Crash
    PROVE  WorkersInv'
<1> USE LoopFacts
<1>1. Down
  BY DEF Exit, Crash
<1>2. /\ ~up' /\ listed' = {} /\ ~stopping' /\ ~closed' /\ queue' = <<>>
      /\ future' = [s \in Session |-> NoLoop] /\ loop' = [l \in Loop |-> "unused"]
      /\ pc' = [r \in Runner |-> "idle"] /\ late' = [l \in Loop |-> 0]
      /\ UNCHANGED rowVars
  BY <1>1 DEF Down, NoMemory
<1>3. TasksKept' /\ OneWorker'
  BY <1>2 DEF WorkersInv, TasksKept, OneWorker, Working, rowVars
<1>4. QueueKept' /\ LoopsKept'
  BY <1>2 DEF QueueKept, InQueue, LoopsKept, Live
<1>5. BootKept' /\ StopKept'
  BY <1>2 DEF BootKept, Memoryless, StopKept
<1> QED BY <1>3, <1>4, <1>5 DEF WorkersInv

(* recover_interrupted_runs: nobody works yet, and what ran is pending or  *)
(* failed.                                                                 *)
LEMMA RestartKeeps ==
    ASSUME TypeOK, WorkersInv, Restart
    PROVE  WorkersInv'
<1> USE LoopFacts
<1>1. /\ ~up /\ up' /\ busy' = [s \in Session |-> FALSE]
      /\ listed' \subseteq Session
      /\ UNCHANGED <<faults, poolVars, callVars, late>>
  BY DEF Restart
<1>2. Memoryless
  BY <1>1 DEF WorkersInv, BootKept
<1>3. BootKept' /\ OneWorker'
  BY <1>1, <1>2 DEF BootKept, OneWorker, Working, Memoryless, poolVars, callVars
<1>4. PoolStill /\ LateStill
  BY <1>1 DEF PoolStill, LateStill, poolVars, callVars
<1>5. TasksKept'
  <2>1. PICK requeued \in SUBSET {s \in Session : busy[s]} :
          /\ left' = [s \in Session |-> IF s \in requeued THEN left[s] + 1 ELSE left[s]]
          /\ failed' = [s \in Session |-> failed[s] \/ (busy[s] /\ s \notin requeued)]
    BY DEF Restart
  <2>2. SUFFICES ASSUME NEW s \in Session
                 PROVE  left'[s] + One(busy'[s]) + One(failed'[s]) <= Work[s]
    BY DEF TasksKept
  <2>3. TasksKept /\ ~busy'[s]
    BY <1>1 DEF WorkersInv
  <2>4. CASE s \in requeued
    <3>1. busy[s] /\ left'[s] = left[s] + 1 /\ (failed'[s] <=> failed[s])
      BY <2>1, <2>4, Zenon
    <3> QED BY <2>3, <3>1, TasksOf DEF One
  <2>5. CASE s \notin requeued
    <3>1. left'[s] = left[s] /\ (failed'[s] => failed[s] \/ busy[s])
      BY <2>1, <2>5, Zenon
    <3> QED BY <2>3, <3>1, TasksOf DEF One
  <2> QED BY <2>4, <2>5
<1> QED BY <1>3, <1>4, <1>5, PoolStillKeeps, LateStillKeeps DEF WorkersInv

----------------------------------------------------------------------------
(* The queue is no longer than there are loops.                            *)
LEMMA QueueBound ==
    ASSUME NEW q \in Seq(Loop), \A i, j \in 1..Len(q) : q[i] = q[j] => i = j
    PROVE  Len(q) <= MaxLoop
<1>1. Len(q) \in Nat /\ \A i \in 1..Len(q) : q[i] \in Loop
  OBVIOUS
<1> DEFINE f == [i \in 1..Len(q) |-> q[i]]
<1>2. f \in Injection(1..Len(q), Loop)
  <2>1. f \in [1..Len(q) -> Loop]
    BY <1>1
  <2>2. \A i, j \in 1..Len(q) : f[i] = f[j] => i = j
    OBVIOUS
  <2>3. IsInjective(f)
    BY <2>2 DEF IsInjective
  <2> HIDE DEF f
  <2> QED BY <2>1, <2>3, Zenon DEF Injection
<1>3. /\ IsFiniteSet(Loop) /\ Cardinality(Loop) = MaxLoop
      /\ Cardinality(1..Len(q)) = Len(q)
  <2>1. 1 \in Int /\ MaxLoop \in Int /\ Len(q) \in Int /\ MaxLoop >= 1 /\ Len(q) >= 0
    BY <1>1, WorkersAssumption
  <2>2. IsFiniteSet(1..MaxLoop)
    BY <2>1, FS_Interval
  <2>3. Cardinality(1..MaxLoop) = IF 1 > MaxLoop THEN 0 ELSE MaxLoop - 1 + 1
    BY <2>1, FS_Interval
  <2>4. Cardinality(1..Len(q)) = IF 1 > Len(q) THEN 0 ELSE Len(q) - 1 + 1
    BY <2>1, FS_Interval
  <2> QED BY <2>1, <2>2, <2>3, <2>4 DEF Loop
<1> HIDE DEF f
<1> QED BY <1>2, <1>3, FS_Injection

(* TypeOK, taken apart.                                                    *)
RowTypes ==
    /\ status \in [Session -> Status]
    /\ left \in [Session -> Nat]
    /\ busy \in [Session -> BOOLEAN]
    /\ failed \in [Session -> BOOLEAN]
KernelTypes ==
    /\ up \in BOOLEAN
    /\ faults \in 0..MaxFault
    /\ listed \subseteq Session
    /\ stopping \in BOOLEAN
    /\ closed \in BOOLEAN
PoolTypes ==
    /\ future \in [Session -> Loop \cup {NoLoop}]
    /\ loop \in [Loop -> {"unused", "queued", "running", "done"}]
    /\ queue \in Seq(Loop)
CallTypes ==
    /\ pc \in [Runner -> Where]
    /\ of \in [Runner -> Session]
    /\ rounds \in [Loop -> 0..MaxTasks]
    /\ verdict \in [Runner -> Verdict]
    /\ late \in [Loop -> Nat]

(* Each step keeps the rows what they are ...                              *)
LEMMA RowTypesKept ==
    ASSUME TypeOK, WorkersInv, [Next]_vars
    PROVE  RowTypes'
<1> USE LoopFacts DEF TypeOK
<1>1. CASE UNCHANGED rowVars
  BY <1>1 DEF RowTypes, rowVars
<1>2. ASSUME NEW c \in Caller, Reopen(c) \/ Unpause(c)
      PROVE  RowTypes'
  <2>1. /\ status' = status \/ status' = [status EXCEPT ![of[c]] = "active"]
        /\ UNCHANGED <<left, busy, failed>>
    BY <1>2 DEF Reopen, Unpause, ResumeSession
  <2> QED BY <2>1 DEF RowTypes, Status
<1>3. ASSUME NEW c \in Caller, Retry(c)
      PROVE  RowTypes'
  <2>1. /\ UNCHANGED <<status, busy>>
        /\ \/ UNCHANGED <<left, failed>>
           \/ /\ failed' = [failed EXCEPT ![of[c]] = FALSE]
              /\ left' = [left EXCEPT ![of[c]] = @ + 1]
    BY <1>3 DEF Retry
  <2>2. CASE UNCHANGED <<left, failed>>
    BY <2>1, <2>2 DEF RowTypes
  <2>3. CASE ~UNCHANGED <<left, failed>>
    <3>1. left' \in [Session -> Nat]
      BY <2>1, <2>3
    <3>2. failed' \in [Session -> BOOLEAN]
      BY <2>1, <2>3
    <3> QED BY <2>1, <3>1, <3>2 DEF RowTypes
  <2> QED BY <2>2, <2>3
<1>4. ASSUME NEW s \in Session, Pause(s) \/ Cancel(s) \/ Quarantine(s)
      PROVE  RowTypes'
  <2>1. CASE Pause(s) \/ Quarantine(s)
    BY <2>1 DEF Pause, Quarantine, RowTypes, Status
  <2>2. CASE Cancel(s)
    <3>1. /\ \E new \in {"cancelling", "cancelled"} : status' = [status EXCEPT ![s] = new]
          /\ left' = [left EXCEPT ![s] = 0] /\ UNCHANGED <<busy, failed>>
      BY <2>2 DEF Cancel
    <3> QED BY <3>1 DEF RowTypes, Status
  <2> QED BY <1>4, <2>1, <2>2
<1>5. ASSUME NEW r \in Runner, Claim(r)
      PROVE  RowTypes'
  <2>1. CASE UNCHANGED <<left, busy>>
    BY <1>5, <2>1 DEF Claim, RowTypes
  <2>2. CASE ~UNCHANGED <<left, busy>>
    <3>1. /\ left' = [left EXCEPT ![of[r]] = @ - 1] /\ left[of[r]] > 0
          /\ busy' = [busy EXCEPT ![of[r]] = TRUE]
          /\ UNCHANGED <<status, failed>>
      BY <1>5, <2>2 DEF Claim, Ready
    <3> QED BY <3>1 DEF RowTypes
  <2> QED BY <2>1, <2>2
<1>6. ASSUME NEW r \in Runner, Finish(r)
      PROVE  RowTypes'
  <2>1. /\ busy' = [busy EXCEPT ![of[r]] = FALSE]
        /\ status' = [status EXCEPT ![of[r]] = IF @ = "cancelling" THEN "cancelled" ELSE @]
        /\ \/ UNCHANGED <<left, failed>>
           \/ left' = [left EXCEPT ![of[r]] = @ + 1] /\ UNCHANGED failed
           \/ failed' = [failed EXCEPT ![of[r]] = TRUE] /\ UNCHANGED left
    BY <1>6 DEF Finish, Unsuccessful
  <2>2. busy' \in [Session -> BOOLEAN] /\ status' \in [Session -> Status]
    BY <2>1 DEF Status
  <2>3. left' \in [Session -> Nat]
    BY <2>1
  <2>4. failed' \in [Session -> BOOLEAN]
    BY <2>1
  <2> QED BY <2>2, <2>3, <2>4 DEF RowTypes
<1>7. ASSUME NEW r \in Runner, Record(r)
      PROVE  RowTypes'
  <2>1. /\ status' = [status EXCEPT ![of[r]] =
                         IF verdict[r] = "completed" THEN "complete" ELSE @]
        /\ UNCHANGED <<left, busy, failed>>
    BY <1>7 DEF Record
  <2> QED BY <2>1 DEF RowTypes, Status
<1>8. ASSUME Restart
      PROVE  RowTypes'
  <2>1. PICK requeued \in SUBSET {s \in Session : busy[s]} :
          /\ left' = [s \in Session |-> IF s \in requeued THEN left[s] + 1 ELSE left[s]]
          /\ failed' = [s \in Session |-> failed[s] \/ (busy[s] /\ s \notin requeued)]
    BY <1>8 DEF Restart
  <2>2. left' \in [Session -> Nat]
    BY <2>1
  <2>3. failed' \in [Session -> BOOLEAN]
    BY <2>1, Zenon
  <2>4. busy' \in [Session -> BOOLEAN] /\ status' \in [Session -> Status]
    BY <1>8 DEF Restart, Status
  <2> QED BY <2>2, <2>3, <2>4 DEF RowTypes
<1> HIDE DEF TypeOK
<1>9. \/ UNCHANGED rowVars
      \/ \E c \in Caller : Reopen(c) \/ Unpause(c) \/ Retry(c)
      \/ \E s \in Session : Pause(s) \/ Cancel(s) \/ Quarantine(s)
      \/ \E r \in Runner : Claim(r) \/ Finish(r) \/ Record(r)
      \/ Restart
  <2>1. CASE UNCHANGED vars
    BY <2>1 DEF vars
  <2>2. CASE \E c \in Caller : Requesting(c) \/ \E o \in {"start", "resume", "run", "retry"},
                                                  s \in Session : Begin(c, o, s)
    BY <2>2 DEF Requesting, Resume, Start, Submit, Reread, Begin
  <2>3. CASE \E s \in Session : Pause(s) \/ Cancel(s) \/ Quarantine(s) \/ BootStart(s)
    BY <2>3 DEF BootStart
  <2>4. CASE \E r \in Runner : RunNext(r)
    BY <2>4 DEF RunNext, Choose, Execute
  <2>5. CASE \E l \in Loop : Looping(l)
    BY <2>5 DEF Looping, Enter, Conclude
  <2>6. CASE Dispatch \/ Shutdown \/ Close \/ Exit \/ Crash \/ Restart
    BY <2>6 DEF Dispatch, Shutdown, Close, Exit, Crash, Down
  <2> QED BY <2>1, <2>2, <2>3, <2>4, <2>5, <2>6 DEF Next
<1> QED BY <1>1, <1>2, <1>3, <1>4, <1>5, <1>6, <1>7, <1>8, <1>9

(* ... and the kernel's own state ...                                      *)
LEMMA KernelTypesKept ==
    ASSUME TypeOK, WorkersInv, [Next]_vars
    PROVE  KernelTypes'
<1> USE LoopFacts DEF TypeOK
<1>1. CASE UNCHANGED <<up, faults, listed, stopping, closed>>
  BY <1>1 DEF KernelTypes
<1>2. CASE Shutdown \/ Close
  BY <1>2 DEF Shutdown, Close, KernelTypes
<1>3. CASE \E s \in Session : BootStart(s)
  BY <1>3 DEF BootStart, KernelTypes
<1>4. CASE Restart
  BY <1>4 DEF Restart, poolVars, KernelTypes
<1>5. CASE Exit \/ Crash
  <2>1. faults < MaxFault
    BY <1>5 DEF Exit, Crash, WorkersInv, StopKept
  <2>2. Down
    BY <1>5 DEF Exit, Crash
  <2>3. ~up' /\ faults' = faults + 1 /\ listed' = {} /\ ~stopping' /\ ~closed'
    BY <2>2 DEF Down, NoMemory
  <2>4. /\ up' \in BOOLEAN /\ stopping' \in BOOLEAN /\ closed' \in BOOLEAN
    BY <2>2, Zenon DEF Down, NoMemory
  <2> QED BY <2>1, <2>3, <2>4, WorkersAssumption DEF KernelTypes
<1> HIDE DEF TypeOK
<1>6. \/ UNCHANGED <<up, faults, listed, stopping, closed>>
      \/ Shutdown \/ Close \/ Exit \/ Crash \/ Restart \/ \E s \in Session : BootStart(s)
  <2>1. CASE UNCHANGED vars
    BY <2>1 DEF vars, poolVars
  <2>2. CASE \E c \in Caller : Requesting(c) \/ \E o \in {"start", "resume", "run", "retry"},
                                                  s \in Session : Begin(c, o, s)
    BY <2>2 DEF Requesting, Resume, Reopen, Start, Unpause, ResumeSession, Submit, Retry,
                Reread, Begin, poolVars
  <2>3. CASE \E s \in Session : Pause(s) \/ Cancel(s) \/ Quarantine(s) \/ BootStart(s)
    BY <2>3 DEF Pause, Cancel, Quarantine, poolVars
  <2>4. CASE \E r \in Runner : RunNext(r)
    BY <2>4 DEF RunNext, Choose, Claim, Execute, Finish, Record, poolVars
  <2>5. CASE \E l \in Loop : Looping(l)
    BY <2>5 DEF Looping, Enter, Conclude, poolVars
  <2>6. CASE Dispatch
    BY <2>6 DEF Dispatch
  <2> QED BY <2>1, <2>2, <2>3, <2>4, <2>5, <2>6 DEF Next
<1> QED BY <1>1, <1>2, <1>3, <1>4, <1>5, <1>6

----------------------------------------------------------------------------
(* ... and the loops and the requests.                                     *)
LEMMA CallTypesKept ==
    ASSUME TypeOK, WorkersInv, [Next]_vars
    PROVE  PoolTypes' /\ CallTypes'
<1> USE LoopFacts
<1>1. CASE UNCHANGED <<poolVars, callVars, late>>
  BY <1>1 DEF PoolTypes, CallTypes, poolVars, callVars, TypeOK
<1>2. ASSUME NEW r \in Runner, NEW where \in Where, UNCHANGED <<future, loop, queue>>,
             pc' = [pc EXCEPT ![r] = where],
             of' = of \/ \E s \in Session : of' = [of EXCEPT ![r] = s],
             verdict' = verdict \/ \E v \in Verdict : verdict' = [verdict EXCEPT ![r] = v],
             UNCHANGED <<rounds, late>>
      PROVE  PoolTypes' /\ CallTypes'
  <2>1. PoolTypes'
    BY <1>2 DEF PoolTypes, TypeOK
  <2>2. pc' \in [Runner -> Where] /\ rounds' \in [Loop -> 0..MaxTasks] /\ late' \in [Loop -> Nat]
    BY <1>2 DEF TypeOK
  <2>3. of' \in [Runner -> Session]
    BY <1>2 DEF TypeOK
  <2>4. verdict' \in [Runner -> Verdict]
    BY <1>2 DEF TypeOK
  <2> QED BY <2>1, <2>2, <2>3, <2>4 DEF CallTypes
<1>3. ASSUME NEW c \in Caller, Answered(c), UNCHANGED <<future, loop, queue, late>>
      PROVE  PoolTypes' /\ CallTypes'
  BY <1>3 DEF Answered, Goto, PoolTypes, CallTypes, TypeOK, Where, Verdict
<1>4. ASSUME NEW r \in Runner, NEW ends \in BOOLEAN, Return(r, ends),
             UNCHANGED <<future, loop, queue, late>>
      PROVE  PoolTypes' /\ CallTypes'
  BY <1>4, Returned DEF PoolTypes, CallTypes, TypeOK
<1>5. ASSUME NEW s \in Session, NEW l \in Loop, Enlist(s, l)
      PROVE  PoolTypes'
  BY <1>5 DEF Enlist, PoolTypes, TypeOK
<1>6. ASSUME NEW c \in Caller, Requesting(c)
      PROVE  PoolTypes' /\ CallTypes'
  <2>1. CASE Answered(c) /\ UNCHANGED <<poolVars, late>>
    BY <1>3, <2>1 DEF poolVars
  <2>2. CASE /\ \E where \in Where : pc' = [pc EXCEPT ![c] = where]
             /\ UNCHANGED <<of, rounds, verdict, poolVars, late>>
    BY <1>2, <2>2 DEF poolVars
  <2>3. CASE Submit(c)
    <3>1. /\ pc' = [pc EXCEPT ![c] = "idle"] /\ UNCHANGED <<rounds, verdict, late>>
      BY <2>3 DEF Submit, Goto
    <3>2. CASE of' = [of EXCEPT ![c] = NoSession] /\ UNCHANGED <<loop, future, queue>>
      BY <3>1, <3>2 DEF PoolTypes, CallTypes, TypeOK, Where
    <3>3. ASSUME NEW l \in Loop, Enlist(of[c], l),
                 of' = [of EXCEPT ![l] = of[c], ![c] = NoSession]
          PROVE  PoolTypes' /\ CallTypes'
      <4>1. of[c] \in Session
        BY DEF TypeOK
      <4>2. CallTypes'
        BY <3>1, <3>3, <4>1 DEF CallTypes, TypeOK, Where
      <4> QED BY <1>5, <3>3, <4>1, <4>2
    <3> QED BY <2>3, <3>2, <3>3 DEF Submit
  <2>4. CASE Resume(c)
    BY <2>2, <2>4 DEF Resume, Goto, Where
  <2>5. CASE Reopen(c) \/ Unpause(c)
    BY <2>1, <2>2, <2>5 DEF Reopen, Unpause, ResumeSession, Goto, Where
  <2>6. CASE Start(c)
    BY <2>1, <2>2, <2>6 DEF Start, Goto, Where
  <2>7. CASE Retry(c)
    BY <2>1, <2>2, <2>7 DEF Retry, Goto, Where
  <2>8. CASE Reread(c)
    BY <2>1, <2>2, <2>8 DEF Reread, Goto, Where
  <2> QED BY <1>6, <2>3, <2>4, <2>5, <2>6, <2>7, <2>8 DEF Requesting
<1>7. ASSUME NEW c \in Caller, NEW o \in {"start", "resume", "run", "retry"}, NEW s \in Session,
             Begin(c, o, s)
      PROVE  PoolTypes' /\ CallTypes'
  <2>1. /\ \E where \in Where : pc' = [pc EXCEPT ![c] = where]
        /\ of' = [of EXCEPT ![c] = s]
        /\ UNCHANGED <<poolVars, rounds, verdict, late>>
    <3> DEFINE first == [start |-> "starting", resume |-> "resuming", run |-> "choosing",
                         retry |-> "retrying"]
    <3>1. /\ pc' = [pc EXCEPT ![c] = first[o]] /\ of' = [of EXCEPT ![c] = s]
          /\ UNCHANGED <<poolVars, rounds, verdict, late>>
      BY <1>7, Zenon DEF Begin, Goto
    <3>2. first[o] \in Where
      BY <1>7 DEF Where
    <3> HIDE DEF first
    <3> QED BY <3>1, <3>2
  <2> QED BY <1>2, <2>1 DEF poolVars
<1>8. ASSUME NEW r \in Runner, RunNext(r)
      PROVE  PoolTypes' /\ CallTypes'
  <2>1. CASE Choose(r)
    <3>1. UNCHANGED <<poolVars, late>>
      BY <2>1 DEF Choose
    <3>2. \/ Return(r, status[of[r]] \in EndsLoop) \/ Return(r, TRUE)
          \/ /\ Goto(r, "recording") /\ UNCHANGED of /\ UNCHANGED rounds
             /\ verdict' = [verdict EXCEPT ![r] = "completed"]
          \/ Goto(r, "claiming") /\ UNCHANGED of /\ UNCHANGED rounds /\ UNCHANGED verdict
      BY <2>1 DEF Choose
    <3>3. (status[of[r]] \in EndsLoop) \in BOOLEAN
      OBVIOUS
    <3>4. CASE Return(r, status[of[r]] \in EndsLoop) \/ Return(r, TRUE)
      BY <1>4, <3>1, <3>3, <3>4, Zenon DEF poolVars
    <3>5. CASE /\ Goto(r, "recording") /\ UNCHANGED of /\ UNCHANGED rounds
               /\ verdict' = [verdict EXCEPT ![r] = "completed"]
      BY <1>2, <3>1, <3>5 DEF poolVars, Goto, Where, Verdict
    <3>6. CASE Goto(r, "claiming") /\ UNCHANGED of /\ UNCHANGED rounds /\ UNCHANGED verdict
      BY <1>2, <3>1, <3>6 DEF poolVars, Goto, Where
    <3> QED BY <3>2, <3>4, <3>5, <3>6
  <2>2. CASE Claim(r)
    <3>1. CASE Return(r, TRUE) /\ UNCHANGED late
      BY <1>4, <2>2, <3>1 DEF Claim, poolVars
    <3>2. CASE ~(Return(r, TRUE) /\ UNCHANGED late)
      <4>1. /\ late' = [l \in Loop |-> IF l = r /\ stopping THEN late[l] + 1 ELSE late[l]]
            /\ pc' = [pc EXCEPT ![r] = "executing"]
            /\ UNCHANGED <<of, rounds, verdict, future, loop, queue>>
        BY <2>2, <3>2 DEF Claim, Goto, poolVars
      <4> QED BY <4>1 DEF PoolTypes, CallTypes, TypeOK, Where
    <3> QED BY <3>1, <3>2
  <2>3. CASE Execute(r)
    <3>1. /\ pc' = [pc EXCEPT ![r] = "finishing"]
          /\ \E v \in Verdict : verdict' = [verdict EXCEPT ![r] = v]
          /\ UNCHANGED <<poolVars, of, rounds, late>>
      BY <2>3 DEF Execute, Goto, Verdict
    <3> QED BY <1>2, <3>1 DEF poolVars, Where
  <2>4. CASE Finish(r)
    <3>1. UNCHANGED <<poolVars, late>>
      BY <2>4 DEF Finish
    <3>2. \/ Return(r, verdict[r] \in EndsLoop)
          \/ Goto(r, "recording") /\ UNCHANGED <<of, rounds, verdict>>
      BY <2>4 DEF Finish
    <3>3. (verdict[r] \in EndsLoop) \in BOOLEAN
      OBVIOUS
    <3>4. CASE Return(r, verdict[r] \in EndsLoop)
      BY <1>4, <3>1, <3>3, <3>4, Zenon DEF poolVars
    <3>5. CASE Goto(r, "recording") /\ UNCHANGED <<of, rounds, verdict>>
      BY <1>2, <3>1, <3>5 DEF poolVars, Goto, Where
    <3> QED BY <3>2, <3>4, <3>5
  <2>5. CASE Record(r)
    <3>1. UNCHANGED <<poolVars, late>> /\ Return(r, status'[of[r]] = "complete")
      BY <2>5 DEF Record
    <3>2. (status'[of[r]] = "complete") \in BOOLEAN
      OBVIOUS
    <3> QED BY <1>4, <3>1, <3>2, Zenon DEF poolVars
  <2> QED BY <1>8, <2>1, <2>2, <2>3, <2>4, <2>5 DEF RunNext
<1>9. ASSUME NEW l \in Loop, Enter(l)
      PROVE  PoolTypes' /\ CallTypes'
  <2>1. /\ UNCHANGED <<poolVars, of, verdict, late>>
        /\ \/ /\ rounds[l] < MaxTasks /\ rounds' = [rounds EXCEPT ![l] = @ + 1]
              /\ pc' = [pc EXCEPT ![l] = "choosing"]
           \/ pc' = [pc EXCEPT ![l] = "ending"] /\ rounds' = rounds
    BY <1>9 DEF Enter, GoesOn, Goto
  <2>2. PoolTypes'
    BY <2>1 DEF PoolTypes, poolVars, TypeOK
  <2>3. pc' \in [Runner -> Where] /\ UNCHANGED <<of, verdict, late>>
    BY <2>1 DEF TypeOK, Where
  <2>4. rounds' \in [Loop -> 0..MaxTasks]
    <3>1. \A n \in 0..MaxTasks : n < MaxTasks => n + 1 \in 0..MaxTasks
      BY WorkersAssumption
    <3> QED BY <2>1, <3>1 DEF TypeOK
  <2> QED BY <2>2, <2>3, <2>4 DEF CallTypes, TypeOK
<1>10. ASSUME NEW l \in Loop, Conclude(l)
       PROVE  PoolTypes' /\ CallTypes'
  <2>1. /\ \E new \in {"done", "unused"} : loop' = [loop EXCEPT ![l] = new]
        /\ pc' = [pc EXCEPT ![l] = "idle"] /\ of' = [of EXCEPT ![l] = NoSession]
        /\ rounds' = [rounds EXCEPT ![l] = 0] /\ late' = [late EXCEPT ![l] = 0]
        /\ UNCHANGED <<future, queue, verdict>>
    BY <1>10 DEF Conclude, Goto
  <2>2. PoolTypes'
    BY <2>1 DEF PoolTypes, TypeOK
  <2>3. CallTypes'
    BY <2>1, WorkersAssumption DEF CallTypes, TypeOK, Where
  <2> QED BY <2>2, <2>3
<1>11. ASSUME NEW s \in Session, BootStart(s)
       PROVE  PoolTypes' /\ CallTypes'
  <2>1. /\ UNCHANGED <<pc, rounds, verdict, late>>
        /\ \/ UNCHANGED <<future, loop, queue>> /\ of' = of
           \/ \E l \in Loop : Enlist(s, l) /\ of' = [of EXCEPT ![l] = s]
    BY <1>11 DEF BootStart
  <2>2. CallTypes'
    BY <2>1 DEF CallTypes, TypeOK
  <2>3. PoolTypes'
    BY <1>5, <2>1 DEF PoolTypes, TypeOK
  <2> QED BY <2>2, <2>3
<1>12. ASSUME Dispatch
       PROVE  PoolTypes' /\ CallTypes'
  <2>1. /\ queue # <<>> /\ loop' = [loop EXCEPT ![Head(queue)] = "running"]
        /\ queue' = Tail(queue) /\ pc' = [pc EXCEPT ![Head(queue)] = "entering"]
        /\ UNCHANGED <<future, of, rounds, verdict, late>>
    BY <1>12 DEF Dispatch, Goto
  <2>2. Head(queue) \in Loop /\ Tail(queue) \in Seq(Loop)
    BY <2>1 DEF TypeOK
  <2>3. PoolTypes'
    BY <2>1, <2>2 DEF PoolTypes, TypeOK
  <2>4. pc' \in [Runner -> Where]
    BY <2>1, <2>2 DEF TypeOK, Where
  <2> QED BY <2>1, <2>3, <2>4 DEF CallTypes, TypeOK
<1>13. ASSUME Close
       PROVE  PoolTypes' /\ CallTypes'
  BY <1>13 DEF Close, PoolTypes, CallTypes, TypeOK, callVars
<1>14. ASSUME Exit \/ Crash
       PROVE  PoolTypes' /\ CallTypes'
  <2>1. NoMemory
    BY <1>14 DEF Exit, Crash, Down
  <2> QED BY <2>1, WorkersAssumption DEF NoMemory, PoolTypes, CallTypes, Where, Verdict
<1>15. CASE \/ \E s \in Session : Pause(s) \/ Cancel(s) \/ Quarantine(s)
            \/ Shutdown \/ Restart \/ UNCHANGED vars
  <2>1. UNCHANGED <<future, loop, queue, callVars, late>>
    BY <1>15 DEF Pause, Cancel, Quarantine, Shutdown, Restart, vars, poolVars
  <2> QED BY <2>1 DEF PoolTypes, CallTypes, TypeOK, callVars
<1> QED BY <1>6, <1>7, <1>8, <1>9, <1>10, <1>11, <1>12, <1>13, <1>14, <1>15
        DEF Next, Looping

(* Every step keeps the invariant.                                         *)
LEMMA WorkersInvKept ==
    ASSUME TypeOK, WorkersInv, [Next]_vars
    PROVE  WorkersInv'
<1>1. CASE UNCHANGED vars
  BY <1>1 DEF vars, rowVars, poolVars, callVars, WorkersInv, TasksKept, OneWorker, Working,
      QueueKept, InQueue, LoopsKept, Live, BootKept, Memoryless, StopKept
<1>2. CASE \E c \in Caller : Requesting(c) \/ \E o \in {"start", "resume", "run", "retry"},
                                                s \in Session : Begin(c, o, s)
  BY <1>2, EasySteps, StillKeeps, SubmitKeeps, RetryKeeps DEF Requesting
<1>3. CASE \E s \in Session : Pause(s) \/ Cancel(s) \/ Quarantine(s) \/ BootStart(s)
  BY <1>3, EasySteps, StillKeeps, CancelKeeps, BootStartKeeps
<1>4. CASE \E r \in Runner : RunNext(r)
  BY <1>4, EasySteps, StillKeeps, ClaimKeeps, FinishKeeps DEF RunNext
<1>5. CASE \E l \in Loop : Looping(l)
  BY <1>5, EasySteps, StillKeeps, ConcludeKeeps DEF Looping
<1>6. CASE Dispatch \/ Shutdown \/ Close \/ Exit \/ Crash \/ Restart
  BY <1>6, DispatchKeeps, ShutdownKeeps, DownKeeps, RestartKeeps
<1> QED BY <1>1, <1>2, <1>3, <1>4, <1>5, <1>6 DEF Next

(* It holds at first.                                                      *)
LEMMA WorkersInit ==
    ASSUME Init
    PROVE  TypeOK /\ WorkersInv
<1> USE LoopFacts, WorkersAssumption
<1>1. TypeOK
  <2>1. /\ status \in [Session -> Status] /\ left \in [Session -> Nat]
        /\ \A s \in Session : left[s] <= Work[s]
    BY DEF Init, Status
  <2>2. /\ busy \in [Session -> BOOLEAN] /\ failed \in [Session -> BOOLEAN]
        /\ up \in BOOLEAN /\ faults \in 0..MaxFault /\ listed \subseteq Session
        /\ stopping \in BOOLEAN /\ closed \in BOOLEAN
    <3>1. up \in BOOLEAN /\ stopping \in BOOLEAN /\ closed \in BOOLEAN
      BY Zenon DEF Init
    <3>2. busy \in [Session -> BOOLEAN] /\ failed \in [Session -> BOOLEAN]
      BY Zenon DEF Init
    <3>3. faults \in 0..MaxFault /\ listed \subseteq Session
      BY DEF Init
    <3> QED BY <3>1, <3>2, <3>3
  <2>3. /\ future \in [Session -> Loop \cup {NoLoop}]
        /\ loop \in [Loop -> {"unused", "queued", "running", "done"}]
        /\ queue \in Seq(Loop) /\ Len(queue) <= MaxLoop
    BY DEF Init
  <2>4. /\ pc \in [Runner -> Where] /\ of \in [Runner -> Session]
        /\ rounds \in [Loop -> 0..MaxTasks] /\ verdict \in [Runner -> Verdict]
        /\ late \in [Loop -> Nat]
    BY DEF Init, Where, Verdict
  <2> QED BY <2>1, <2>2, <2>3, <2>4 DEF TypeOK
<1>2. TasksKept /\ OneWorker
  BY DEF Init, TasksKept, OneWorker, Working, One
<1>3. QueueKept /\ LoopsKept
  BY DEF Init, QueueKept, InQueue, LoopsKept, Live
<1>4. BootKept /\ StopKept
  BY DEF Init, BootKept, Memoryless, StopKept
<1> QED BY <1>1, <1>2, <1>3, <1>4 DEF WorkersInv

(* And with it TypeOK is kept.                                             *)
LEMMA WorkersStep ==
    ASSUME TypeOK, WorkersInv, [Next]_vars
    PROVE  TypeOK' /\ WorkersInv'
<1>1. WorkersInv'
  BY WorkersInvKept
<1>2. RowTypes' /\ KernelTypes' /\ PoolTypes' /\ CallTypes'
  BY RowTypesKept, KernelTypesKept, CallTypesKept
<1>3. Len(queue)' <= MaxLoop
  <2>1. /\ queue' \in Seq(Loop)
        /\ \A i, j \in 1..Len(queue') : queue'[i] = queue'[j] => i = j
    BY <1>1, <1>2 DEF WorkersInv, QueueKept, PoolTypes
  <2> QED BY <2>1, QueueBound
<1>4. \A s \in Session : left'[s] <= Work[s]
  BY <1>1, <1>2, WorkersAssumption DEF WorkersInv, TasksKept, RowTypes, One
<1> QED BY <1>1, <1>2, <1>3, <1>4 DEF TypeOK, RowTypes, KernelTypes, PoolTypes, CallTypes

(* TypeOK and the invariant in every state the program can be in: the rows *)
(* and the pool stay what they are, no session has more tasks than it was  *)
(* given, and a task that is worked on is one worker's (claim_task).       *)
THEOREM WorkersInvariant == Spec => [](TypeOK /\ WorkersInv)
BY WorkersInit, WorkersStep, PTL DEF Spec

(* The live loops of a session are at most its one future.                 *)
LEMMA AtMostOne ==
    ASSUME LoopsKept, NEW s \in Session
    PROVE  Cardinality({l \in Live : of[l] = s}) <= 1
<1> DEFINE S == {l \in Live : of[l] = s}
<1>1. S \subseteq {future[s]}
  BY DEF LoopsKept
<1> HIDE DEF S
<1>2. IsFiniteSet({future[s]}) /\ Cardinality({future[s]}) = 1
  BY FS_Singleton
<1>3. Cardinality(S) <= 1
  BY <1>1, <1>2, FS_Subset
<1> QED BY <1>3 DEF S

(* A session has at most one loop, however start, resume, retry and the    *)
(* recovery at boot coincide (BuildExecutionManager.start and its lock).   *)
THEOREM OneLoopEach == Spec => []OneLoop
<1>1. TypeOK /\ WorkersInv => OneLoop
  BY AtMostOne DEF OneLoop, WorkersInv
<1> QED BY <1>1, WorkersInvariant, PTL

(* After the shutdown a loop claims the task it was about to claim, and no *)
(* second one (the check of _stopping before each round of _run_session).  *)
THEOREM StopsWithinATask == Spec => []StopsAtTask
<1>1. TypeOK /\ WorkersInv => StopsAtTask
  BY DEF StopsAtTask, WorkersInv, StopKept, TypeOK
<1> QED BY <1>1, WorkersInvariant, PTL
=============================================================================
