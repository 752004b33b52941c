--------------------------- MODULE CommandRunner ----------------------------
(***************************************************************************)
(* GovernedCommandRunner: local commands, each run by a thread that waits  *)
(* for it, and cancelled by others while it does. An agent has one command *)
(* at a time and is its name here: run ids are never used again, so a      *)
(* canceller drops the id of a command that has been answered, for which   *)
(* cancel() would say False.                                               *)
(***************************************************************************)
EXTENDS Naturals, FiniteSets

CONSTANTS
    Agent,
    Workspace,
    Root,        \* Root[a]: the workspace agent a runs in
    Canceller    \* threads that cancel: request handlers, the shutdown

ASSUME RunnerAssumption == Root \in [Agent -> Workspace]

VARIABLES
    stage,       \* where its thread is in the runner
    proc,        \* the process
    zero,        \* did it return 0?
    cancelled,   \* _ActiveProcess.cancelled
    timedOut,    \* _ActiveProcess.timed_out
    ok,          \* CommandResult.ok
    todo,        \* run ids a canceller has still to cancel
    victim,      \* the command it is about to terminate
    survivors    \* workspaces where a process outlives its command

cancelVars == <<todo, victim>>
commandVars == <<stage, proc, zero, cancelled, timedOut, ok>>
runnerVars == <<commandVars, cancelVars, survivors>>

Stage == {"none", "started", "waiting", "terminating", "reaping", "answering", "retiring"}

RunnerTypeOK ==
    /\ stage \in [Agent -> Stage]
    /\ proc \in [Agent -> {"none", "alive", "ended"}]
    /\ \A f \in {zero, cancelled, timedOut, ok} : f \in [Agent -> BOOLEAN]
    /\ todo \in [Canceller -> SUBSET Agent]
    /\ victim \in [Canceller -> SUBSET Agent]
    /\ \A k \in Canceller : Cardinality(victim[k]) <= 1
    /\ survivors \subseteq Workspace

RunnerInit ==
    /\ stage = [a \in Agent |-> "none"]
    /\ proc = [a \in Agent |-> "none"]
    /\ zero = [a \in Agent |-> FALSE]
    /\ cancelled = [a \in Agent |-> FALSE]
    /\ timedOut = [a \in Agent |-> FALSE]
    /\ ok = [a \in Agent |-> FALSE]
    /\ todo = [k \in Canceller |-> {}]
    /\ victim = [k \in Canceller |-> {}]
    /\ survivors = {}

In(a, s) == stage[a] = s
Move(a, s) == stage' = [stage EXCEPT ![a] = s]

(* _active *)
Active == {a \in Agent : stage[a] \notin {"none", "started"}}

----------------------------------------------------------------------------
(* start                                                                   *)

Popen(a) ==
    /\ In(a, "none")
    /\ Move(a, "started")
    /\ proc' = [proc EXCEPT ![a] = "alive"]
    /\ UNCHANGED <<zero, cancelled, timedOut, ok, cancelVars, survivors>>

Register(a) ==
    /\ In(a, "started")
    /\ Move(a, "waiting")
    /\ UNCHANGED <<proc, zero, cancelled, timedOut, ok, cancelVars, survivors>>

(* The process ends by itself.                                             *)
Exits(a) ==
    /\ proc[a] = "alive"
    /\ proc' = [proc EXCEPT ![a] = "ended"]
    /\ \E z \in BOOLEAN : zero' = [zero EXCEPT ![a] = z]
    /\ UNCHANGED <<stage, cancelled, timedOut, ok, cancelVars, survivors>>

(* _terminate_process: a signal, and a second one. A process may handle it *)
(* and return 0, or outlive both.                                          *)
Signalled(a) ==
    \/ /\ proc[a] = "alive"
       /\ proc' = [proc EXCEPT ![a] = "ended"]
       /\ \E z \in BOOLEAN : zero' = [zero EXCEPT ![a] = z]
    \/ UNCHANGED <<proc, zero>>

----------------------------------------------------------------------------
(* _wait                                                                   *)

Returns(a) ==
    /\ stage[a] \in {"waiting", "reaping"} /\ proc[a] = "ended"
    /\ Move(a, "answering")
    /\ UNCHANGED <<proc, zero, cancelled, timedOut, ok, cancelVars, survivors>>

Expires(a) ==
    /\ In(a, "waiting") /\ proc[a] = "alive"
    /\ timedOut' = [timedOut EXCEPT ![a] = TRUE]
    /\ Move(a, "terminating")
    /\ UNCHANGED <<proc, zero, cancelled, ok, cancelVars, survivors>>

Terminate(a) ==
    /\ In(a, "terminating")
    /\ Signalled(a)
    /\ Move(a, "reaping")
    /\ UNCHANGED <<cancelled, timedOut, ok, cancelVars, survivors>>

(* The command is answered, or given up: nobody asks for its id again.     *)
Forget(a) ==
    /\ Move(a, "none")
    /\ proc' = [proc EXCEPT ![a] = "none"]
    /\ zero' = [zero EXCEPT ![a] = FALSE]
    /\ cancelled' = [cancelled EXCEPT ![a] = FALSE]
    /\ timedOut' = [timedOut EXCEPT ![a] = FALSE]
    /\ ok' = [ok EXCEPT ![a] = FALSE]
    /\ todo' = [k \in Canceller |-> todo[k] \ {a}]
    /\ victim' = [k \in Canceller |-> victim[k] \ {a}]

(* The second wait raises out of run: the command stays in _active, with   *)
(* nobody to answer it.                                                    *)
Raises(a) ==
    /\ In(a, "reaping") /\ proc[a] = "alive"
    /\ Forget(a)
    /\ survivors' = survivors \cup {Root[a]}

ZeroIsOk(a) == zero[a] /\ ~timedOut[a]
Succeeded(a) == zero[a] /\ ~cancelled[a] /\ ~timedOut[a]

(* The result, under the lock of the command ...                           *)
Answer(a) ==
    /\ In(a, "answering")
    /\ ok' = [ok EXCEPT ![a] = Succeeded(a)]
    /\ Move(a, "retiring")
    /\ UNCHANGED <<proc, zero, cancelled, timedOut, cancelVars, survivors>>

(* ... and from _active to _completed.                                     *)
Retire(a) == In(a, "retiring") /\ Forget(a) /\ UNCHANGED survivors

----------------------------------------------------------------------------
(* cancel, for one command, those of a workspace, or all that are active   *)

CancelAll(k, ids) ==
    /\ todo[k] = {} /\ victim[k] = {}
    /\ ids # {}
    /\ todo' = [todo EXCEPT ![k] = ids]
    /\ UNCHANGED <<commandVars, victim, survivors>>

Unflagged(a) == ~cancelled[a]
Cancellable(a) == ~cancelled[a] /\ stage[a] # "retiring" /\ proc[a] = "alive"

(* cancel answers True from here, or False.                                *)
Flag(k) ==
    /\ victim[k] = {}
    /\ \E a \in todo[k] :
         /\ todo' = [todo EXCEPT ![k] = @ \ {a}]
         /\ IF Cancellable(a)
            THEN /\ cancelled' = [cancelled EXCEPT ![a] = TRUE]
                 /\ victim' = [victim EXCEPT ![k] = {a}]
            ELSE UNCHANGED <<cancelled, victim>>
    /\ UNCHANGED <<stage, proc, zero, timedOut, ok, survivors>>

Kill(k) ==
    /\ \E a \in victim[k] : Signalled(a)
    /\ victim' = [victim EXCEPT ![k] = {}]
    /\ UNCHANGED <<stage, cancelled, timedOut, ok, todo, survivors>>

(* The kernel dies; a command has a session of its own and goes on.        *)
Die ==
    /\ stage' = [a \in Agent |-> "none"]
    /\ proc' = [a \in Agent |-> "none"]
    /\ zero' = [a \in Agent |-> FALSE]
    /\ cancelled' = [a \in Agent |-> FALSE]
    /\ timedOut' = [a \in Agent |-> FALSE]
    /\ ok' = [a \in Agent |-> FALSE]
    /\ todo' = [k \in Canceller |-> {}]
    /\ victim' = [k \in Canceller |-> {}]
    /\ survivors' = survivors \cup {Root[a] : a \in {b \in Agent : proc[b] = "alive"}}
=============================================================================
