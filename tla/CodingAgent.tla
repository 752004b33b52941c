---------------------------- MODULE CodingAgent -----------------------------
(***************************************************************************)
(* CodingAgentService.run: rounds of a model that calls tools, the check   *)
(* the kernel runs on what came of it, bounded repairs, and the evidence   *)
(* gate of the orchestrator behind it. Its commands are CommandRunner's.   *)
(*                                                                         *)
(* Of a workspace the model keeps what has changed since the run began, of *)
(* a verification plan how many checks it has.                             *)
(***************************************************************************)
EXTENDS CommandRunner

CONSTANTS
    Kinds,         \* the runs to consider
    MaxRounds,     \* max_rounds
    MaxCalls,      \* MAX_CALLS_PER_ROUND
    MaxChecks,     \* bound: checks of a plan
    MaxRepairs     \* MAX_REPAIR_ROUNDS

ASSUME AgentAssumption ==
    /\ Kinds \subseteq {"contract", "implementation", "review"}
    /\ \A n \in {MaxRounds, MaxCalls, MaxChecks} : n \in Nat \ {0}
    /\ MaxRepairs \in Nat

VARIABLES
    pc,          \* where the run is
    kind,        \* the task: with an output contract, of the implementation
                 \* phase (verify_always), or neither
    round,       \* rounds of this advance
    calls,       \* tool calls of the round still to execute
    status,      \* state["status"]
    asked,       \* question_box
    stepped,     \* has this advance executed a tool?
    tracked,     \* changed_files is not empty
    diff,        \* how the workspace differs from what it was when the run began
    snapshot,    \* a snapshot of now: there is none of a workspace over the
                 \* limit, and "never" one to compare when it began like that
    checks,      \* checks of the plan still to run
    failing,     \* has one failed?
    verdict,     \* auto_verification
    repairs,
    accepted,    \* what the gate said of the run that ended
    touched,     \* history: has a tool changed files since the check began?
    spoilt       \* history: has one of its commands not run to a plain 0?

loopVars == <<round, calls, status, asked, stepped>>
checkVars == <<checks, failing, verdict, repairs, spoilt>>
treeVars == <<tracked, diff, snapshot, touched>>
agentVars == <<pc, kind, loopVars, checkVars, treeVars, accepted>>
vars == <<agentVars, runnerVars>>

Change == {"edited", "deleted"}

TypeOK ==
    /\ RunnerTypeOK
    /\ pc \in [Agent -> {"idle", "asking", "calling", "advanced", "checking", "ending"}]
    /\ kind \in [Agent -> {"contract", "implementation", "review"}]
    /\ round \in [Agent -> 0..MaxRounds]
    /\ calls \in [Agent -> 0..MaxCalls]
    /\ status \in [Agent -> {"ok", "needs_decision", "model_error"}]
    /\ diff \in [Agent -> SUBSET Change]
    /\ snapshot \in [Agent -> {"taken", "over", "never"}]
    /\ checks \in [Agent -> 0..MaxChecks]
    /\ verdict \in [Agent -> {"none", "ok", "bad", "unchecked"}]
    /\ repairs \in [Agent -> 0..MaxRepairs]
    /\ \A f \in {asked, stepped, tracked, failing, accepted, touched, spoilt} :
         f \in [Agent -> BOOLEAN]

Never == [a \in Agent |-> FALSE]
Zero == [a \in Agent |-> 0]

Init ==
    /\ RunnerInit
    /\ pc = [a \in Agent |-> "idle"]
    /\ kind = [a \in Agent |-> "review"]
    /\ round = Zero /\ calls = Zero
    /\ status = [a \in Agent |-> "ok"]
    /\ asked = Never /\ stepped = Never
    /\ tracked = Never /\ touched = Never
    /\ diff = [a \in Agent |-> {}]
    /\ snapshot = [a \in Agent |-> "taken"]
    /\ checks = Zero /\ repairs = Zero
    /\ failing = Never /\ spoilt = Never
    /\ verdict = [a \in Agent |-> "none"]
    /\ accepted = Never

At(a, p) == pc[a] = p /\ stage[a] = "none"
Goto(a, p) == pc' = [pc EXCEPT ![a] = p]

----------------------------------------------------------------------------
(* A run begins with a snapshot of the workspace, if it has few enough     *)
(* files.                                                                  *)
Begin(a) ==
    /\ At(a, "idle")
    /\ Goto(a, "asking")
    /\ \E k \in Kinds : kind' = [kind EXCEPT ![a] = k]
    /\ round' = [round EXCEPT ![a] = 0]
    /\ calls' = [calls EXCEPT ![a] = 0]
    /\ status' = [status EXCEPT ![a] = "ok"]
    /\ asked' = [asked EXCEPT ![a] = FALSE]
    /\ stepped' = [stepped EXCEPT ![a] = FALSE]
    /\ tracked' = [tracked EXCEPT ![a] = FALSE]
    /\ touched' = [touched EXCEPT ![a] = FALSE]
    /\ diff' = [diff EXCEPT ![a] = {}]
    /\ \E s \in {"taken", "never"} : snapshot' = [snapshot EXCEPT ![a] = s]
    /\ checks' = [checks EXCEPT ![a] = 0]
    /\ repairs' = [repairs EXCEPT ![a] = 0]
    /\ failing' = [failing EXCEPT ![a] = FALSE]
    /\ spoilt' = [spoilt EXCEPT ![a] = FALSE]
    /\ verdict' = [verdict EXCEPT ![a] = "none"]
    /\ accepted' = [accepted EXCEPT ![a] = FALSE]
    /\ UNCHANGED runnerVars

AllowsTools(a) == round[a] < MaxRounds

(* advance: the model fails (that it cannot call tools at all is one such  *)
(* failure), has no more to call (it gets no tools in the round after the  *)
(* last), or calls tools.                                                  *)
Ask(a) ==
    /\ At(a, "asking")
    /\ \/ /\ status' = [status EXCEPT ![a] = "model_error"]
          /\ Goto(a, "advanced")
          /\ UNCHANGED <<round, calls>>
       \/ Goto(a, "advanced") /\ UNCHANGED <<round, calls, status>>
       \/ /\ AllowsTools(a)
          /\ round' = [round EXCEPT ![a] = @ + 1]
          /\ \E n \in 1..MaxCalls : calls' = [calls EXCEPT ![a] = n]
          /\ Goto(a, "calling")
          /\ UNCHANGED status
    /\ UNCHANGED <<kind, asked, stepped, treeVars, checkVars, accepted, runnerVars>>

Executed(a) ==
    /\ calls' = [calls EXCEPT ![a] = @ - 1]
    /\ stepped' = [stepped EXCEPT ![a] = TRUE]

(* What a command, or a tool, leaves in the workspace: it may grow over the *)
(* limit, or come back under it.                                           *)
Sizes(a, change) ==
    {snapshot[a]} \cup
    IF snapshot[a] = "never" THEN {}
    ELSE {s \in {"over", "taken"} : (IF s = "over" THEN "edited" ELSE "deleted") \in change}

Changes(a, change) ==
    /\ \E s \in Sizes(a, change) : snapshot' = [snapshot EXCEPT ![a] = s]
    /\ diff' = [diff EXCEPT ![a] = @ \cup change]
    /\ touched' = [touched EXCEPT ![a] = @ \/ (change # {} /\ pc[a] = "calling")]

(* A tool that is no command: it reads or fails, or writes or deletes a    *)
(* file and is tracked, or asks the founder.                               *)
Call(a) ==
    /\ At(a, "calling") /\ calls[a] > 0
    /\ Executed(a)
    /\ \/ UNCHANGED <<treeVars, asked>>
       \/ /\ \E c \in Change : Changes(a, {c})
          /\ tracked' = [tracked EXCEPT ![a] = TRUE]
          /\ UNCHANGED asked
       \/ asked' = [asked EXCEPT ![a] = TRUE] /\ UNCHANGED treeVars
    /\ UNCHANGED <<pc, kind, round, status, checkVars, accepted, runnerVars>>

(* run_command, which a run with a contract has not got: its commands are  *)
(* git_status and git_diff, which only read.                               *)
HasCommands(a) == kind[a] # "contract"
CallCommand(a) ==
    /\ At(a, "calling") /\ calls[a] > 0
    /\ Popen(a)
    /\ UNCHANGED agentVars

(* The round is over.                                                      *)
EndRound(a) ==
    /\ At(a, "calling") /\ calls[a] = 0
    /\ IF asked[a]
       THEN status' = [status EXCEPT ![a] = "needs_decision"] /\ Goto(a, "advanced")
       ELSE Goto(a, "asking") /\ UNCHANGED status
    /\ UNCHANGED <<kind, round, calls, asked, stepped, treeVars, checkVars, accepted,
                   runnerVars>>

----------------------------------------------------------------------------
(* The check                                                               *)

(* real_change_targets: what was tracked, and what was added or modified   *)
(* between two snapshots, if there are two.                                *)
HasTargets(a) == tracked[a] \/ (snapshot[a] = "taken" /\ "edited" \in diff[a])

(* _verification_plan. Without a check nothing is run and nothing failed.  *)
BeginCheck(a) ==
    /\ \E n \in 0..MaxChecks :
         /\ checks' = [checks EXCEPT ![a] = n]
         /\ Goto(a, IF n = 0 THEN "ending" ELSE "checking")
         /\ verdict' = [verdict EXCEPT ![a] = IF n = 0 THEN "unchecked" ELSE @]
    /\ failing' = [failing EXCEPT ![a] = FALSE]
    /\ spoilt' = [spoilt EXCEPT ![a] = FALSE]
    /\ touched' = [touched EXCEPT ![a] = FALSE]
    /\ UNCHANGED repairs

(* After advance: a run that changed something is checked, and one of the  *)
(* implementation phase always; after a repair it is checked again, unless *)
(* nothing new happened.                                                   *)
ToCheckOnce(a) ==
    status[a] = "ok" /\ repairs[a] = 0 /\ (HasTargets(a) \/ kind[a] = "implementation")
ToCheck(a) ==
    /\ status[a] = "ok"
    /\ IF repairs[a] = 0 THEN HasTargets(a) \/ kind[a] = "implementation" ELSE stepped[a]

Advanced(a) ==
    /\ At(a, "advanced")
    /\ IF ToCheck(a) THEN BeginCheck(a)
       ELSE Goto(a, "ending") /\ UNCHANGED <<checkVars, touched>>
    /\ UNCHANGED <<kind, loopVars, tracked, diff, snapshot, accepted, runnerVars>>

(* A check is refused by its policy or cannot be started, or is unknown.   *)
Refused(a) ==
    /\ At(a, "checking") /\ checks[a] > 0
    /\ checks' = [checks EXCEPT ![a] = @ - 1]
    /\ failing' = [failing EXCEPT ![a] = TRUE]
    /\ spoilt' = [spoilt EXCEPT ![a] = TRUE]
    /\ UNCHANGED <<pc, kind, loopVars, treeVars, verdict, repairs, accepted, runnerVars>>

RunCheck(a) ==
    /\ At(a, "checking") /\ checks[a] > 0 /\ HasCommands(a)
    /\ Popen(a)
    /\ UNCHANGED agentVars

(* What a command came to, for the call or the check it was.               *)
Delivered(a, good) ==
    IF pc[a] = "calling"
    THEN Executed(a) /\ UNCHANGED <<checks, failing>>
    ELSE /\ checks' = [checks EXCEPT ![a] = @ - 1]
         /\ failing' = [failing EXCEPT ![a] = @ \/ ~good]
         /\ UNCHANGED <<calls, stepped>>

WhileBad(a) == status[a] = "ok"
MayRepair(a) == repairs[a] < MaxRepairs /\ status[a] = "ok"

(* The verdict, and the next repair when it is bad.                        *)
Conclude(a) ==
    /\ At(a, "checking") /\ checks[a] = 0
    /\ verdict' = [verdict EXCEPT ![a] = IF failing[a] THEN "bad" ELSE "ok"]
    /\ IF failing[a] /\ MayRepair(a)
       THEN /\ Goto(a, "asking")
            /\ repairs' = [repairs EXCEPT ![a] = IF @ < MaxRepairs THEN @ + 1 ELSE @]
            /\ round' = [round EXCEPT ![a] = 0]
            /\ stepped' = [stepped EXCEPT ![a] = FALSE]
       ELSE Goto(a, "ending") /\ UNCHANGED <<repairs, round, stepped>>
    /\ UNCHANGED <<kind, calls, status, asked, treeVars, checks, failing, spoilt, accepted,
                   runnerVars>>

(* The review, by a model that may say nothing, and the gate: the contract *)
(* is kept or not, a failed check or review is final, and an               *)
(* implementation needs a check that passed.                               *)
Gate(a, kept, review) ==
    /\ status[a] = "ok"
    /\ kept
    /\ verdict[a] # "bad"
    /\ kind[a] = "implementation" => verdict[a] = "ok"
    /\ review # "fail"

End(a) ==
    /\ At(a, "ending")
    /\ Goto(a, "idle")
    /\ \E kept \in IF kind[a] = "contract" THEN BOOLEAN ELSE {TRUE},
         review \in IF HasTargets(a) THEN {"none", "pass", "fail"} ELSE {"none"} :
         accepted' = [accepted EXCEPT ![a] = Gate(a, kept, review)]
    /\ UNCHANGED <<kind, loopVars, treeVars, checkVars, runnerVars>>

----------------------------------------------------------------------------
(* The commands of the agents: what they change they have changed when     *)
(* they end or are given up.                                               *)

Running(a) ==
    /\ (Register(a) \/ Returns(a) \/ Expires(a) \/ Answer(a))
    /\ UNCHANGED agentVars

Leaves(a) ==
    /\ \E c \in IF proc[a] = "alive" /\ HasCommands(a) THEN SUBSET Change ELSE {{}} :
         Changes(a, c)
    /\ UNCHANGED tracked

Exit(a) ==
    /\ Exits(a)
    /\ Leaves(a)
    /\ UNCHANGED <<pc, kind, loopVars, checkVars, accepted>>

Expired(a) ==
    /\ Terminate(a)
    /\ Leaves(a)
    /\ UNCHANGED <<pc, kind, loopVars, checkVars, accepted>>

GaveUp(a) ==
    /\ Raises(a)
    /\ Leaves(a)
    /\ Delivered(a, FALSE)
    /\ spoilt' = [spoilt EXCEPT ![a] = TRUE]
    /\ UNCHANGED <<pc, kind, round, status, asked, verdict, repairs, accepted>>

Answered(a) ==
    /\ Retire(a)
    /\ Delivered(a, ok[a])
    /\ spoilt' = [spoilt EXCEPT ![a] = @ \/ ~zero[a] \/ cancelled[a] \/ timedOut[a]]
    /\ UNCHANGED <<pc, kind, round, status, asked, treeVars, verdict, repairs, accepted>>

(* Others cancel a command, a workspace's commands, or all.                *)
Cancel(k) ==
    /\ \/ CancelAll(k, Active)
       \/ \E w \in Workspace : CancelAll(k, {a \in Active : Root[a] = w})
       \/ \E a \in Active : CancelAll(k, {a})
       \/ Flag(k)
    /\ UNCHANGED agentVars

Signal(k) ==
    /\ Kill(k)
    /\ \E a \in victim[k] : Leaves(a)
    /\ UNCHANGED <<pc, kind, loopVars, checkVars, accepted>>

(* The kernel dies: the task of the run is recovered elsewhere.            *)
Crash ==
    /\ \E a \in Agent : pc[a] # "idle"
    /\ Die
    /\ pc' = [a \in Agent |-> "idle"]
    /\ kind' = [a \in Agent |-> "review"]
    /\ round' = Zero /\ calls' = Zero
    /\ status' = [a \in Agent |-> "ok"]
    /\ asked' = Never /\ stepped' = Never
    /\ tracked' = Never /\ touched' = Never
    /\ diff' = [a \in Agent |-> {}]
    /\ snapshot' = [a \in Agent |-> "taken"]
    /\ checks' = Zero /\ repairs' = Zero
    /\ failing' = Never /\ spoilt' = Never
    /\ verdict' = [a \in Agent |-> "none"]
    /\ accepted' = Never

----------------------------------------------------------------------------
Step(a) ==
    \/ Ask(a) \/ Call(a) \/ CallCommand(a) \/ EndRound(a) \/ Advanced(a)
    \/ Refused(a) \/ RunCheck(a) \/ Conclude(a) \/ End(a)
    \/ Running(a) \/ Expired(a) \/ GaveUp(a) \/ Answered(a)

Next ==
    \/ \E a \in Agent : Begin(a) \/ Step(a) \/ Exit(a)
    \/ \E k \in Canceller : Cancel(k) \/ Signal(k)
    \/ Crash

Spec == Init /\ [][Next]_vars

(* A thread goes on, a model answers or times out, and so does a command.  *)
(* No process need end by itself and nobody need cancel one.               *)
LiveSpec == Spec /\ \A a \in Agent : WF_vars(Step(a))

----------------------------------------------------------------------------
(* "The model cannot skip it and cannot fake it": a passing check was run  *)
(* to a plain 0, every command of it, after the last tool that changed     *)
(* files.                                                                  *)
PassIsEarned ==
    \A a \in Agent : pc[a] = "idle" /\ verdict[a] = "ok" => ~touched[a] /\ ~spoilt[a]

(* "The result carries the LAST check's outcome": when tools changed files *)
(* after the last check, whatever it came to, the run has stopped in its   *)
(* repair with a question or an error, and the verdict left is the bad one *)
(* the repair was for.                                                     *)
VerdictIsCurrent ==
    \A a \in Agent : pc[a] = "idle" /\ verdict[a] # "none" /\ touched[a]
                       => status[a] # "ok" /\ verdict[a] = "bad"

(* A command whose cancellation was answered True is not reported ok, at   *)
(* whatever moment it ended.                                               *)
CancelHonoured == \A a \in Agent : cancelled[a] /\ stage[a] = "retiring" => ~ok[a]

(* A run ends, whatever the model and its commands do.                     *)
RunEnds == \A a \in Agent : pc[a] # "idle" ~> pc[a] = "idle"

(* "Everything actually changed so far" is checked when files were added   *)
(* or modified, in a workspace of any size.                                *)
ChangesAreChecked ==
    \A a \in Agent : pc[a] = "idle" /\ status[a] = "ok" /\ "edited" \in diff[a]
                       => verdict[a] # "none"

(* "Everything actually changed so far" is checked, deletions included.    *)
DeletionsAreChecked ==
    \A a \in Agent : pc[a] = "idle" /\ status[a] = "ok" /\ diff[a] # {} => verdict[a] # "none"

(* A verdict is bad of a run that could run its checks, "through the same  *)
(* allowlisted/audited run_command path".                                  *)
FailureIsReal == \A a \in Agent : verdict[a] = "bad" => HasCommands(a)

(* A run begins in a workspace no earlier command is still at work in.     *)
NothingLingers == [][\A a \in Agent : Begin(a) => Root[a] \notin survivors]_vars
=============================================================================
