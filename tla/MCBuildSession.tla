--------------------------- MODULE MCBuildSession ---------------------------
(* Small instances of BuildSession for TLC: a task that may go to the cloud *)
(* and the checkpoint task that closes the session behind it; optionally a  *)
(* task the founder adds beside the plan.                                   *)
EXTENDS BuildSession, TLC

CONSTANTS work, close, extra   \* task rows

MCPlan == <<work, close>>
ShortPlan == <<work>>
MCDeps == (work :> {}) @@ (close :> {work}) @@ (extra :> {})
MCRank == (work :> 5) @@ (close :> 9) @@ (extra :> 5)
MCRoute == (work :> "adaptive") @@ (close :> "local") @@ (extra :> "local")
MCInitLimit == (work :> 2) @@ (close :> 1) @@ (extra :> 1)

TaskDeps == [t \in Task |-> MCDeps[t]]
TaskRank == [t \in Task |-> MCRank[t]]
TaskRoute == [t \in Task |-> MCRoute[t]]
TaskInitLimit == [t \in Task |-> MCInitLimit[t]]
WorkerSymmetry == Permutations(Worker)
=============================================================================
