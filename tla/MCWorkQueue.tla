---------------------------- MODULE MCWorkQueue -----------------------------
EXTENDS WorkQueue, TLC

(* What the authority says of what the item may propose.                   *)
Verdicts == [local |-> "allow", external |-> "approval_required", forbidden |-> "deny"]
LocalOrNot == [local |-> "allow", external |-> "approval_required"]
(* Runners are interchangeable.                                            *)
RunnerSymmetry == Permutations(Runner)
=============================================================================
