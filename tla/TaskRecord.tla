----------------------------- MODULE TaskRecord -----------------------------
(***************************************************************************)
(* What the build ledger promises whoever reads its tasks: a task is       *)
(* started when all it depends on succeeded and an attempt is left for it, *)
(* a started task ends once, a success is for ever, and work that was paid *)
(* for is not started again, whoever asks and whatever dies meanwhile.     *)
(***************************************************************************)
EXTENDS Naturals

CONSTANTS
    Task,
    Deps,        \* Deps[t]: the tasks t depends on
    InitLimit    \* InitLimit[t]: the attempts t is created with

VARIABLES
    stage,       \* how far each task is
    paid,        \* has it been started on paid work?
    tries,       \* how often it was started
    allowed      \* how often it may be

vars == <<stage, paid, tries, allowed>>

Init ==
    /\ stage = [t \in Task |-> "absent"]
    /\ paid = [t \in Task |-> FALSE]
    /\ tries = [t \in Task |-> 0]
    /\ allowed = InitLimit

(* A task is added behind what it depends on.                              *)
Add(t) ==
    /\ stage[t] = "absent"
    /\ \A d \in Deps[t] : stage[d] # "absent"
    /\ stage' = [stage EXCEPT ![t] = "queued"]
    /\ UNCHANGED <<paid, tries, allowed>>

Start(t, pays) ==
    /\ stage[t] = "queued"
    /\ \A d \in Deps[t] : stage[d] = "succeeded"
    /\ ~paid[t]
    /\ tries[t] < allowed[t]
    /\ stage' = [stage EXCEPT ![t] = "executing"]
    /\ tries' = [tries EXCEPT ![t] = @ + 1]
    /\ paid' = [paid EXCEPT ![t] = pays]
    /\ UNCHANGED allowed

(* What a started task may come to: the end, or, unless it was paid for,   *)
(* another attempt if one is left.                                         *)
Outcome(t) ==
    {"succeeded", "failed", "cancelled"} \cup
    (IF ~paid[t] /\ tries[t] < allowed[t] THEN {"queued"} ELSE {})

(* Started tasks end: one when its call is through, all when the process   *)
(* that worked on them is found dead.                                      *)
End ==
    /\ \A t \in Task : \/ stage'[t] = stage[t]
                       \/ stage[t] = "executing" /\ stage'[t] \in Outcome(t)
    /\ stage' = [t \in Task |-> stage'[t]]
    /\ UNCHANGED <<paid, tries, allowed>>

(* A cancellation takes every task that waits.                             *)
Withdraw ==
    /\ stage' = [t \in Task |-> IF stage[t] = "queued" THEN "cancelled" ELSE stage[t]]
    /\ UNCHANGED <<paid, tries, allowed>>

(* The operator gives a task that failed at no cost another attempt, one   *)
(* more than it had if it has used them up.                                *)
Grant(t) ==
    /\ stage[t] = "failed"
    /\ ~paid[t]
    /\ stage' = [stage EXCEPT ![t] = "queued"]
    /\ allowed' = [allowed EXCEPT ![t] = IF tries[t] < @ THEN @ ELSE tries[t] + 1]
    /\ UNCHANGED <<paid, tries>>

Next ==
    \/ \E t \in Task : Add(t) \/ Grant(t)
    \/ \E t \in Task : Start(t, TRUE) \/ Start(t, FALSE)
    \/ End
    \/ Withdraw

Spec == Init /\ [][Next]_vars
=============================================================================
