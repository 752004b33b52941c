------------------------- MODULE MCProjectAutonomy --------------------------
EXTENDS ProjectAutonomy

(* The criterion first in the plan needs the one after it.                 *)
Chain == [c \in Criterion |-> {d \in Criterion : d > c}]
OnePlan == {{1, 2}}
BothPlans == {{2}, {1, 2}}
=============================================================================
