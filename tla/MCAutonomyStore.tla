-------------------------- MODULE MCAutonomyStore ---------------------------
(* A small instance of AutonomyStore: two workers, of two kernels that may *)
(* run side by side, in turn or not at all.                                *)
EXTENDS AutonomyStore, TLC

CONSTANTS c1, c2, p1, p2

MCHost == (c1 :> p1) @@ (c2 :> p2)
=============================================================================
