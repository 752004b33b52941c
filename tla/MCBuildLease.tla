---------------------------- MODULE MCBuildLease ----------------------------
(* Small instances of BuildLease: every request reserves two units.        *)
EXTENDS BuildLease, TLC

MCUpper == [r \in Request |-> 2]
Interchangeable == Permutations(Caller) \cup Permutations(Request)
=============================================================================
