--------------------------- MODULE MCBuildWorkers ---------------------------
EXTENDS BuildWorkers, TLC

CONSTANTS s1, s2

(* One session of everything the founder can ask, and one that is started *)
(* and asks for a thread beside it.                                        *)
MCWork == [s \in Session |-> 1]
MCOps == [s \in Session |->
            IF s = s1 THEN {"start", "resume", "run", "retry", "pause", "cancel", "quarantine"}
            ELSE {"start"}]
=============================================================================
