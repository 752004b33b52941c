--------------------------- MODULE AutonomyRecord ---------------------------
(***************************************************************************)
(* What ProjectAutonomyStore promises the policy above it, for one         *)
(* project: a log of changes in which no change overwrites another it did  *)
(* not know of, the founder notices those changes owe, and a lease that    *)
(* passes from one worker to the next only after it was let go of.         *)
(***************************************************************************)
EXTENDS Sequences

CONSTANTS
    Client,     \* who changes the project and holds its lease
    Notice,     \* the founder notices a change may owe
    NoNotice,
    Nobody

VARIABLES
    log,        \* the changes, in order
    owed,       \* the notices the changes owe
    settled,    \* the notices of them the founder has
    holder      \* who holds the lease, or Nobody

vars == <<log, owed, settled, holder>>

Init ==
    /\ log = << >>
    /\ owed = {}
    /\ settled = {}
    /\ holder = Nobody

(* A change is made on top of every change before it, and with it the      *)
(* notice it owes is on record.                                            *)
Change(n) ==
    /\ log' = Append(log, n)
    /\ owed' = owed \cup ({n} \ {NoNotice})
    /\ UNCHANGED <<settled, holder>>

Settle(n) ==
    /\ n \in owed \ settled
    /\ settled' = settled \cup {n}
    /\ UNCHANGED <<log, owed, holder>>

Take(c) ==
    /\ holder = Nobody
    /\ holder' = c
    /\ UNCHANGED <<log, owed, settled>>

LetGo ==
    /\ holder' = Nobody
    /\ UNCHANGED <<log, owed, settled>>

Next ==
    \/ \E n \in Notice \cup {NoNotice} : Change(n)
    \/ \E n \in Notice : Settle(n)
    \/ \E c \in Client : Take(c)
    \/ LetGo

Spec == Init /\ [][Next]_vars
=============================================================================
