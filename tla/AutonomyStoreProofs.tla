------------------------ MODULE AutonomyStoreProofs -------------------------
(***************************************************************************)
(* Theorems about AutonomyStore for any number of clients, processes and   *)
(* notices, and that it implements AutonomyRecord.                         *)
(***************************************************************************)
EXTENDS AutonomyStore, SequenceTheorems, TLAPS

(* What a caller read is behind the row, or is the row. *)
ViewSound ==
    \A c \in Client :
        pc[c] \in {"deciding", "recording"} =>
            /\ seen[c].version <= version
            /\ seen[c].version = version => seen[c].state = state

(* A loop that is past the choice of a row has one in hand. *)
HasRow ==
    \A c \in Client :
        pc[c] \in {"queueing", "sending", "settling", "noting", "recording"} =>
            current[c] \in Row

(* A loop records a delivery only of a notice the channel took. *)
ResultSound ==
    \A c \in Client :
        pc[c] = "settling" /\ result[c] = "delivered" => current[c].notice \in sent

(* What an event owes has a row, and a row is delivered only if sent. *)
Promised ==
    \A i \in 1..Len(events) :
        events[i] # NoNotice => outbox[events[i]].status # "none"
DeliveredSent ==
    \A n \in Notice : outbox[n].status = "delivered" => n \in sent

Parts == ViewSound /\ HasRow /\ ResultSound /\ Promised /\ DeliveredSent
IInv == TypeOK /\ StateIsHistory /\ Parts

----------------------------------------------------------------------------
(* The empty view is a view. *)
LEMMA NoViewIsView == NoView \in View /\ << >> \in Seq(Change)
  BY EmptySeq DEF NoView, View

(* An attempt leaves a row of the outbox a row. *)
LEMMA AttemptedType ==
    ASSUME outbox \in [Notice -> Entry], NEW n \in Notice, NEW status \in Status
    PROVE  Attempted(n, status) \in [Notice -> Entry]
  BY DEF Attempted, Entry

(* Initially nothing is stored and nobody is at work. *)
LEMMA InitInvariant == Init => IInv
<1> SUFFICES ASSUME Init PROVE IInv
  OBVIOUS
<1> USE StoreAssumption
<1>1. TypeOK
  BY NoViewIsView DEF Init, TypeOK, Entry, Status, PC, Result
<1>2. StateIsHistory
  BY DEF Init, StateIsHistory
<1>3. Parts
  BY DEF Init, Parts, ViewSound, HasRow, ResultSound, Promised, DeliveredSent
<1>4. QED
  BY <1>1, <1>2, <1>3 DEF IInv

(* A write appends one change to the row and to the events alike, on a     *)
(* view that is the row.                                                   *)
LEMMA WriteAppends ==
    ASSUME IInv, NEW c \in Client, NEW n \in Change,
           pc[c] \in {"deciding", "recording"}, Fresh(c), Write(c, n)
    PROVE  /\ version' = version + 1
           /\ state' = Append(state, n)
           /\ events' = Append(events, n)
           /\ state' \in Seq(Change) /\ events' \in Seq(Change)
           /\ Len(events') = Len(events) + 1
           /\ version' \in Nat
<1>1. seen[c].version = version /\ seen[c].state = state
  BY DEF IInv, Parts, ViewSound, Fresh
<1>2. state \in Seq(Change) /\ events \in Seq(Change) /\ version \in Nat
  BY DEF IInv, TypeOK
<1>3. QED
  BY <1>1, <1>2 DEF Write

(* The outbox a write leaves: every row as it was, but for one that begins.*)
LEMMA WriteOutbox ==
    ASSUME IInv, NEW c \in Client, NEW n \in Change, Write(c, n)
    PROVE  /\ outbox' \in [Notice -> Entry]
           /\ \A m \in Notice : outbox[m].status # "none" => outbox'[m] = outbox[m]
           /\ \A m \in Notice : outbox'[m].status = "delivered"
                                    => outbox[m].status = "delivered"
           /\ n \in Notice => outbox'[n].status # "none"
           /\ \A m \in Notice : m # n => outbox'[m] = outbox[m]
<1>1. outbox \in [Notice -> Entry]
  BY DEF IInv, TypeOK
<1>2. QED
  BY <1>1 DEF Write, Begins, Entry, Status

(* A write keeps the events and the outbox in step. *)
LEMMA WriteKeeps ==
    ASSUME IInv, NEW c \in Client, NEW n \in Change,
           pc[c] \in {"deciding", "recording"}, Fresh(c), Write(c, n)
    PROVE  StateIsHistory' /\ Promised' /\ (sent' = sent => DeliveredSent')
<1> USE StoreAssumption
<1>1. /\ version' = version + 1
      /\ state' = Append(state, n)
      /\ events' = Append(events, n)
      /\ Len(events') = Len(events) + 1
  BY WriteAppends
<1>2. /\ \A m \in Notice : outbox[m].status # "none" => outbox'[m] = outbox[m]
      /\ \A m \in Notice : outbox'[m].status = "delivered"
                               => outbox[m].status = "delivered"
      /\ n \in Notice => outbox'[n].status # "none"
  BY WriteOutbox
<1>3. StateIsHistory'
  BY <1>1 DEF IInv, StateIsHistory
<1>4. Promised'
  <2> SUFFICES ASSUME NEW i \in 1..Len(events'), events'[i] # NoNotice
               PROVE  outbox'[events'[i]].status # "none"
    BY DEF Promised
  <2>1. events \in Seq(Change)
    BY DEF IInv, TypeOK
  <2>2. CASE i = Len(events) + 1
    <3>1. events'[i] = n
      BY <1>1, <2>1, <2>2
    <3>2. QED
      BY <1>2, <3>1 DEF Change
  <2>3. CASE i # Len(events) + 1
    <3>1. i \in 1..Len(events) /\ events'[i] = events[i]
      BY <1>1, <2>1, <2>3
    <3>2. events[i] \in Notice
      BY <2>1, <3>1 DEF Change
    <3>3. outbox[events[i]].status # "none"
      BY <3>1 DEF IInv, Parts, Promised
    <3>4. QED
      BY <1>2, <3>1, <3>2, <3>3
  <2>4. QED
    BY <2>2, <2>3
<1>5. sent' = sent => DeliveredSent'
  BY <1>2 DEF IInv, Parts, DeliveredSent
<1>6. QED
  BY <1>3, <1>4, <1>5

(* Types are kept by every step. *)
LEMMA StepTypes == IInv /\ [Next]_vars => TypeOK'
<1> SUFFICES ASSUME IInv, [Next]_vars PROVE TypeOK'
  OBVIOUS
<1> USE StoreAssumption
<1>t. TypeOK
  BY DEF IInv
<1>r. \A c \in Client : pc[c] = "queueing" => current[c] \in Row
  BY DEF IInv, Parts, HasRow
<1>s. \A c \in Client : pc[c] \in {"sending", "settling"} => current[c] \in Row
  BY DEF IInv, Parts, HasRow
<1>1. ASSUME NEW c \in Client, Read(c) PROVE TypeOK'
  BY <1>t, <1>1 DEF TypeOK, Read, Look, Goto, PC, View, rowVars, leaseVars
<1>2. ASSUME NEW c \in Client, NEW n \in Change, Transition(c, n) PROVE TypeOK'
  <2>1. state' \in Seq(Change) /\ events' \in Seq(Change) /\ version' \in Nat
    BY <1>2, WriteAppends DEF Transition, At
  <2>2. outbox' \in [Notice -> Entry]
    BY <1>2, WriteOutbox DEF Transition
  <2>3. QED
    BY <1>t, <1>2, <2>1, <2>2, NoViewIsView
    DEF TypeOK, Transition, Forget, Goto, PC, leaseVars
<1>3. ASSUME NEW c \in Client, GiveUp(c) PROVE TypeOK'
  BY <1>t, <1>3, NoViewIsView DEF TypeOK, GiveUp, Forget, Goto, PC, rowVars, leaseVars
<1>4. ASSUME NEW c \in Client, Claim(c) PROVE TypeOK'
  BY <1>t, <1>4, NoViewIsView DEF TypeOK, Claim, Forget, Goto, PC, rowVars
<1>5. ASSUME NEW c \in Client, Renew(c) PROVE TypeOK'
  BY <1>t, <1>5 DEF TypeOK, Renew, rowVars, clientVars
<1>6. ASSUME NEW c \in Client, Release(c) PROVE TypeOK'
  BY <1>t, <1>6 DEF TypeOK, Release, rowVars, clientVars
<1>7. ASSUME Expire \/ ClearExpired \/ ClearOrphaned PROVE TypeOK'
  BY <1>t, <1>7 DEF TypeOK, Expire, ClearExpired, ClearOrphaned, rowVars, clientVars
<1>8. ASSUME NEW c \in Client, FetchDue(c) PROVE TypeOK'
  <2>1. \A n \in Notice : [notice |-> n, attempts |-> outbox[n].attempts] \in Row
    BY <1>t DEF TypeOK, Entry, Row
  <2>2. batch' \in [Client -> SUBSET Row]
    BY <1>t, <1>8, <2>1 DEF TypeOK, FetchDue
  <2>3. QED
    BY <1>t, <1>8, <2>2 DEF TypeOK, FetchDue, Goto, PC, rowVars, leaseVars
<1>9. ASSUME NEW c \in Client, NEW row \in batch[c], LookForDuplicate(c, row)
      PROVE  TypeOK'
  <2>1. row \in Row
    BY <1>t, <1>9 DEF TypeOK
  <2>2. QED
    BY <1>t, <1>9, <2>1 DEF TypeOK, LookForDuplicate, OnDuplicate, Goto, PC, Result, rowVars, leaseVars
<1>10. ASSUME NEW c \in Client, Queue(c) PROVE TypeOK'
  <2>1. Key(current[c]) \in Notice \X Nat
    BY <1>r, <1>10 DEF Queue, At, Key, Row
  <2>2. QED
    BY <1>t, <1>10, <2>1 DEF TypeOK, Queue, Goto, PC, rowVars, leaseVars
<1>11. ASSUME NEW c \in Client, Send(c) PROVE TypeOK'
  <2>1. current[c].notice \in Notice
    BY <1>s, <1>11 DEF Send, At, Row
  <2>2. sent' \subseteq Notice /\ result' \in [Client -> Result]
        /\ queued' \subseteq Notice \X Nat
    BY <1>t, <1>11, <2>1 DEF TypeOK, Send, Result
  <2>3. QED
    BY <1>t, <1>11, <2>2 DEF TypeOK, Send, Goto, PC, rowVars, leaseVars
<1>12. ASSUME NEW c \in Client, Reschedule(c) PROVE TypeOK'
  <2>1. current[c].notice \in Notice
    BY <1>s, <1>12 DEF Reschedule, At, Row
  <2>2. outbox' \in [Notice -> Entry]
    BY <1>t, <1>12, <2>1, AttemptedType DEF TypeOK, Reschedule, Status
  <2>3. QED
    BY <1>t, <1>12, <2>2
    DEF TypeOK, Reschedule, NextRow, Goto, PC, Result, Row, NoRow, rowVars, leaseVars
<1>13. ASSUME NEW c \in Client, MarkDelivered(c) PROVE TypeOK'
  <2>1. current[c].notice \in Notice
    BY <1>s, <1>13 DEF MarkDelivered, At, Row
  <2>2. outbox' \in [Notice -> Entry]
    BY <1>t, <1>13, <2>1, AttemptedType DEF TypeOK, MarkDelivered, Status
  <2>3. pc' \in [Client -> PC] /\ current' \in [Client -> Row \cup {NoRow}]
        /\ result' \in [Client -> Result]
    BY <1>t, <1>13 DEF TypeOK, MarkDelivered, NextRow, Goto, PC, Result
  <2>4. QED
    BY <1>t, <1>13, <2>2, <2>3 DEF TypeOK, MarkDelivered, rowVars, leaseVars
<1>14. ASSUME NEW c \in Client, ReadForNote(c) PROVE TypeOK'
  BY <1>t, <1>14 DEF TypeOK, ReadForNote, Look, Goto, PC, View, rowVars, leaseVars
<1>15. ASSUME NEW c \in Client, RecordDelivery(c) PROVE TypeOK'
  <2>1. /\ state' \in Seq(Change) /\ events' \in Seq(Change) /\ version' \in Nat
        /\ outbox' \in [Notice -> Entry]
    <3>1. CASE Fresh(c) /\ version < MaxVersion
      BY <1>15, <3>1, WriteAppends, WriteOutbox DEF RecordDelivery, At, Change
    <3>2. CASE ~(Fresh(c) /\ version < MaxVersion)
      BY <1>t, <1>15, <3>2 DEF TypeOK, RecordDelivery, rowVars
    <3>3. QED
      BY <3>1, <3>2
  <2>2. QED
    BY <1>t, <1>15, <2>1, NoViewIsView
    DEF TypeOK, RecordDelivery, NextRow, Forget, Goto, PC, Result, leaseVars
<1>16. ASSUME NEW n \in Notice, ComeDue(n) PROVE TypeOK'
  <2>1. outbox' \in [Notice -> Entry]
    BY <1>t, <1>16 DEF TypeOK, ComeDue, Entry
  <2>2. QED
    BY <1>t, <1>16, <2>1 DEF TypeOK, ComeDue, rowVars, leaseVars, clientVars
<1>17. ASSUME NEW k \in queued, LeaveWindow(k) PROVE TypeOK'
  BY <1>t, <1>17 DEF TypeOK, LeaveWindow, rowVars, leaseVars, clientVars
<1>18. ASSUME NEW p \in Process, Start(p) \/ Stop(p) PROVE TypeOK'
  BY <1>t, <1>18 DEF TypeOK, Start, Stop, rowVars, leaseVars, clientVars
<1>19. CASE UNCHANGED vars
  BY <1>t, <1>19 DEF TypeOK, vars
<1>20. QED
  BY <1>1, <1>2, <1>3, <1>4, <1>5, <1>6, <1>7, <1>8, <1>9, <1>10, <1>11, <1>12, <1>13,
     <1>14, <1>15, <1>16, <1>17, <1>18, <1>19 DEF Next, Work, Deliver

(* What a step does to the parts of the invariant other than the types. *)
LEMMA StepParts == IInv /\ [Next]_vars => StateIsHistory' /\ Parts'
<1> SUFFICES ASSUME IInv, [Next]_vars PROVE StateIsHistory' /\ Parts'
  OBVIOUS
<1> USE StoreAssumption
<1>t. TypeOK
  BY DEF IInv
<1>h. StateIsHistory
  BY DEF IInv
<1>p. ViewSound /\ HasRow /\ ResultSound /\ Promised /\ DeliveredSent
  BY DEF IInv, Parts
<1>0. ASSUME UNCHANGED <<version, state, events>>,
             \A n \in Notice :
                /\ outbox[n].status # "none" => outbox'[n].status # "none"
                /\ outbox'[n].status = "delivered" => n \in sent',
             sent \subseteq sent'
      PROVE  StateIsHistory' /\ Promised' /\ DeliveredSent'
  <2>1. \A i \in 1..Len(events) : events[i] \in Change
    BY <1>t DEF TypeOK
  <2>2. Promised'
    BY <1>0, <1>p, <2>1 DEF Promised, Change
  <2>3. QED
    BY <1>0, <1>h, <2>2 DEF StateIsHistory, DeliveredSent
<1>1. ASSUME NEW c \in Client, Read(c) PROVE StateIsHistory' /\ Parts'
  <2>1. StateIsHistory' /\ Promised' /\ DeliveredSent'
    BY <1>1, <1>p, <1>0 DEF Read, rowVars, DeliveredSent
  <2>2. ViewSound'
    BY <1>1, <1>p, <1>t DEF Read, rowVars, ViewSound, Look, Goto, TypeOK
  <2>3. HasRow' /\ ResultSound'
    BY <1>1, <1>p, <1>t DEF Read, HasRow, ResultSound, Goto, TypeOK
  <2>4. QED
    BY <2>1, <2>2, <2>3 DEF Parts
<1>2. ASSUME NEW c \in Client, NEW n \in Change, Transition(c, n)
      PROVE  StateIsHistory' /\ Parts'
  <2>1. StateIsHistory' /\ Promised' /\ DeliveredSent'
    BY <1>2, WriteKeeps DEF Transition, At
  <2>2. ViewSound'
    <3>1. version' = version + 1
      BY <1>2, WriteAppends DEF Transition, At
    <3>2. \A d \in Client : pc'[d] \in {"deciding", "recording"} =>
              seen'[d].version <= version /\ seen'[d].version \in Nat
      BY <1>2, <1>p, <1>t DEF Transition, ViewSound, Goto, Forget, TypeOK, View
    <3>3. QED
      BY <3>1, <3>2, <1>t DEF ViewSound, TypeOK
  <2>3. HasRow' /\ ResultSound'
    BY <1>2, <1>p, <1>t DEF Transition, HasRow, ResultSound, Goto, TypeOK
  <2>4. QED
    BY <2>1, <2>2, <2>3 DEF Parts
<1>3. ASSUME NEW c \in Client, GiveUp(c) \/ Claim(c) PROVE StateIsHistory' /\ Parts'
  <2>1. StateIsHistory' /\ Promised' /\ DeliveredSent'
    BY <1>3, <1>p, <1>0 DEF GiveUp, Claim, rowVars, DeliveredSent
  <2>2. ViewSound'
    BY <1>3, <1>p, <1>t DEF GiveUp, Claim, rowVars, ViewSound, Forget, Goto, TypeOK
  <2>3. HasRow' /\ ResultSound'
    BY <1>3, <1>p, <1>t DEF GiveUp, Claim, HasRow, ResultSound, Goto, TypeOK
  <2>4. QED
    BY <2>1, <2>2, <2>3 DEF Parts
<1>4. ASSUME UNCHANGED <<version, state, events, outbox, pc, seen, current, result, sent>>
      PROVE  StateIsHistory' /\ Parts'
  BY <1>4, <1>h, <1>p
  DEF StateIsHistory, Parts, ViewSound, HasRow, ResultSound, Promised, DeliveredSent
<1>5. ASSUME NEW c \in Client, Renew(c) \/ Release(c) PROVE StateIsHistory' /\ Parts'
  BY <1>4, <1>5 DEF Renew, Release, rowVars, clientVars
<1>6. ASSUME NEW c \in Client, FetchDue(c) PROVE StateIsHistory' /\ Parts'
  <2>1. StateIsHistory' /\ Promised' /\ DeliveredSent'
    BY <1>6, <1>p, <1>0 DEF FetchDue, rowVars, DeliveredSent
  <2>2. ViewSound'
    BY <1>6, <1>p, <1>t DEF FetchDue, rowVars, ViewSound, Goto, TypeOK
  <2>3. HasRow' /\ ResultSound'
    BY <1>6, <1>p, <1>t DEF FetchDue, HasRow, ResultSound, Goto, TypeOK
  <2>4. QED
    BY <2>1, <2>2, <2>3 DEF Parts
<1>7. ASSUME NEW c \in Client, NEW row \in batch[c], LookForDuplicate(c, row)
      PROVE  StateIsHistory' /\ Parts'
  <2>1. StateIsHistory' /\ Promised' /\ DeliveredSent'
    BY <1>7, <1>p, <1>0 DEF LookForDuplicate, rowVars, DeliveredSent
  <2>2. ViewSound'
    BY <1>7, <1>p, <1>t DEF LookForDuplicate, rowVars, ViewSound, Goto, TypeOK
  <2>3. row \in Row
    BY <1>t, <1>7 DEF TypeOK
  <2>4. HasRow'
    BY <1>7, <1>p, <1>t, <2>3 DEF LookForDuplicate, HasRow, Goto, TypeOK
  <2>5. ResultSound'
    BY <1>7, <1>p, <1>t DEF LookForDuplicate, OnDuplicate, ResultSound, Goto, TypeOK
  <2>6. QED
    BY <2>1, <2>2, <2>4, <2>5 DEF Parts
<1>8. ASSUME NEW c \in Client, Queue(c) PROVE StateIsHistory' /\ Parts'
  <2>1. StateIsHistory' /\ Promised' /\ DeliveredSent'
    BY <1>8, <1>p, <1>0 DEF Queue, rowVars, DeliveredSent
  <2>2. ViewSound'
    BY <1>8, <1>p, <1>t DEF Queue, rowVars, ViewSound, Goto, TypeOK
  <2>3. HasRow' /\ ResultSound'
    BY <1>8, <1>p, <1>t DEF Queue, At, HasRow, ResultSound, Goto, TypeOK
  <2>4. QED
    BY <2>1, <2>2, <2>3 DEF Parts
<1>9. ASSUME NEW c \in Client, Send(c) PROVE StateIsHistory' /\ Parts'
  <2>0. sent \subseteq sent'
    BY <1>9 DEF Send
  <2>1. StateIsHistory' /\ Promised' /\ DeliveredSent'
    BY <1>9, <1>p, <1>0, <2>0 DEF Send, rowVars, DeliveredSent
  <2>2. ViewSound'
    BY <1>9, <1>p, <1>t DEF Send, rowVars, ViewSound, Goto, TypeOK
  <2>3. HasRow'
    BY <1>9, <1>p, <1>t DEF Send, At, HasRow, Goto, TypeOK
  <2>4. ResultSound'
    BY <1>9, <1>p, <1>t, <2>0 DEF Send, ResultSound, Goto, TypeOK
  <2>5. QED
    BY <2>1, <2>2, <2>3, <2>4 DEF Parts
<1>10. ASSUME NEW c \in Client, Reschedule(c) PROVE StateIsHistory' /\ Parts'
  <2>1. \A n \in Notice : outbox'[n] = outbox[n] \/ outbox'[n].status = "retry"
    BY <1>10, <1>t DEF Reschedule, Attempted, TypeOK
  <2>2. StateIsHistory' /\ Promised' /\ DeliveredSent'
    BY <1>10, <1>p, <1>0, <2>1 DEF Reschedule, rowVars, DeliveredSent
  <2>3. ViewSound'
    BY <1>10, <1>p, <1>t DEF Reschedule, NextRow, rowVars, ViewSound, Goto, TypeOK
  <2>4. HasRow' /\ ResultSound'
    BY <1>10, <1>p, <1>t DEF Reschedule, NextRow, HasRow, ResultSound, Goto, TypeOK
  <2>5. QED
    BY <2>2, <2>3, <2>4 DEF Parts
<1>11. ASSUME NEW c \in Client, MarkDelivered(c) PROVE StateIsHistory' /\ Parts'
  <2>1. current[c].notice \in sent
    BY <1>11, <1>p DEF MarkDelivered, At, ResultSound
  <2>2. \A n \in Notice :
           \/ outbox'[n] = outbox[n]
           \/ outbox'[n].status = "delivered" /\ n = current[c].notice
    <3>1. CASE Unsettled(c)
      BY <1>11, <1>t, <3>1 DEF MarkDelivered, Attempted, TypeOK
    <3>2. CASE ~Unsettled(c)
      BY <1>11, <3>2 DEF MarkDelivered
    <3>3. QED
      BY <3>1, <3>2
  <2>3. StateIsHistory' /\ Promised' /\ DeliveredSent'
    BY <1>11, <1>p, <1>0, <2>1, <2>2 DEF MarkDelivered, rowVars, DeliveredSent
  <2>4. ViewSound'
    BY <1>11, <1>p, <1>t DEF MarkDelivered, NextRow, rowVars, ViewSound, Goto, TypeOK
  <2>5. HasRow' /\ ResultSound'
    BY <1>11, <1>p, <1>t
    DEF MarkDelivered, NextRow, HasRow, ResultSound, At, Goto, TypeOK
  <2>6. QED
    BY <2>3, <2>4, <2>5 DEF Parts
<1>12. ASSUME NEW c \in Client, ReadForNote(c) PROVE StateIsHistory' /\ Parts'
  <2>1. StateIsHistory' /\ Promised' /\ DeliveredSent'
    BY <1>12, <1>p, <1>0 DEF ReadForNote, rowVars, DeliveredSent
  <2>2. ViewSound'
    BY <1>12, <1>p, <1>t DEF ReadForNote, rowVars, ViewSound, Look, Goto, TypeOK
  <2>3. HasRow' /\ ResultSound'
    BY <1>12, <1>p, <1>t DEF ReadForNote, At, HasRow, ResultSound, Goto, TypeOK
  <2>4. QED
    BY <2>1, <2>2, <2>3 DEF Parts
<1>13. ASSUME NEW c \in Client, RecordDelivery(c) PROVE StateIsHistory' /\ Parts'
  <2>1. StateIsHistory' /\ Promised' /\ DeliveredSent'
    <3>1. CASE Fresh(c) /\ version < MaxVersion
      BY <1>13, <3>1, WriteKeeps DEF RecordDelivery, At, Change
    <3>2. CASE ~(Fresh(c) /\ version < MaxVersion)
      BY <1>13, <3>2, <1>p, <1>0 DEF RecordDelivery, rowVars, DeliveredSent
    <3>3. QED
      BY <3>1, <3>2
  <2>2. ViewSound'
    <3>1. \A d \in Client : pc'[d] \in {"deciding", "recording"} =>
              /\ seen'[d] = seen[d]
              /\ seen[d].version <= version /\ seen[d].version \in Nat
              /\ seen[d].version = version => seen[d].state = state
      BY <1>13, <1>p, <1>t
      DEF RecordDelivery, NextRow, ViewSound, Goto, Forget, TypeOK, View
    <3>2. CASE Fresh(c) /\ version < MaxVersion
      <4>1. version' = version + 1
        BY <1>13, <3>2, WriteAppends DEF RecordDelivery, At, Change
      <4>2. QED
        BY <3>1, <4>1, <1>t DEF ViewSound, TypeOK
    <3>3. CASE ~(Fresh(c) /\ version < MaxVersion)
      BY <1>13, <3>1, <3>3 DEF RecordDelivery, rowVars, ViewSound
    <3>4. QED
      BY <3>2, <3>3
  <2>3. HasRow' /\ ResultSound'
    BY <1>13, <1>p, <1>t DEF RecordDelivery, NextRow, HasRow, ResultSound, Goto, TypeOK
  <2>4. QED
    BY <2>1, <2>2, <2>3 DEF Parts
<1>14. ASSUME NEW n \in Notice, ComeDue(n) PROVE StateIsHistory' /\ Parts'
  <2>1. \A m \in Notice : outbox'[m].status = outbox[m].status
    BY <1>14, <1>t DEF ComeDue, TypeOK, Entry
  <2>2. StateIsHistory' /\ Promised' /\ DeliveredSent'
    BY <1>14, <1>p, <1>0, <2>1 DEF ComeDue, rowVars, DeliveredSent
  <2>3. ViewSound' /\ HasRow' /\ ResultSound'
    BY <1>14, <1>p DEF ComeDue, rowVars, clientVars, ViewSound, HasRow, ResultSound
  <2>4. QED
    BY <2>2, <2>3 DEF Parts
<1>15. ASSUME \/ Expire \/ ClearExpired \/ ClearOrphaned
              \/ \E k \in queued : LeaveWindow(k)
              \/ \E p \in Process : Start(p) \/ Stop(p)
              \/ UNCHANGED vars
       PROVE  StateIsHistory' /\ Parts'
  BY <1>4, <1>15
  DEF Expire, ClearExpired, ClearOrphaned, LeaveWindow, Start, Stop, vars, rowVars,
      clientVars
<1>16. QED
  BY <1>1, <1>2, <1>3, <1>5, <1>6, <1>7, <1>8, <1>9, <1>10, <1>11, <1>12, <1>13, <1>14,
     <1>15 DEF Next, Work, Deliver

(* In every state the types and the invariant's parts hold. *)
THEOREM Invariant == Spec => []IInv
<1>1. Init => IInv
  BY InitInvariant
<1>2. IInv /\ [Next]_vars => IInv'
  BY StepTypes, StepParts DEF IInv
<1>3. QED
  BY <1>1, <1>2, PTL DEF Spec

(* Every variable keeps the type the store's tables and the callers give   *)
(* it, whatever the number of callers and notices.                         *)
THEOREM TypeCorrect == Spec => []TypeOK
<1>1. IInv => TypeOK
  BY DEF IInv
<1>2. QED
  BY Invariant, <1>1, PTL

(* transition writes the row and its event in one transaction, on a        *)
(* checked version: the row is what the events say, always.                *)
THEOREM HistoryIsState == Spec => []StateIsHistory
<1>1. IInv => StateIsHistory
  BY DEF IInv
<1>2. QED
  BY Invariant, <1>1, PTL

(* No notice a change owes is lost: neither the loops that deliver it nor  *)
(* a stopped kernel settle it unsent.                                      *)
THEOREM NoticesKept == Spec => []NoticeKept
<1>1. IInv => NoticeKept
  <2> SUFFICES ASSUME IInv, NEW i \in 1..Len(events), events[i] # NoNotice
               PROVE  \/ outbox[events[i]].status \in Open
                      \/ outbox[events[i]].status = "delivered" /\ events[i] \in sent
    BY DEF NoticeKept
  <2>1. events[i] \in Notice
    BY DEF IInv, TypeOK, Change
  <2>2. outbox[events[i]].status # "none"
    BY DEF IInv, Parts, Promised
  <2>3. outbox[events[i]].status \in Status
    BY <2>1 DEF IInv, TypeOK, Entry
  <2>4. QED
    BY <2>1, <2>2, <2>3 DEF IInv, Parts, DeliveredSent, Status, Open
<1>2. QED
  BY Invariant, <1>1, PTL

(* claim, renew, release and the two clean-ups leave the live lease of a   *)
(* running worker to that worker.                                          *)
THEOREM LeasesNotTaken == Spec => LeaseNotTaken
<1>1. ASSUME IInv, [Next]_vars
      PROVE  [\A c \in claimed :
                (holder = c /\ ~expired /\ holder' # c /\ Host[c] \in up')
                    => c \notin claimed']_vars
  <2> SUFFICES ASSUME NEW c \in claimed, holder = c, ~expired, holder' # c,
                      Host[c] \in up', Next
               PROVE  c \notin claimed'
    BY <1>1
  <2> USE StoreAssumption
  <2>0. c \in Client /\ c # Nobody
    BY <1>1 DEF IInv, TypeOK
  <2>1. ASSUME NEW d \in Client, Work(d) PROVE c \notin claimed'
    BY <2>0, <2>1
    DEF Work, Read, Transition, GiveUp, Claim, Claimable, Renew, Release, Matches, leaseVars
  <2>2. ASSUME NEW d \in Client, Deliver(d) PROVE c \notin claimed'
    BY <2>2
    DEF Deliver, FetchDue, LookForDuplicate, Queue, Send, Reschedule, MarkDelivered,
        ReadForNote, RecordDelivery, leaseVars
  <2>3. ASSUME Expire \/ ClearExpired PROVE c \notin claimed'
    BY <2>3 DEF Expire, ClearExpired
  <2>4. ASSUME ClearOrphaned PROVE c \notin claimed'
    BY <2>4 DEF ClearOrphaned, Orphaned
  <2>5. ASSUME \/ \E n \in Notice : ComeDue(n)
               \/ \E k \in queued : LeaveWindow(k)
               \/ \E p \in Process : Start(p) \/ Stop(p)
        PROVE  c \notin claimed'
    BY <2>5 DEF ComeDue, LeaveWindow, Start, Stop, leaseVars
  <2>6. QED
    BY <2>1, <2>2, <2>3, <2>4, <2>5 DEF Next
<1>2. QED
  BY Invariant, <1>1, PTL DEF Spec, LeaseNotTaken

----------------------------------------------------------------------------
(* The abstract record's variables, as this state determines them. *)
Owed == {n \in Notice : outbox[n].status # "none"}
Settled == {n \in Notice : outbox[n].status = "delivered"}
Held == IF expired THEN Nobody ELSE holder

(* A step that leaves the outbox and the lease alone, and the row too.     *)
LEMMA SameRecord ==
    ASSUME state' = state, outbox' = outbox, Held' = Held
    PROVE  UNCHANGED Record!vars
  BY DEF Record!vars, Held

(* A write is a change of the record. *)
LEMMA WriteChanges ==
    ASSUME IInv, NEW c \in Client, NEW n \in Change,
           pc[c] \in {"deciding", "recording"}, Fresh(c), Write(c, n),
           UNCHANGED <<holder, expired>>
    PROVE  Record!Next
<1> USE StoreAssumption
<1>1. state' = Append(state, n)
  BY WriteAppends
<1>2. /\ \A m \in Notice : outbox[m].status # "none" => outbox'[m] = outbox[m]
      /\ \A m \in Notice : outbox'[m].status = "delivered"
                               => outbox[m].status = "delivered"
      /\ n \in Notice => outbox'[n].status # "none"
      /\ \A m \in Notice : m # n => outbox'[m] = outbox[m]
  BY WriteOutbox
<1>3. Owed' = Owed \cup ({n} \ {NoNotice})
  BY <1>2 DEF Owed, Change
<1>4. Settled' = Settled
  BY <1>2 DEF Settled
<1>5. Record!Change(n)
  BY <1>1, <1>3, <1>4 DEF Record!Change, Owed, Settled
<1>6. QED
  BY <1>5 DEF Record!Next, Change

(* Every step of the store is a step of the record, or none of it. *)
LEMMA StepRefines == IInv /\ [Next]_vars => [Record!Next]_(Record!vars)
<1> SUFFICES ASSUME IInv, [Next]_vars PROVE Record!Next \/ UNCHANGED Record!vars
  OBVIOUS
<1> USE StoreAssumption
<1>t. TypeOK
  BY DEF IInv
<1>1. ASSUME NEW c \in Client,
             \/ Read(c) \/ GiveUp(c) \/ FetchDue(c) \/ Queue(c) \/ Send(c)
             \/ Renew(c) \/ ReadForNote(c)
             \/ \E row \in batch[c] : LookForDuplicate(c, row)
      PROVE  UNCHANGED Record!vars
  <2>1. state' = state /\ outbox' = outbox /\ expired' = expired /\ holder' = holder
    BY <1>1
    DEF Read, GiveUp, FetchDue, Queue, Send, Renew, ReadForNote, LookForDuplicate,
        rowVars, leaseVars
  <2>2. QED
    BY <2>1, SameRecord DEF Held
<1>2. ASSUME \/ \E k \in queued : LeaveWindow(k)
             \/ \E p \in Process : Start(p) \/ Stop(p)
             \/ UNCHANGED vars
      PROVE  UNCHANGED Record!vars
  <2>1. state' = state /\ outbox' = outbox /\ expired' = expired /\ holder' = holder
    BY <1>2 DEF LeaveWindow, Start, Stop, vars, rowVars, leaseVars
  <2>2. QED
    BY <2>1, SameRecord DEF Held
<1>3. ASSUME NEW c \in Client, NEW n \in Change, Transition(c, n) PROVE Record!Next
  BY <1>3, WriteChanges DEF Transition, At, leaseVars
<1>4. ASSUME NEW c \in Client, Claim(c) PROVE Record!Next
  <2>1. Held = Nobody /\ Held' = c
    BY <1>4 DEF Claim, Claimable, Held
  <2>2. state' = state /\ outbox' = outbox
    BY <1>4 DEF Claim, rowVars
  <2>3. Record!Take(c)
    BY <2>1, <2>2 DEF Record!Take, Held
  <2>4. QED
    BY <2>3 DEF Record!Next
<1>5. ASSUME \/ \E c \in Client : Release(c)
             \/ Expire \/ ClearExpired \/ ClearOrphaned
      PROVE  Record!Next \/ UNCHANGED Record!vars
  <2>1. state' = state /\ outbox' = outbox
    BY <1>5 DEF Release, Expire, ClearExpired, ClearOrphaned, rowVars
  <2>2. Held' = Nobody \/ Held' = Held
    <3>1. CASE \E c \in Client : Release(c)
      BY <3>1 DEF Release, Matches, Held
    <3>2. CASE Expire \/ ClearExpired \/ ClearOrphaned
      BY <3>2 DEF Expire, ClearExpired, ClearOrphaned, Held
    <3>3. QED
      BY <1>5, <3>1, <3>2
  <2>3. CASE Held' = Nobody
    <3>1. Record!LetGo
      BY <2>1, <2>3 DEF Record!LetGo, Held
    <3>2. QED
      BY <3>1 DEF Record!Next
  <2>4. CASE Held' = Held
    BY <2>1, <2>4, SameRecord
  <2>5. QED
    BY <2>2, <2>3, <2>4
<1>6. ASSUME NEW n \in Notice, ComeDue(n) PROVE UNCHANGED Record!vars
  <2>1. \A m \in Notice : outbox'[m].status = outbox[m].status
    BY <1>6, <1>t DEF ComeDue, TypeOK, Entry
  <2>2. Owed' = Owed /\ Settled' = Settled
    BY <2>1 DEF Owed, Settled
  <2>3. state' = state /\ Held' = Held
    BY <1>6 DEF ComeDue, Held, rowVars, leaseVars
  <2>4. QED
    BY <2>2, <2>3 DEF Record!vars, Owed, Settled, Held
<1>7. ASSUME NEW c \in Client, Reschedule(c) \/ MarkDelivered(c)
      PROVE  Record!Next \/ UNCHANGED Record!vars
  <2>1. state' = state /\ Held' = Held
    BY <1>7 DEF Reschedule, MarkDelivered, Held, rowVars, leaseVars
  <2>2. current[c] \in Row
    BY <1>7 DEF Reschedule, MarkDelivered, At, IInv, Parts, HasRow
  <2>3. PICK n \in Notice : n = current[c].notice
    BY <2>2 DEF Row
  <2>4. CASE ~Unsettled(c)
    <3>1. outbox' = outbox
      BY <1>7, <2>4 DEF Reschedule, MarkDelivered
    <3>2. QED
      BY <2>1, <3>1, SameRecord
  <2>5. CASE Reschedule(c) /\ Unsettled(c)
    <3>1. /\ outbox[n].status \in Open
          /\ outbox'[n].status = "retry"
          /\ \A m \in Notice \ {n} : outbox'[m] = outbox[m]
      BY <2>3, <2>5, <1>t DEF Reschedule, Unsettled, Attempted, TypeOK
    <3>2. Owed' = Owed /\ Settled' = Settled
      BY <3>1 DEF Owed, Settled, Open
    <3>3. QED
      BY <2>1, <3>2 DEF Record!vars, Owed, Settled, Held
  <2>6. CASE MarkDelivered(c) /\ Unsettled(c)
    <3>1. /\ outbox[n].status \in Open
          /\ outbox'[n].status = "delivered"
          /\ \A m \in Notice \ {n} : outbox'[m] = outbox[m]
      BY <2>3, <2>6, <1>t DEF MarkDelivered, Unsettled, Attempted, TypeOK
    <3>2. Owed' = Owed /\ Settled' = Settled \cup {n} /\ n \in Owed \ Settled
      BY <2>3, <3>1 DEF Owed, Settled, Open
    <3>3. Record!Settle(n)
      BY <2>1, <3>2 DEF Record!Settle, Owed, Settled, Held
    <3>4. QED
      BY <3>3 DEF Record!Next
  <2>7. QED
    BY <1>7, <2>4, <2>5, <2>6
<1>8. ASSUME NEW c \in Client, RecordDelivery(c)
      PROVE  Record!Next \/ UNCHANGED Record!vars
  <2>1. CASE Fresh(c) /\ version < MaxVersion
    BY <1>8, <2>1, WriteChanges DEF RecordDelivery, At, Change, leaseVars
  <2>2. CASE ~(Fresh(c) /\ version < MaxVersion)
    <3>1. state' = state /\ outbox' = outbox /\ Held' = Held
      BY <1>8, <2>2 DEF RecordDelivery, Held, rowVars, leaseVars
    <3>2. QED
      BY <3>1, SameRecord
  <2>3. QED
    BY <2>1, <2>2
<1>9. QED
  BY <1>1, <1>2, <1>3, <1>4, <1>5, <1>6, <1>7, <1>8 DEF Next, Work, Deliver

(* The store implements the record: its callers, who read and write in     *)
(* separate steps, lose no change of each other's, owe no notice twice and *)
(* pass the lease on only when it is free or expired.                      *)
THEOREM StoreRefinesRecord == Spec => RefinesRecord
<1>1. Init => Record!Init
  <2> SUFFICES ASSUME Init PROVE Record!Init
    OBVIOUS
  <2>1. Owed = {} /\ Settled = {} /\ Held = Nobody /\ state = << >>
    BY DEF Init, Owed, Settled, Held
  <2>2. QED
    BY <2>1 DEF Record!Init, Owed, Settled, Held
<1>2. IInv /\ [Next]_vars => [Record!Next]_(Record!vars)
  BY StepRefines
<1>3. QED
  BY Invariant, <1>1, <1>2, PTL DEF Spec, RefinesRecord, Record!Spec
=============================================================================
