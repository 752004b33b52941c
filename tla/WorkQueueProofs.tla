-------------------------- MODULE WorkQueueProofs ---------------------------
(***************************************************************************)
(* Theorems about WorkQueue for any number of creators, runners, desks,    *)
(* proposals, requests, crashes and failed writes.                         *)
(***************************************************************************)
EXTENDS WorkQueue, FiniteSetTheorems, SequenceTheorems, TLAPS

(* What a call has at hand where it is.                                    *)
SoundAt(c) ==
    /\ pc[c] \in {"classifying", "reusing"} => c \in Creator
    /\ pc[c] \in {"reading", "opening", "resolving", "syncing", "starting", "marking"}
          => c \in Desk
    /\ pc[c] \in {"opening", "resolving"} => req[c] \in 1..Len(requests)
    /\ c \in Desk /\ pc[c] \in {"reading", "looking", "filing", "opening", "resolving", "syncing"}
          => op[c] \in {"approve", "run", "deny", "defer", "edit"}
    /\ pc[c] = "claimed" => view[c].proposal \in Proposal
    /\ pc[c] = "resolving" => view[c].status \in {"pending", "deferred"}
    /\ pc[c] = "syncing" =>
          /\ view[c].status \in {"approved", "denied", "deferred", "approval_required"}
          /\ op[c] = "edit" => view[c].proposal \in Proposal
    /\ pc[c] \in {"finishing", "excepting"} => view[c].status \in Outcome
    /\ c \in Runner => pc[c] \in {"idle", "claimed", "calling", "finishing", "excepting"}
    /\ pc[c] # "idle" => item.status # "none"
Proposed ==
    /\ item.status # "none" => item.proposal \in Proposal
    /\ Len(requests) > 0 => item.status # "none"
Sound == Proposed /\ \A c \in Caller : SoundAt(c)

(* Where the founder's word is on its way to a run.                        *)
GrantAt(c) ==
    /\ pc[c] = "syncing" /\ view[c].status = "approved" => granted
    /\ pc[c] = "marking" => granted
    /\ c \in Creator /\ pc[c] \in {"reusing", "calling", "finishing"} => directed
    /\ pc[c] \in {"calling", "finishing", "excepting"} =>
          granted \/ Authority[view[c].proposal] = "allow"
GrantInv ==
    /\ directed => granted
    /\ item.status = "approved" => granted
    /\ \A c \in Caller : GrantAt(c)

(* Nobody runs what is still to be claimed or classified.                  *)
Waiting == item.status \in {"none", "pending"} \/ \E c \in Creator : pc[c] = "classifying"
Exclusive ==
    ~early => /\ Waiting => \A r \in Runner : pc[r] = "idle"
              /\ \A r, q \in Runner : pc[r] # "idle" /\ pc[q] # "idle" => r = q

TypeInv == TypeOK /\ Sound

----------------------------------------------------------------------------
(* A row written over another is a row.                                    *)
LEMMA WithRow ==
    ASSUME NEW row \in Row, NEW status \in ItemStatus, NEW decision \in Decision,
           NEW stored \in BOOLEAN
    PROVE  /\ With(row, status, decision, stored) \in Row
           /\ With(row, status, decision, stored).status = status
  BY DEF With, Row

LEMMA NoRowRow == NoRow \in Row /\ NoRow.status = "none" /\ <<>> \in Seq(RequestRow)
  BY DEF NoRow, Row, ItemStatus, Decision, Verdict

(* What the authority says is a verdict, and a status follows from it.     *)
LEMMA VerdictStatus ==
    ASSUME NEW v \in Verdict
    PROVE  /\ QueueStatus(v) \in {"pending", "denied", "approval_required"}
           /\ v # "allow" => QueueStatus(v) # "pending"
  BY DEF QueueStatus, Verdict

LEMMA AuthorityVerdict ==
    ASSUME NEW p \in Proposal
    PROVE  Authority[p] \in Verdict
  BY QueueAssumption

(* A call that returns is idle, and nothing else about the calls changes.  *)
LEMMA ReturnTypes ==
    ASSUME TypeOK, NEW c \in Caller, Return(c)
    PROVE  /\ pc' = [pc EXCEPT ![c] = "idle"] /\ pc' \in [Caller -> Where]
           /\ view' = [view EXCEPT ![c] = NoRow] /\ view' \in [Caller -> Row]
           /\ req' = [req EXCEPT ![c] = 0] /\ req' \in [Caller -> 0..MaxRequest]
           /\ op' \in [Desk -> Ops \cup {"none"}]
           /\ \A d \in Desk : d # c => op'[d] = op[d]
<1> USE QueueAssumption
<1>1. NoRow \in Row
  BY NoRowRow
<1>2. QED
  BY <1>1 DEF TypeOK, Return, Goto, See, Where, Caller

(* Initially nobody is at work.                                            *)
LEMMA InitTypeInv == Init => TypeInv
<1> SUFFICES ASSUME Init PROVE TypeInv
  OBVIOUS
<1> USE QueueAssumption
<1>1. NoRow \in Row /\ requests \in Seq(RequestRow) /\ Len(requests) = 0
  BY NoRowRow DEF Init
<1>2. pc \in [Caller -> Where] /\ op \in [Desk -> Ops \cup {"none"}]
  BY DEF Init, Where
<1>3. view \in [Caller -> Row] /\ req \in [Caller -> 0..MaxRequest]
  BY <1>1 DEF Init
<1>4. /\ directed \in BOOLEAN /\ up \in BOOLEAN /\ granted \in BOOLEAN
      /\ early \in BOOLEAN /\ cut \in BOOLEAN
  BY DEF Init
<1>5. item \in Row /\ asked \in Proposal /\ faults \in 0..MaxFault /\ Len(requests) <= MaxRequest
  BY <1>1 DEF Init
<1>6. TypeOK
  BY <1>1, <1>2, <1>3, <1>4, <1>5 DEF TypeOK
<1>7. Sound
  BY NoRowRow DEF Init, Sound, SoundAt, Proposed
<1>8. QED
  BY <1>6, <1>7 DEF TypeInv

(* A step of one call: the others stay where they are, no request is lost  *)
(* and the row stays there.                                                *)
Moves(c) ==
    /\ \A d \in Caller \ {c} :
          pc'[d] = pc[d] /\ view'[d] = view[d] /\ req'[d] = req[d]
    /\ \A d \in Desk \ {c} : op'[d] = op[d]
    /\ Len(requests') \in Nat /\ Len(requests) <= Len(requests')
    /\ item.status # "none" => item'.status # "none"

(* It leaves the others sound.                                             *)
LEMMA StepSound ==
    ASSUME TypeInv, NEW c \in Caller, Moves(c), TypeOK', SoundAt(c)', Proposed'
    PROVE  TypeInv'
<1>1. ASSUME NEW d \in Caller \ {c} PROVE SoundAt(d)'
  <2>1. SoundAt(d)
    BY DEF TypeInv, Sound
  <2>2. pc'[d] = pc[d] /\ view'[d] = view[d] /\ req'[d] = req[d]
    BY DEF Moves
  <2>3. d \in Desk => op'[d] = op[d]
    BY DEF Moves
  <2>4. Len(requests) \in Nat
    BY DEF TypeInv, TypeOK
  <2>5. QED
    BY <2>1, <2>2, <2>3, <2>4 DEF SoundAt, Moves
<1>2. QED
  BY <1>1 DEF TypeInv, Sound

(* A call that returns moves, and is sound.                                *)
LEMMA ReturnSound ==
    ASSUME TypeInv, NEW c \in Caller, Return(c),
           Len(requests') \in Nat, Len(requests) <= Len(requests'),
           item.status # "none" => item'.status # "none"
    PROVE  Moves(c) /\ SoundAt(c)'
<1>1. TypeOK
  BY DEF TypeInv
<1>2. Moves(c)
  BY <1>1, ReturnTypes DEF Moves, Caller
<1>3. pc'[c] = "idle"
  BY <1>1, ReturnTypes DEF TypeOK
<1>4. QED
  BY <1>2, <1>3 DEF SoundAt

(* A call that goes on with the row it sees.                               *)
LEMMA GoesOn ==
    ASSUME TypeInv, NEW c \in Caller, NEW where \in Where, NEW row \in Row,
           Goto(c, where), See(c, row), UNCHANGED <<op, req>>
    PROVE  /\ pc' \in [Caller -> Where] /\ pc'[c] = where
           /\ view' \in [Caller -> Row] /\ view'[c] = row
           /\ req' \in [Caller -> 0..MaxRequest] /\ op' \in [Desk -> Ops \cup {"none"}]
           /\ Len(requests') \in Nat /\ Len(requests) <= Len(requests')
                /\ (item.status # "none" => item'.status # "none") => Moves(c)
  BY DEF TypeInv, TypeOK, Goto, See, Moves

(* A call that goes on, and sees no other row.                             *)
LEMMA GoesOnBlind ==
    ASSUME TypeInv, NEW c \in Caller, NEW where \in Where,
           Goto(c, where), UNCHANGED <<op, view, req>>
    PROVE  /\ pc' \in [Caller -> Where] /\ pc'[c] = where
           /\ view' \in [Caller -> Row] /\ view'[c] = view[c]
           /\ req' \in [Caller -> 0..MaxRequest] /\ op' \in [Desk -> Ops \cup {"none"}]
           /\ Len(requests') \in Nat /\ Len(requests) <= Len(requests')
                /\ (item.status # "none" => item'.status # "none") => Moves(c)
  BY DEF TypeInv, TypeOK, Goto, Moves

(* A write over the row leaves a row, of the same proposal.                *)
LEMMA WriteRow ==
    ASSUME TypeInv, NEW status \in ItemStatus, NEW decision \in Decision,
           NEW stored \in BOOLEAN, WriteItem(status, decision, stored)
    PROVE  item' \in Row /\ item'.status = status /\ item'.proposal = item.proposal
  BY WithRow DEF TypeInv, TypeOK, WriteItem, With

(* enqueue and queue_delegation.                                           *)
LEMMA CreatingTypeInv ==
    ASSUME TypeInv, NEW c \in Creator, Creating(c)
    PROVE  TypeInv'
<1> USE QueueAssumption
<1>1. TypeOK /\ SoundAt(c) /\ Proposed /\ c \in Caller /\ Len(requests) \in Nat
  BY DEF TypeInv, TypeOK, Sound, Caller
<1>2. CASE Insert(c)
  <2>1. CASE item.status = "none"
    <3>1. Fresh("unknown") \in Row /\ Fresh(Authority[asked]) \in Row
      BY <1>1, AuthorityVerdict DEF TypeOK, Fresh, Row, ItemStatus, Decision
    <3>2. Fresh("unknown").status = "pending" /\ Fresh("unknown").proposal = asked
      BY DEF Fresh
    <3>3. /\ item' = Fresh("unknown") /\ See(c, Fresh(Authority[asked]))
          /\ Goto(c, "classifying") /\ UNCHANGED <<op, req, requests>>
      BY <1>2, <2>1 DEF Insert
    <3>4. /\ pc' \in [Caller -> Where] /\ pc'[c] = "classifying"
          /\ view' \in [Caller -> Row] /\ Moves(c)
          /\ req' \in [Caller -> 0..MaxRequest] /\ op' \in [Desk -> Ops \cup {"none"}]
      BY <1>1, <3>1, <3>2, <3>3, GoesOn DEF Where
    <3>5. TypeOK'
      BY <1>1, <1>2, <3>1, <3>3, <3>4 DEF TypeOK, Insert
    <3>6. SoundAt(c)' /\ Proposed'
      BY <1>1, <1>2, <3>2, <3>3, <3>4 DEF SoundAt, Proposed, TypeOK, Insert
    <3>7. QED
      BY <1>1, <3>4, <3>5, <3>6, StepSound
  <2>2. CASE item.status # "none"
    <3>1. Goto(c, "reusing") /\ UNCHANGED <<op, req, view, requests, item>>
      BY <1>2, <2>2 DEF Insert
    <3>2. /\ pc' \in [Caller -> Where] /\ pc'[c] = "reusing"
          /\ view' \in [Caller -> Row] /\ Moves(c)
          /\ req' \in [Caller -> 0..MaxRequest] /\ op' \in [Desk -> Ops \cup {"none"}]
      BY <1>1, <3>1, GoesOnBlind DEF Where
    <3>3. TypeOK'
      BY <1>1, <1>2, <3>1, <3>2 DEF TypeOK, Insert
    <3>4. SoundAt(c)' /\ Proposed'
      BY <1>1, <2>2, <3>1, <3>2 DEF SoundAt, Proposed
    <3>5. QED
      BY <1>1, <3>2, <3>3, <3>4, StepSound
  <2>3. QED
    BY <2>1, <2>2
<1>3. CASE Classify(c)
  <2>1. Authority[asked] \in Verdict
    BY <1>1, AuthorityVerdict DEF TypeOK
  <2>2. PICK status \in ItemStatus \ {"none"} : WriteItem(status, Authority[asked], FALSE)
    <3>1. (IF directed THEN "approved" ELSE QueueStatus(Authority[asked]))
             \in ItemStatus \ {"none"}
      BY <2>1, VerdictStatus DEF ItemStatus
    <3>2. QED
      BY <1>3, <3>1 DEF Classify
  <2>3. item' \in Row /\ item'.status # "none" /\ item'.proposal = item.proposal
    BY <2>1, <2>2, WriteRow DEF Decision
  <2>4. item.status # "none"
    BY <1>1, <1>3 DEF SoundAt, Classify, At
  <2>5. Proposed'
    BY <1>1, <2>3, <2>4 DEF Proposed
  <2>6. CASE \E where \in {"calling", "looking"} : Goto(c, where) /\ UNCHANGED <<op, view, req>>
    <3>1. PICK where \in {"calling", "looking"} : Goto(c, where) /\ UNCHANGED <<op, view, req>>
      BY <2>6
    <3>2. /\ pc' \in [Caller -> Where] /\ pc'[c] = where
          /\ view' \in [Caller -> Row] /\ Moves(c)
          /\ req' \in [Caller -> 0..MaxRequest] /\ op' \in [Desk -> Ops \cup {"none"}]
      BY <1>1, <1>3, <2>3, <3>1, GoesOnBlind DEF Where, Classify
    <3>3. TypeOK'
      BY <1>1, <1>3, <2>3, <3>2 DEF TypeOK, Classify
    <3>4. SoundAt(c)'
      BY <1>1, <2>3, <3>2 DEF SoundAt
    <3>5. QED
      BY <1>1, <2>5, <3>2, <3>3, <3>4, StepSound
  <2>7. CASE Return(c)
    <3>1. TypeOK'
      BY <1>1, <1>3, <2>3, <2>7, ReturnTypes DEF TypeOK, Classify
    <3>2. QED
      BY <1>1, <1>3, <2>3, <2>5, <2>7, <3>1, ReturnSound, StepSound DEF Classify
  <2>8. QED
    BY <1>3, <2>6, <2>7 DEF Classify
<1>4. CASE Reuse(c)
  <2>1. CASE AlreadyDispatched(item)
    <3>1. Return(c) /\ UNCHANGED <<rowVars, up, faults, granted, early, cut>>
      BY <1>4, <2>1 DEF Reuse
    <3>2. TypeOK' /\ Proposed'
      BY <1>1, <3>1, ReturnTypes DEF TypeOK, Proposed, rowVars
    <3>3. QED
      BY <1>1, <3>1, <3>2, ReturnSound, StepSound DEF rowVars
  <2>2. CASE ~AlreadyDispatched(item)
    <3>1. See(c, item) /\ Goto(c, "calling") /\ UNCHANGED <<op, req, rowVars, up, faults, granted, early, cut>>
      BY <1>4, <2>2 DEF Reuse
    <3>2. /\ pc' \in [Caller -> Where] /\ pc'[c] = "calling"
          /\ view' \in [Caller -> Row] /\ Moves(c)
          /\ req' \in [Caller -> 0..MaxRequest] /\ op' \in [Desk -> Ops \cup {"none"}]
      BY <1>1, <3>1, GoesOn DEF Where, rowVars, TypeOK
    <3>3. TypeOK' /\ Proposed'
      BY <1>1, <3>1, <3>2 DEF TypeOK, Proposed, rowVars
    <3>4. SoundAt(c)'
      BY <1>1, <1>4, <3>1, <3>2 DEF SoundAt, rowVars, Reuse, At
    <3>5. QED
      BY <1>1, <3>2, <3>3, <3>4, StepSound
  <2>3. QED
    BY <2>1, <2>2
<1>5. QED
  BY <1>2, <1>3, <1>4 DEF Creating

(* run_next up to the handler.                                             *)
LEMMA ClaimingTypeInv ==
    ASSUME TypeInv, NEW r \in Runner, Claim(r) \/ Evaluate(r)
    PROVE  TypeInv'
<1> USE QueueAssumption
<1>1. TypeOK /\ SoundAt(r) /\ Proposed /\ r \in Caller /\ Len(requests) \in Nat
  BY DEF TypeInv, TypeOK, Sound, Caller
<1>2. CASE Claim(r)
  <2>1. item \in Row /\ item.decision \in Decision /\ item.stored \in BOOLEAN
    BY <1>1 DEF TypeOK, Row
  <2>2. PICK row : row = With(item, "running", item.decision, item.stored)
    OBVIOUS
  <2>3. row \in Row /\ row.status = "running" /\ row.proposal = item.proposal
    BY <2>1, <2>2, WithRow DEF ItemStatus, With
  <2>4. item' = row /\ See(r, row) /\ Goto(r, "claimed") /\ UNCHANGED <<op, req, requests>>
    BY <1>2, <2>2 DEF Claim
  <2>5. /\ pc' \in [Caller -> Where] /\ pc'[r] = "claimed" /\ view'[r] = row
        /\ view' \in [Caller -> Row] /\ Moves(r)
        /\ req' \in [Caller -> 0..MaxRequest] /\ op' \in [Desk -> Ops \cup {"none"}]
    BY <1>1, <2>3, <2>4, GoesOn DEF Where
  <2>6. early' \in BOOLEAN
    BY <1>2 DEF Claim
  <2>7. TypeOK'
    BY <1>1, <1>2, <2>3, <2>4, <2>5, <2>6 DEF TypeOK, Claim
  <2>8. row.proposal \in Proposal
    BY <1>1, <1>2, <2>3 DEF Proposed, Claim, Claimable
  <2>9. SoundAt(r)' /\ Proposed'
    BY <1>1, <2>3, <2>4, <2>5, <2>8 DEF SoundAt, Proposed
  <2>10. QED
    BY <1>1, <2>5, <2>7, <2>9, StepSound
<1>3. CASE Evaluate(r)
  <2>1. PICK verdict : verdict = Authority[view[r].proposal]
    OBVIOUS
  <2>2. verdict \in Verdict
    BY <1>1, <1>3, <2>1, AuthorityVerdict DEF SoundAt, Evaluate, At
  <2>3. item.status # "none" /\ view[r] \in Row
    BY <1>1, <1>3 DEF SoundAt, Evaluate, At, TypeOK
  <2>4. CASE MayRun(verdict)
    <3>1. /\ WriteItem("running", verdict, FALSE)
          /\ See(r, With(view[r], "running", verdict, FALSE))
          /\ Goto(r, "calling") /\ UNCHANGED <<op, req, requests>>
      BY <1>3, <2>1, <2>4 DEF Evaluate
    <3>2. item' \in Row /\ item'.status = "running" /\ item'.proposal = item.proposal
      BY <2>2, <3>1, WriteRow DEF Decision, ItemStatus
    <3>3. PICK row \in Row : See(r, row)
      <4>1. With(view[r], "running", verdict, FALSE) \in Row
        BY <2>2, <2>3, WithRow DEF Decision, ItemStatus
      <4>2. QED
        BY <3>1, <4>1
    <3>4. /\ pc' \in [Caller -> Where] /\ pc'[r] = "calling"
          /\ view' \in [Caller -> Row] /\ Moves(r)
          /\ req' \in [Caller -> 0..MaxRequest] /\ op' \in [Desk -> Ops \cup {"none"}]
      BY <1>1, <3>1, <3>2, <3>3, GoesOn DEF Where
    <3>5. TypeOK'
      BY <1>1, <1>3, <3>2, <3>4 DEF TypeOK, Evaluate
    <3>6. SoundAt(r)' /\ Proposed'
      BY <1>1, <2>3, <3>2, <3>4 DEF SoundAt, Proposed
    <3>7. QED
      BY <1>1, <3>4, <3>5, <3>6, StepSound
  <2>5. CASE ~MayRun(verdict)
    <3>1. WriteItem(QueueStatus(verdict), verdict, FALSE) /\ Return(r) /\ UNCHANGED requests
      BY <1>3, <2>1, <2>5 DEF Evaluate
    <3>2. QueueStatus(verdict) \in ItemStatus \ {"none"}
      BY <2>2, VerdictStatus DEF ItemStatus
    <3>3. item' \in Row /\ item'.status # "none" /\ item'.proposal = item.proposal
      BY <2>2, <3>1, <3>2, WriteRow DEF Decision
    <3>4. UNCHANGED <<requests, asked, directed, up, faults, granted, early, cut>>
      BY <1>3 DEF Evaluate
    <3>5. Proposed'
      BY <1>1, <2>3, <3>3 DEF Proposed
    <3>6. TypeOK'
      BY <1>1, <3>1, <3>3, <3>4, ReturnTypes DEF TypeOK
    <3>7. QED
      BY <1>1, <3>1, <3>3, <3>5, <3>6, ReturnSound, StepSound
  <2>6. QED
    BY <2>4, <2>5
<1>4. QED
  BY <1>2, <1>3

(* A call that goes to its except.                                         *)
LEMMA ExceptSound ==
    ASSUME TypeInv, NEW c \in Caller, Except(c), UNCHANGED <<op, req, requests>>,
           pc[c] # "idle", c \in Runner \/ c \notin Creator,
           item.status # "none" => item'.status # "none"
    PROVE  /\ pc' \in [Caller -> Where] /\ view' \in [Caller -> Row] /\ Moves(c)
           /\ req' \in [Caller -> 0..MaxRequest] /\ op' \in [Desk -> Ops \cup {"none"}]
           /\ pc'[c] = "excepting" /\ SoundAt(c)'
<1> USE QueueAssumption
<1>1. TypeOK /\ SoundAt(c) /\ Len(requests) \in Nat
  BY DEF TypeInv, TypeOK, Sound
<1>2. view[c] \in Row /\ view[c].decision \in Decision
  <2>1. view[c] \in Row
    BY <1>1 DEF TypeOK
  <2>2. QED
    BY <2>1 DEF Row
<1>3. PICK row : row = With(view[c], "error", view[c].decision, FALSE)
  OBVIOUS
<1>4. row \in Row /\ row.status = "error"
  BY <1>2, <1>3, WithRow DEF ItemStatus
<1>5. See(c, row) /\ Goto(c, "excepting")
  BY <1>3 DEF Except
<1>6. /\ pc' \in [Caller -> Where] /\ pc'[c] = "excepting" /\ view'[c] = row
      /\ view' \in [Caller -> Row] /\ Moves(c)
      /\ req' \in [Caller -> 0..MaxRequest] /\ op' \in [Desk -> Ops \cup {"none"}]
  BY <1>1, <1>4, <1>5, GoesOn DEF Where
<1>7. SoundAt(c)'
  BY <1>1, <1>4, <1>6 DEF SoundAt, Outcome
<1>8. QED
  BY <1>6, <1>7

(* The outcome a call has in hand is written over the row.                 *)
LEMMA OutcomeRow ==
    ASSUME TypeInv, NEW c \in Caller, pc[c] \in {"finishing", "excepting"}, WriteOutcome(c)
    PROVE  /\ item' \in Row /\ item'.status \in Outcome /\ item'.status = view[c].status
           /\ item'.proposal = item.proposal /\ item.status # "none"
<1>1. TypeOK /\ SoundAt(c)
  BY DEF TypeInv, TypeOK, Sound
<1>2. view[c].status \in Outcome /\ item.status # "none"
  BY <1>1 DEF SoundAt
<1>3. view[c] \in Row /\ item \in Row
  BY <1>1 DEF TypeOK
<1>4. /\ (IF c \in Creator THEN item.decision ELSE view[c].decision) \in Decision
      /\ view[c].stored \in BOOLEAN
  BY <1>3 DEF Row
<1>5. view[c].status \in ItemStatus
  BY <1>2 DEF Outcome, ItemStatus
<1>6. QED
  BY <1>2, <1>4, <1>5, WriteRow DEF WriteOutcome

(* The handler and what is written of it.                                  *)
LEMMA RunningTypeInv ==
    ASSUME TypeInv, NEW c \in Caller, Running(c)
    PROVE  TypeInv'
<1> USE QueueAssumption
<1>1. TypeOK /\ SoundAt(c) /\ Proposed /\ Len(requests) \in Nat
  BY DEF TypeInv, TypeOK, Sound
<1>2. CASE Unrun(c)
  <2>1. TypeOK' /\ Proposed'
    BY <1>1, <1>2, ReturnTypes DEF TypeOK, Unrun, Proposed, rowVars
  <2>2. QED
    BY <1>1, <1>2, <2>1, ReturnSound, StepSound DEF Unrun, rowVars
<1>3. ASSUME NEW outcome \in Outcome, Call(c, outcome) PROVE TypeInv'
  <2>1. view[c] \in Row /\ view[c].decision \in Decision
    <3>1. view[c] \in Row
      BY <1>1 DEF TypeOK
    <3>2. QED
      BY <3>1 DEF Row
  <2>2. PICK row : row = With(view[c], outcome, view[c].decision, TRUE)
    OBVIOUS
  <2>3. row \in Row /\ row.status = outcome
    <3>1. outcome \in ItemStatus /\ TRUE \in BOOLEAN
      BY DEF Outcome, ItemStatus
    <3>2. QED
      BY <2>1, <2>2, <3>1, WithRow
  <2>4. See(c, row) /\ Goto(c, "finishing")
        /\ UNCHANGED <<rowVars, up, faults, op, req, granted, early, cut>>
    BY <1>3, <2>2 DEF Call
  <2>5. /\ pc' \in [Caller -> Where] /\ pc'[c] = "finishing" /\ view'[c] = row
        /\ view' \in [Caller -> Row] /\ Moves(c)
        /\ req' \in [Caller -> 0..MaxRequest] /\ op' \in [Desk -> Ops \cup {"none"}]
    BY <1>1, <2>3, <2>4, GoesOn DEF Where, rowVars
  <2>6. TypeOK' /\ Proposed'
    BY <1>1, <2>4, <2>5 DEF TypeOK, Proposed, rowVars
  <2>7. SoundAt(c)'
    BY <1>1, <1>3, <2>3, <2>4, <2>5 DEF SoundAt, Call, At, rowVars
  <2>8. QED
    BY <2>5, <2>6, <2>7, StepSound
<1>4. CASE Finish(c)
  <2>1. Return(c) /\ UNCHANGED <<requests, asked, directed, up, faults, granted, early, cut>>
    BY <1>4 DEF Finish
  <2>2. WriteOutcome(c) /\ pc[c] \in {"finishing", "excepting"}
    BY <1>4 DEF Finish, Recorded, At
  <2>3. /\ item' \in Row /\ item'.status \in Outcome
        /\ item'.proposal = item.proposal /\ item.status # "none"
    BY <1>1, <2>2, OutcomeRow
  <2>4. item'.status # "none"
    BY <2>3 DEF Outcome
  <2>5. TypeOK' /\ Proposed'
    BY <1>1, <2>1, <2>3, <2>4, ReturnTypes DEF TypeOK, Proposed
  <2>6. QED
    BY <1>1, <2>1, <2>4, <2>5, ReturnSound, StepSound
<1>5. CASE Raise(c)
  <2>1. /\ Except(c) /\ c \notin Creator /\ pc[c] = "calling"
        /\ UNCHANGED <<rowVars, up, faults, op, req, granted, early, cut>>
    BY <1>5 DEF Raise, At
  <2>2. /\ pc' \in [Caller -> Where] /\ view' \in [Caller -> Row] /\ Moves(c)
        /\ req' \in [Caller -> 0..MaxRequest] /\ op' \in [Desk -> Ops \cup {"none"}]
        /\ SoundAt(c)'
    BY <2>1, ExceptSound DEF rowVars
  <2>3. TypeOK' /\ Proposed'
    BY <1>1, <2>1, <2>2 DEF TypeOK, Proposed, rowVars
  <2>4. QED
    BY <2>2, <2>3, StepSound
<1>6. QED
  BY <1>2, <1>3, <1>4, <1>5 DEF Running

(* A write that fails: the call is over, or in its except.                 *)
LEMMA TimeoutTypeInv ==
    ASSUME TypeInv, NEW c \in Caller, LockTimeout(c)
    PROVE  TypeInv'
<1> USE QueueAssumption
<1>1. TypeOK /\ SoundAt(c) /\ Proposed /\ Len(requests) \in Nat
  BY DEF TypeInv, TypeOK, Sound
<1>2. /\ faults' \in 0..MaxFault
      /\ UNCHANGED <<requests, asked, directed, up, granted, early>>
  <2>1. faults \in 0..MaxFault /\ MaxFault \in Nat /\ faults < MaxFault /\ faults' = faults + 1
    BY <1>1 DEF TypeOK, LockTimeout
  <2>2. faults' \in 0..MaxFault
    BY <2>1
  <2>3. QED
    BY <2>2 DEF LockTimeout
<1>3. CASE Return(c) /\ cut' = (cut \/ Holds(c)) /\ UNCHANGED item
  <2>1. cut' \in BOOLEAN
    BY <1>3
  <2>2. TypeOK' /\ Proposed'
    BY <1>1, <1>2, <1>3, <2>1, ReturnTypes DEF TypeOK, Proposed
  <2>3. QED
    BY <1>1, <1>2, <1>3, <2>2, ReturnSound, StepSound
<1>4. CASE InTry(c) /\ Except(c) /\ (UNCHANGED item \/ WriteOutcome(c)) /\ UNCHANGED <<op, req, cut>>
  <2>1. c \in Runner /\ pc[c] = "finishing"
    BY <1>4 DEF InTry
  <2>2. /\ item' \in Row /\ item'.proposal = item.proposal
        /\ item.status # "none" /\ item'.status # "none"
    <3>1. CASE UNCHANGED item
      BY <1>1, <2>1, <3>1 DEF TypeOK, SoundAt
    <3>2. CASE WriteOutcome(c)
      BY <2>1, <3>2, OutcomeRow DEF Outcome
    <3>3. QED
      BY <1>4, <3>1, <3>2
  <2>3. /\ pc' \in [Caller -> Where] /\ view' \in [Caller -> Row] /\ Moves(c)
        /\ req' \in [Caller -> 0..MaxRequest] /\ op' \in [Desk -> Ops \cup {"none"}]
        /\ SoundAt(c)'
    BY <1>2, <1>4, <2>1, <2>2, ExceptSound
  <2>4. TypeOK' /\ Proposed'
    BY <1>1, <1>2, <1>4, <2>2, <2>3 DEF TypeOK, Proposed
  <2>5. QED
    BY <2>3, <2>4, StepSound
<1>5. QED
  BY <1>3, <1>4 DEF LockTimeout

(* A request is in the range of what a call may be about.                  *)
LEMMA OpenRequest ==
    ASSUME TypeInv, NEW n \in 1..Len(requests)
    PROVE  /\ n \in 0..MaxRequest
           /\ requests[n] \in RequestRow
  BY QueueAssumption DEF TypeInv, TypeOK

(* ensure_approval_request.                                                *)
LEMMA EnsuringTypeInv ==
    ASSUME TypeInv, NEW c \in Caller, Look(c) \/ File(c)
    PROVE  TypeInv'
<1> USE QueueAssumption
<1>1. TypeOK /\ SoundAt(c) /\ Proposed /\ Len(requests) \in Nat
  BY DEF TypeInv, TypeOK, Sound
<1>2. CASE Look(c)
  <2>1. UNCHANGED <<item, requests, asked, directed, up, faults, granted, early, cut>>
    BY <1>2 DEF Look, rowVars
  <2>2. c \notin Runner /\ item.status # "none"
    BY <1>1, <1>2 DEF SoundAt, Look, At
  <2>3. CASE Goto(c, "filing") /\ UNCHANGED <<op, view, req>>
    <3>1. /\ pc' \in [Caller -> Where] /\ pc'[c] = "filing" /\ Moves(c)
      BY <1>1, <2>1, <2>3, GoesOnBlind DEF Where
    <3>2. TypeOK' /\ Proposed'
      BY <1>1, <2>1, <2>3, <3>1 DEF TypeOK, Proposed
    <3>3. SoundAt(c)'
      BY <1>1, <1>2, <2>1, <2>2, <2>3, <3>1 DEF SoundAt, Look, At
    <3>4. QED
      BY <3>1, <3>2, <3>3, StepSound
  <2>4. CASE /\ c \in Desk
             /\ \E n \in Latest : req' = [req EXCEPT ![c] = n]
             /\ Goto(c, "opening") /\ UNCHANGED <<op, view>>
    <3>1. PICK n \in 1..Len(requests) : req' = [req EXCEPT ![c] = n]
      BY <2>4 DEF Latest, Open
    <3>2. n \in 0..MaxRequest
      BY OpenRequest
    <3>3. /\ pc' \in [Caller -> Where] /\ pc'[c] = "opening" /\ Moves(c)
          /\ req' \in [Caller -> 0..MaxRequest] /\ req'[c] = n
      BY <1>1, <2>1, <2>4, <3>1, <3>2 DEF TypeOK, Goto, Moves, Where
    <3>4. TypeOK' /\ Proposed'
      BY <1>1, <2>1, <2>4, <3>3 DEF TypeOK, Proposed
    <3>5. SoundAt(c)'
      BY <1>1, <1>2, <2>1, <2>2, <2>4, <3>3 DEF SoundAt, Look, At
    <3>6. QED
      BY <3>3, <3>4, <3>5, StepSound
  <2>5. CASE Return(c)
    <3>1. TypeOK' /\ Proposed'
      BY <1>1, <2>1, <2>5, ReturnTypes DEF TypeOK, Proposed
    <3>2. QED
      BY <1>1, <2>1, <2>5, <3>1, ReturnSound, StepSound
  <2>6. QED
    BY <1>2, <2>3, <2>4, <2>5 DEF Look
<1>3. CASE File(c)
  <2>1. PICK row : requests' = Append(requests, row) /\ row \in RequestRow
    <3>1. view[c] \in Row
      BY <1>1 DEF TypeOK
    <3>2. [status |-> "pending", decision |-> view[c].decision] \in RequestRow
      BY <3>1 DEF Row, RequestRow, RequestStatus
    <3>3. QED
      BY <1>3, <3>2 DEF File
  <2>2. /\ requests' \in Seq(RequestRow) /\ Len(requests') = Len(requests) + 1
        /\ Len(requests') <= MaxRequest
    BY <1>1, <1>3, <2>1 DEF TypeOK, File
  <2>3. UNCHANGED <<item, asked, directed, up, faults, granted, early, cut>>
    BY <1>3 DEF File
  <2>4. c \notin Runner /\ item.status # "none"
    BY <1>1, <1>3 DEF SoundAt, File, At
  <2>5. CASE c \in Desk
    <3>1. req' = [req EXCEPT ![c] = Len(requests) + 1] /\ Goto(c, "opening") /\ UNCHANGED <<op, view>>
      BY <1>3, <2>5 DEF File
    <3>2. Len(requests) + 1 \in 0..MaxRequest
      BY <1>1, <2>2
    <3>3. /\ pc' \in [Caller -> Where] /\ pc'[c] = "opening" /\ Moves(c)
          /\ req' \in [Caller -> 0..MaxRequest] /\ req'[c] = Len(requests) + 1
      BY <1>1, <2>2, <2>3, <3>1, <3>2 DEF TypeOK, Goto, Moves, Where
    <3>4. TypeOK' /\ Proposed'
      BY <1>1, <2>2, <2>3, <2>4, <3>1, <3>3 DEF TypeOK, Proposed
    <3>5. SoundAt(c)'
      BY <1>1, <1>3, <2>2, <2>3, <2>4, <2>5, <3>1, <3>3 DEF SoundAt, File, At
    <3>6. QED
      BY <3>3, <3>4, <3>5, StepSound
  <2>6. CASE c \notin Desk
    <3>1. Return(c)
      BY <1>3, <2>6 DEF File
    <3>2. TypeOK' /\ Proposed'
      BY <1>1, <2>2, <2>3, <2>4, <3>1, ReturnTypes DEF TypeOK, Proposed
    <3>3. QED
      BY <1>1, <2>2, <2>3, <3>1, <3>2, ReturnSound, StepSound
  <2>7. QED
    BY <2>5, <2>6
<1>4. QED
  BY <1>2, <1>3

(* What the founder begins: an operation on a request, on the item, or a   *)
(* dispatch.                                                               *)
LEMMA BeginningTypeInv ==
    ASSUME TypeInv, NEW d \in Desk, Beginning(d)
    PROVE  TypeInv'
<1> USE QueueAssumption
<1>1. TypeOK /\ SoundAt(d) /\ Proposed /\ d \in Caller /\ Len(requests) \in Nat
  BY DEF TypeInv, TypeOK, Sound, Caller
<1>2. d \notin Runner /\ d \notin Creator
  OBVIOUS
<1>3. ASSUME NEW o \in Ops, NEW n \in 0..MaxRequest, NEW where \in Where,
             op' = [op EXCEPT ![d] = o], req' = [req EXCEPT ![d] = n], Goto(d, where),
             UNCHANGED <<rowVars, up, faults, view, granted, early, cut>>,
             item.status # "none",
             where \in {"opening", "reading", "starting"},
             where # "starting" => o # "dispatch",
             where = "opening" => n \in 1..Len(requests)
      PROVE  TypeInv'
  <2>1. /\ pc' \in [Caller -> Where] /\ pc'[d] = where
        /\ op' \in [Desk -> Ops \cup {"none"}] /\ op'[d] = o
        /\ req' \in [Caller -> 0..MaxRequest] /\ req'[d] = n
        /\ Moves(d)
    BY <1>1, <1>3 DEF TypeOK, Goto, Moves, rowVars
  <2>2. TypeOK' /\ Proposed'
    BY <1>1, <1>3, <2>1 DEF TypeOK, Proposed, rowVars
  <2>3. SoundAt(d)'
    BY <1>1, <1>2, <1>3, <2>1 DEF SoundAt, rowVars
  <2>4. QED
    BY <1>1, <2>1, <2>2, <2>3, StepSound
<1>4. req = [req EXCEPT ![d] = req[d]] /\ req[d] \in 0..MaxRequest
  BY <1>1 DEF TypeOK
<1>5. ASSUME NEW o \in Ops, NEW n \in 1..MaxRequest, Begin(d, o, n) PROVE TypeInv'
  <2>1. item.status # "none" /\ n \in 1..Len(requests)
    BY <1>1, <1>5 DEF Begin, Proposed
  <2>2. /\ op' = [op EXCEPT ![d] = o] /\ req' = [req EXCEPT ![d] = n]
        /\ Goto(d, "opening") /\ o # "dispatch"
        /\ UNCHANGED <<rowVars, up, faults, view, granted, early, cut>>
    BY <1>5 DEF Begin
  <2>3. n \in 0..MaxRequest /\ "opening" \in Where
    BY DEF Where
  <2>4. QED
    BY <1>3, <2>1, <2>2, <2>3
<1>6. ASSUME NEW o \in Ops, Find(d, o) PROVE TypeInv'
  <2>1. CASE \E n \in Latest : req' = [req EXCEPT ![d] = n] /\ Goto(d, "opening")
    <3>1. PICK n \in 1..Len(requests) : req' = [req EXCEPT ![d] = n] /\ Goto(d, "opening")
      BY <2>1 DEF Latest, Open
    <3>2. n \in 0..MaxRequest
      BY <3>1, OpenRequest
    <3>3. QED
      BY <1>3, <1>6, <3>1, <3>2 DEF Find, Where
  <2>2. CASE Goto(d, "reading") /\ UNCHANGED req
    BY <1>3, <1>4, <1>6, <2>2 DEF Find, Where
  <2>3. QED
    BY <1>6, <2>1, <2>2 DEF Find
<1>7. CASE BeginDispatch(d)
  BY <1>3, <1>4, <1>7 DEF BeginDispatch, Where
<1>8. QED
  BY <1>5, <1>6, <1>7 DEF Beginning

(* What the founder's calls do: up to the resolution of the request.       *)
LEMMA OpeningTypeInv ==
    ASSUME TypeInv, NEW d \in Desk, Read(d) \/ Load(d) \/ Start(d)
    PROVE  TypeInv'
<1> USE QueueAssumption
<1>1. TypeOK /\ SoundAt(d) /\ Proposed /\ d \in Caller /\ Len(requests) \in Nat
  BY DEF TypeInv, TypeOK, Sound, Caller
<1>2. UNCHANGED <<rowVars, up, faults, granted, early, cut>>
  BY DEF Read, Load, Start
<1>3. CASE Return(d)
  <2>1. TypeOK' /\ Proposed'
    BY <1>1, <1>2, <1>3, ReturnTypes DEF TypeOK, Proposed, rowVars
  <2>2. QED
    BY <1>1, <1>2, <1>3, <2>1, ReturnSound, StepSound DEF rowVars
<1>4. ASSUME NEW where \in {"looking", "resolving", "marking"}, NEW row \in Row,
             Goto(d, where), See(d, row), UNCHANGED <<op, req>>, SoundAt(d)'
      PROVE  TypeInv'
  <2>1. /\ pc' \in [Caller -> Where] /\ view' \in [Caller -> Row] /\ Moves(d)
        /\ req' \in [Caller -> 0..MaxRequest] /\ op' \in [Desk -> Ops \cup {"none"}]
    BY <1>1, <1>2, <1>4, GoesOn DEF Where, rowVars
  <2>2. TypeOK' /\ Proposed'
    BY <1>1, <1>2, <2>1 DEF TypeOK, Proposed, rowVars
  <2>3. QED
    BY <1>1, <1>4, <2>1, <2>2, StepSound
<1>5. CASE Read(d)
  <2>1. CASE See(d, item) /\ Goto(d, "looking") /\ UNCHANGED <<op, req>>
    <3>1. pc'[d] = "looking" /\ item \in Row
      BY <1>1, <2>1 DEF TypeOK, Goto
    <3>2. SoundAt(d)'
      BY <1>1, <1>2, <1>5, <2>1, <3>1 DEF SoundAt, Read, At, rowVars
    <3>3. QED
      BY <1>4, <2>1, <3>1, <3>2
  <2>2. QED
    BY <1>3, <1>5, <2>1 DEF Read
<1>6. CASE Load(d)
  <2>1. req[d] \in 1..Len(requests)
    BY <1>1, <1>6 DEF SoundAt, Load, At
  <2>2. PICK request \in RequestRow : request = requests[req[d]]
    BY <2>1, OpenRequest
  <2>3. PICK row : row = With(NoRow, request.status, request.decision, FALSE)
    OBVIOUS
  <2>4. CASE /\ IsOpen(request.status) /\ See(d, row)
             /\ Goto(d, "resolving") /\ UNCHANGED <<op, req>>
    <3>1. request.status \in {"pending", "deferred"}
      BY <2>4 DEF IsOpen
    <3>2. row \in Row /\ row.status = request.status
      <4>1. request.status \in ItemStatus /\ request.decision \in Decision
        BY <2>2, <3>1 DEF RequestRow, ItemStatus
      <4>2. QED
        BY <2>3, <4>1, NoRowRow, WithRow
    <3>3. pc'[d] = "resolving" /\ view'[d] = row
      BY <1>1, <2>4 DEF TypeOK, Goto, See
    <3>4. SoundAt(d)'
      BY <1>1, <1>2, <1>6, <2>1, <2>4, <3>1, <3>2, <3>3 DEF SoundAt, Load, At, rowVars
    <3>5. QED
      BY <1>4, <2>4, <3>2, <3>4
  <2>5. QED
    BY <1>3, <1>6, <2>2, <2>3, <2>4 DEF Load
<1>7. CASE Start(d)
  <2>1. CASE See(d, item) /\ Goto(d, "marking") /\ UNCHANGED <<op, req>>
    <3>1. pc'[d] = "marking" /\ item \in Row
      BY <1>1, <2>1 DEF TypeOK, Goto
    <3>2. SoundAt(d)'
      BY <1>1, <1>2, <1>7, <2>1, <3>1 DEF SoundAt, Start, At, rowVars
    <3>3. QED
      BY <1>4, <2>1, <3>1, <3>2
  <2>2. QED
    BY <1>3, <1>7, <2>1 DEF Start
<1>8. QED
  BY <1>5, <1>6, <1>7

(* The resolution or the edit of the request.                              *)
LEMMA ResolvingTypeInv ==
    ASSUME TypeInv, NEW d \in Desk,
           Resolve(d) \/ \E p \in Proposal : EditRequest(d, p)
    PROVE  TypeInv'
<1> USE QueueAssumption
<1>1. TypeOK /\ SoundAt(d) /\ Proposed /\ d \in Caller /\ Len(requests) \in Nat
  BY DEF TypeInv, TypeOK, Sound, Caller
<1>2. /\ req[d] \in 1..Len(requests) /\ view[d].status \in {"pending", "deferred"}
      /\ item.status # "none"
      /\ op[d] \in {"approve", "run", "deny", "defer", "edit"}
  BY <1>1 DEF SoundAt, Resolve, EditRequest, At
<1>3. ASSUME NEW request \in RequestRow, requests' = [requests EXCEPT ![req[d]] = request],
             NEW row \in Row, See(d, row), Goto(d, "syncing"),
             granted' \in BOOLEAN,
             UNCHANGED <<item, asked, directed, up, faults, op, req, early, cut>>,
             row.status \in {"approved", "denied", "deferred", "approval_required"},
             op[d] = "edit" => row.proposal \in Proposal
      PROVE  TypeInv'
  <2>1. requests' \in Seq(RequestRow) /\ Len(requests') = Len(requests)
    BY <1>1, <1>2, <1>3 DEF TypeOK
  <2>2. /\ pc' \in [Caller -> Where] /\ pc'[d] = "syncing"
        /\ view' \in [Caller -> Row] /\ view'[d] = row /\ Moves(d)
        /\ req' \in [Caller -> 0..MaxRequest] /\ op' \in [Desk -> Ops \cup {"none"}]
    BY <1>1, <1>3, <2>1, GoesOn DEF Where
  <2>3. TypeOK' /\ Proposed'
    BY <1>1, <1>3, <2>1, <2>2 DEF TypeOK, Proposed
  <2>4. SoundAt(d)'
    BY <1>1, <1>2, <1>3, <2>2 DEF SoundAt
  <2>5. QED
    BY <1>1, <2>2, <2>3, <2>4, StepSound
<1>4. CASE Resolve(d)
  <2>1. PICK status : status = Resolution(op[d])
    OBVIOUS
  <2>2. status \in {"approved", "denied", "deferred"}
    BY <2>1 DEF Resolution
  <2>3. PICK old \in RequestRow : old = requests[req[d]]
    BY <1>2, OpenRequest
  <2>4. PICK request : request = [old EXCEPT !.status = status]
    OBVIOUS
  <2>5. request \in RequestRow
    BY <2>2, <2>3, <2>4 DEF RequestRow, RequestStatus
  <2>6. requests' = [requests EXCEPT ![req[d]] = request]
    BY <1>1, <1>2, <1>4, <2>1, <2>3, <2>4 DEF Resolve, TypeOK
  <2>7. PICK row : row = With(view[d], status, old.decision, FALSE)
    OBVIOUS
  <2>8. row \in Row /\ row.status = status
    <3>1. view[d] \in Row /\ old.decision \in Decision /\ status \in ItemStatus
      BY <1>1, <2>2, <2>3 DEF TypeOK, RequestRow, ItemStatus
    <3>2. QED
      BY <2>7, <3>1, WithRow
  <2>9. /\ See(d, row) /\ Goto(d, "syncing") /\ granted' \in BOOLEAN /\ op[d] # "edit"
        /\ UNCHANGED <<item, asked, directed, up, faults, op, req, early, cut>>
    BY <1>1, <1>4, <2>1, <2>3, <2>7 DEF Resolve, TypeOK
  <2>10. QED
    BY <1>3, <2>2, <2>5, <2>6, <2>8, <2>9
<1>5. ASSUME NEW p \in Proposal, EditRequest(d, p) PROVE TypeInv'
  <2>1. PICK verdict \in Verdict : verdict = Authority[p]
    BY AuthorityVerdict
  <2>2. PICK request : request =
            [status |-> IF verdict = "deny" THEN "denied" ELSE view[d].status,
             decision |-> verdict]
    OBVIOUS
  <2>3. request \in RequestRow
    BY <1>2, <2>2 DEF RequestRow, RequestStatus, Decision
  <2>4. PICK status : status = CASE verdict = "deny" -> "denied"
                                 [] view[d].status = "deferred" -> "deferred"
                                 [] OTHER -> "approval_required"
    OBVIOUS
  <2>5. status \in {"denied", "deferred", "approval_required"}
    BY <2>4
  <2>6. PICK row : row = [status |-> status, proposal |-> p,
                          decision |-> verdict, stored |-> FALSE]
    OBVIOUS
  <2>7. row \in Row /\ row.status = status /\ row.proposal = p
    BY <2>5, <2>6 DEF Row, ItemStatus, Decision
  <2>8. /\ requests' = [requests EXCEPT ![req[d]] = request]
        /\ See(d, row) /\ Goto(d, "syncing")
        /\ UNCHANGED <<item, asked, directed, up, faults, op, req, granted, early, cut>>
    BY <1>5, <2>1, <2>2, <2>4, <2>6 DEF EditRequest
  <2>9. granted' \in BOOLEAN
    BY <1>1, <2>8 DEF TypeOK
  <2>10. QED
    BY <1>3, <2>3, <2>5, <2>7, <2>8, <2>9
<1>6. QED
  BY <1>4, <1>5

(* The writes to the row of the item.                                      *)
LEMMA SyncingTypeInv ==
    ASSUME TypeInv, NEW d \in Desk, Sync(d) \/ EditItem(d) \/ Mark(d)
    PROVE  TypeInv'
<1> USE QueueAssumption
<1>1. TypeOK /\ SoundAt(d) /\ Proposed /\ d \in Caller /\ Len(requests) \in Nat
  BY DEF TypeInv, TypeOK, Sound, Caller
<1>2. UNCHANGED <<requests, asked, directed, up, faults, granted, early, cut>> /\ item.status # "none"
  BY <1>1 DEF Sync, EditItem, Mark, SoundAt, At
<1>3. view[d] \in Row /\ view[d].decision \in Decision
  <2>1. view[d] \in Row
    BY <1>1 DEF TypeOK
  <2>2. QED
    BY <2>1 DEF Row
<1>4. /\ item' \in Row /\ item'.status # "none"
      /\ item'.proposal \in Proposal
  <2>1. ASSUME NEW status \in ItemStatus \ {"none"}, WriteItem(status, view[d].decision, FALSE)
        PROVE  item' \in Row /\ item'.status # "none" /\ item'.proposal \in Proposal
    BY <1>1, <1>2, <1>3, <2>1, WriteRow DEF Proposed
  <2>2. CASE Sync(d)
    <3>1. view[d].status \in ItemStatus \ {"none"}
      BY <1>1, <2>2 DEF SoundAt, Sync, At, ItemStatus
    <3>2. QED
      BY <2>1, <2>2, <3>1 DEF Sync
  <2>3. CASE EditItem(d)
    BY <1>1, <1>3, <2>3 DEF SoundAt, EditItem, At
  <2>4. CASE Mark(d)
    BY <2>1, <2>4 DEF Mark, ItemStatus
  <2>5. QED
    BY <2>2, <2>3, <2>4
<1>5. Proposed'
  BY <1>4 DEF Proposed
<1>6. CASE Return(d)
  <2>1. TypeOK'
    BY <1>1, <1>2, <1>4, <1>6, ReturnTypes DEF TypeOK
  <2>2. QED
    BY <1>1, <1>2, <1>4, <1>5, <1>6, <2>1, ReturnSound, StepSound
<1>7. CASE \E where \in {"starting", "calling"} : Goto(d, where) /\ UNCHANGED <<op, view, req>>
  <2>1. PICK where \in {"starting", "calling"} : Goto(d, where) /\ UNCHANGED <<op, view, req>>
    BY <1>7
  <2>2. /\ pc' \in [Caller -> Where] /\ pc'[d] = where
        /\ view' \in [Caller -> Row] /\ Moves(d)
        /\ req' \in [Caller -> 0..MaxRequest] /\ op' \in [Desk -> Ops \cup {"none"}]
    BY <1>1, <1>2, <1>4, <2>1, GoesOnBlind DEF Where
  <2>3. TypeOK'
    BY <1>1, <1>2, <1>4, <2>2 DEF TypeOK
  <2>4. SoundAt(d)'
    BY <1>1, <1>4, <2>2 DEF SoundAt
  <2>5. QED
    BY <1>1, <1>5, <2>2, <2>3, <2>4, StepSound
<1>8. QED
  BY <1>6, <1>7 DEF Sync, EditItem, Mark

(* A crash leaves no call, a restart none either.                          *)
LEMMA CrashTypeInv ==
    ASSUME TypeInv, Crash \/ Restart
    PROVE  TypeInv'
<1> USE QueueAssumption
<1>1. TypeOK /\ Sound
  BY DEF TypeInv
<1>2. CASE Crash
  <2>1. UNCHANGED <<item, requests, asked, directed, granted, early>> /\ cut' \in BOOLEAN
    BY <1>2 DEF Crash, rowVars
  <2>2. /\ pc' \in [Caller -> Where] /\ op' \in [Desk -> Ops \cup {"none"}]
        /\ view' \in [Caller -> Row] /\ req' \in [Caller -> 0..MaxRequest]
        /\ faults' \in 0..MaxFault /\ up' \in BOOLEAN
    <3>1. pc' \in [Caller -> Where] /\ op' \in [Desk -> Ops \cup {"none"}]
      BY <1>2 DEF Crash, Where
    <3>2. view' \in [Caller -> Row] /\ req' \in [Caller -> 0..MaxRequest]
      BY <1>2, NoRowRow DEF Crash
    <3>3. faults' \in 0..MaxFault /\ up' \in BOOLEAN
      <4>1. faults \in 0..MaxFault /\ MaxFault \in Nat
        BY <1>1 DEF TypeOK
      <4>2. faults < MaxFault /\ faults' = faults + 1 /\ up' = FALSE
        BY <1>2 DEF Crash
      <4>3. faults' \in 0..MaxFault
        BY <4>1, <4>2
      <4>4. up' \in BOOLEAN
        BY <4>2
      <4>5. QED
        BY <4>3, <4>4
    <3>4. QED
      BY <3>1, <3>2, <3>3
  <2>3. TypeOK'
    BY <1>1, <2>1, <2>2 DEF TypeOK
  <2>4. Sound'
    BY <1>1, <1>2, <2>1 DEF Sound, SoundAt, Proposed, Crash
  <2>5. QED
    BY <2>3, <2>4 DEF TypeInv
<1>3. CASE Restart
  <2>1. TypeOK'
    BY <1>1, <1>3 DEF Restart, TypeOK, rowVars, callVars
  <2>2. Sound'
    BY <1>1, <1>3 DEF Restart, Sound, SoundAt, Proposed, rowVars, callVars
  <2>3. QED
    BY <2>1, <2>2 DEF TypeInv
<1>4. QED
  BY <1>2, <1>3

LEMMA NextTypeInv == TypeInv /\ [Next]_vars => TypeInv'
<1> SUFFICES ASSUME TypeInv, [Next]_vars PROVE TypeInv'
  OBVIOUS
<1>1. CASE \E c \in Creator : Creating(c)
  BY <1>1, CreatingTypeInv
<1>2. CASE \E r \in Runner : Claim(r) \/ Evaluate(r)
  BY <1>2, ClaimingTypeInv
<1>3. CASE \E d \in Desk : Beginning(d)
  BY <1>3, BeginningTypeInv
<1>4. CASE \E d \in Desk : Deciding(d)
  BY <1>4, OpeningTypeInv, ResolvingTypeInv, SyncingTypeInv DEF Deciding
<1>5. CASE \E c \in Caller : Look(c) \/ File(c) \/ Running(c)
  BY <1>5, EnsuringTypeInv, RunningTypeInv
<1>6. CASE Crash \/ Restart
  BY <1>6, CrashTypeInv
<1>7. CASE UNCHANGED vars
  BY <1>7 DEF TypeInv, TypeOK, Sound, SoundAt, Proposed, vars, rowVars, callVars
<1>8. CASE \E c \in Caller : LockTimeout(c)
  BY <1>8, TimeoutTypeInv
<1>9. QED
  BY <1>1, <1>2, <1>3, <1>4, <1>5, <1>6, <1>7, <1>8 DEF Next

(* Every row, request and call keeps its type (the tables of db.py), and a *)
(* call has at hand what the code it is in takes for granted.              *)
THEOREM TypeCorrect == Spec => []TypeOK
<1>1. Spec => []TypeInv
  BY InitTypeInv, NextTypeInv, PTL DEF Spec
<1>2. TypeInv => TypeOK
  BY DEF TypeInv
<1>3. QED
  BY <1>1, <1>2, PTL

----------------------------------------------------------------------------
(* A step of one call leaves the grants of the others.                     *)
Alone(c) == \A d \in Caller \ {c} : pc'[d] = pc[d] /\ view'[d] = view[d]

LEMMA StepGrant ==
    ASSUME GrantInv, NEW c \in Caller, Alone(c), directed' = directed,
           granted => granted', item'.status = "approved" => granted', GrantAt(c)'
    PROVE  GrantInv'
<1>1. ASSUME NEW d \in Caller \ {c} PROVE GrantAt(d)'
  <2>1. GrantAt(d) /\ pc'[d] = pc[d] /\ view'[d] = view[d]
    BY DEF GrantInv, Alone
  <2>2. QED
    BY <2>1 DEF GrantAt
<1>2. QED
  BY <1>1 DEF GrantInv

(* A call that returns or goes on is alone to move.                        *)
LEMMA ReturnAlone ==
    ASSUME TypeInv, NEW c \in Caller, Return(c)
    PROVE  Alone(c) /\ pc'[c] = "idle"
  BY DEF TypeInv, TypeOK, Return, Goto, See, Alone
LEMMA GotoAlone ==
    ASSUME TypeInv, NEW c \in Caller, NEW where, Goto(c, where),
           UNCHANGED view \/ \E row : See(c, row)
    PROVE  Alone(c) /\ pc'[c] = where
  BY DEF TypeInv, TypeOK, Goto, See, Alone

(* A step that writes no row and asks for no run.                          *)
LEMMA QuietGrant ==
    ASSUME TypeInv, GrantInv, NEW c \in Caller, NEW where, Goto(c, where),
           UNCHANGED view \/ \E row : See(c, row),
           UNCHANGED <<item, directed, granted>>,
           where \in {"opening", "reading", "looking", "filing", "starting", "resolving",
                      "idle", "classifying"}
    PROVE  GrantInv'
<1>1. Alone(c) /\ pc'[c] = where
  BY GotoAlone
<1>2. GrantAt(c)'
  BY <1>1 DEF GrantAt
<1>3. QED
  BY <1>1, <1>2, StepGrant DEF GrantInv
LEMMA ReturnGrant ==
    ASSUME TypeInv, GrantInv, NEW c \in Caller, Return(c),
           directed' = directed, granted' = granted, item'.status = "approved" => granted
    PROVE  GrantInv'
<1>1. Alone(c) /\ pc'[c] = "idle"
  BY ReturnAlone
<1>2. GrantAt(c)'
  BY <1>1 DEF GrantAt
<1>3. QED
  BY <1>1, <1>2, StepGrant

LEMMA CreatingGrant ==
    ASSUME TypeInv, GrantInv, NEW c \in Creator, Creating(c)
    PROVE  GrantInv'
<1> USE QueueAssumption
<1>1. c \in Caller /\ GrantAt(c) /\ UNCHANGED <<directed, granted>>
  BY DEF Caller, GrantInv, Creating, Insert, Classify, Reuse, rowVars
<1>2. CASE Insert(c)
  <2>1. CASE item.status = "none"
    <3>1. item' = Fresh("unknown") /\ See(c, Fresh(Authority[asked])) /\ Goto(c, "classifying")
      BY <1>2, <2>1 DEF Insert
    <3>2. item'.status = "pending"
      BY <3>1 DEF Fresh
    <3>3. Alone(c) /\ pc'[c] = "classifying"
      BY <1>1, <3>1, GotoAlone
    <3>4. GrantAt(c)'
      BY <3>3 DEF GrantAt
    <3>5. QED
      BY <1>1, <3>2, <3>3, <3>4, StepGrant
  <2>2. CASE item.status # "none"
    <3>1. Goto(c, "reusing") /\ directed /\ UNCHANGED <<item, view>>
      BY <1>2, <2>2 DEF Insert
    <3>2. Alone(c) /\ pc'[c] = "reusing"
      BY <1>1, <3>1, GotoAlone
    <3>3. GrantAt(c)'
      BY <1>1, <3>1, <3>2 DEF GrantAt
    <3>4. QED
      BY <1>1, <3>1, <3>2, <3>3, StepGrant DEF GrantInv
  <2>3. QED
    BY <2>1, <2>2
<1>3. CASE Classify(c)
  <2>1. Authority[asked] \in Verdict
    BY AuthorityVerdict DEF TypeInv, TypeOK
  <2>2. item'.status = (IF directed THEN "approved" ELSE QueueStatus(Authority[asked]))
    BY <1>3 DEF Classify, WriteItem, With
  <2>3. item'.status = "approved" => granted
    BY <1>1, <2>1, <2>2, VerdictStatus DEF GrantInv
  <2>4. CASE directed
    <3>1. Goto(c, "calling") /\ UNCHANGED view
      BY <1>3, <2>4 DEF Classify
    <3>2. Alone(c) /\ pc'[c] = "calling"
      BY <1>1, <3>1, GotoAlone
    <3>3. GrantAt(c)'
      BY <1>1, <2>4, <3>2 DEF GrantAt, GrantInv
    <3>4. QED
      BY <1>1, <2>3, <3>2, <3>3, StepGrant
  <2>5. CASE ~directed
    <3>1. CASE Goto(c, "looking") /\ UNCHANGED <<op, view, req>>
      <4>1. Alone(c) /\ pc'[c] = "looking"
        BY <1>1, <3>1, GotoAlone
      <4>2. GrantAt(c)'
        BY <4>1 DEF GrantAt
      <4>3. QED
        BY <1>1, <2>3, <4>1, <4>2, StepGrant
    <3>2. CASE Return(c)
      BY <1>1, <2>3, <3>2, ReturnGrant
    <3>3. QED
      BY <1>3, <2>5, <3>1, <3>2 DEF Classify
  <2>6. QED
    BY <2>4, <2>5
<1>4. CASE Reuse(c)
  <2>1. item' = item /\ directed
    BY <1>1, <1>4 DEF Reuse, rowVars, GrantAt, At
  <2>2. CASE Return(c)
    BY <1>1, <2>1, <2>2, ReturnGrant DEF GrantInv
  <2>3. CASE See(c, item) /\ Goto(c, "calling")
    <3>1. Alone(c) /\ pc'[c] = "calling"
      BY <1>1, <2>3, GotoAlone
    <3>2. GrantAt(c)'
      BY <1>1, <2>1, <3>1 DEF GrantAt, GrantInv
    <3>3. QED
      BY <1>1, <2>1, <3>1, <3>2, StepGrant DEF GrantInv
  <2>4. QED
    BY <1>4, <2>2, <2>3 DEF Reuse
<1>5. QED
  BY <1>2, <1>3, <1>4 DEF Creating

(* A call in its except has the right to run the item it had before.       *)
LEMMA ExceptGrant ==
    ASSUME TypeInv, GrantInv, NEW c \in Caller, c \notin Creator, Except(c),
           pc[c] \in {"calling", "finishing"},
           UNCHANGED <<directed, granted>>, item'.status = "approved" => granted
    PROVE  GrantInv'
<1>1. PICK row : row = With(view[c], "error", view[c].decision, FALSE)
  OBVIOUS
<1>2. See(c, row) /\ Goto(c, "excepting") /\ row.proposal = view[c].proposal
  BY <1>1 DEF Except, With
<1>3. Alone(c) /\ pc'[c] = "excepting" /\ view'[c] = row
  BY <1>2, GotoAlone DEF See, TypeInv, TypeOK
<1>4. GrantAt(c)'
  BY <1>2, <1>3 DEF GrantAt, GrantInv
<1>5. QED
  BY <1>3, <1>4, StepGrant

LEMMA RunningGrant ==
    ASSUME TypeInv, GrantInv, NEW c \in Caller,
           \/ c \in Runner /\ (Claim(c) \/ Evaluate(c))
           \/ Running(c)
    PROVE  GrantInv'
<1> USE QueueAssumption
<1>1. GrantAt(c) /\ UNCHANGED <<directed, granted>>
  BY DEF GrantInv, Claim, Evaluate, Running, Unrun, Call, Raise, Finish, rowVars
<1>2. CASE c \in Runner /\ Claim(c)
  <2>1. PICK row : row = With(item, "running", item.decision, item.stored)
    OBVIOUS
  <2>2. item' = row /\ See(c, row) /\ Goto(c, "claimed") /\ row.status = "running"
    BY <1>2, <2>1 DEF Claim, With
  <2>3. Alone(c) /\ pc'[c] = "claimed"
    BY <2>2, GotoAlone
  <2>4. GrantAt(c)'
    BY <2>3 DEF GrantAt
  <2>5. QED
    BY <1>1, <2>2, <2>3, <2>4, StepGrant
<1>3. CASE c \in Runner /\ Evaluate(c)
  <2>1. PICK verdict : verdict = Authority[view[c].proposal]
    OBVIOUS
  <2>2. verdict \in Verdict
    BY <1>3, <2>1, AuthorityVerdict DEF TypeInv, Sound, SoundAt, Evaluate, At
  <2>3. CASE MayRun(verdict)
    <3>1. PICK row : row = With(view[c], "running", verdict, FALSE)
      OBVIOUS
    <3>2. /\ WriteItem("running", verdict, FALSE) /\ See(c, row) /\ Goto(c, "calling")
          /\ row.proposal = view[c].proposal
      BY <1>3, <2>1, <2>3, <3>1 DEF Evaluate, With
    <3>3. Alone(c) /\ pc'[c] = "calling" /\ view'[c] = row /\ item'.status = "running"
      BY <3>2, GotoAlone DEF See, TypeInv, TypeOK, WriteItem, With
    <3>4. GrantAt(c)'
      BY <1>3, <2>1, <2>3, <3>2, <3>3 DEF GrantAt, MayRun
    <3>5. QED
      BY <1>1, <3>3, <3>4, StepGrant
  <2>4. CASE ~MayRun(verdict)
    <3>1. WriteItem(QueueStatus(verdict), verdict, FALSE) /\ Return(c)
      BY <1>3, <2>1, <2>4 DEF Evaluate
    <3>2. item'.status # "approved"
      BY <2>2, <3>1, VerdictStatus DEF WriteItem, With
    <3>3. QED
      BY <1>1, <3>1, <3>2, ReturnGrant
  <2>5. QED
    BY <2>3, <2>4
<1>4. CASE Unrun(c)
  BY <1>1, <1>4, ReturnGrant DEF Unrun, rowVars, GrantInv
<1>5. ASSUME NEW outcome \in Outcome, Call(c, outcome) PROVE GrantInv'
  <2>1. PICK row : row = With(view[c], outcome, view[c].decision, TRUE)
    OBVIOUS
  <2>2. See(c, row) /\ Goto(c, "finishing") /\ row.proposal = view[c].proposal /\ item' = item
    BY <1>5, <2>1 DEF Call, With, rowVars
  <2>3. Alone(c) /\ pc'[c] = "finishing" /\ view'[c] = row
    BY <2>2, GotoAlone DEF See, TypeInv, TypeOK
  <2>4. GrantAt(c)'
    BY <1>1, <1>5, <2>2, <2>3 DEF GrantAt, Call, At
  <2>5. QED
    BY <1>1, <2>2, <2>3, <2>4, StepGrant DEF GrantInv
<1>6. CASE Finish(c)
  <2>1. Return(c) /\ WriteOutcome(c) /\ pc[c] \in {"finishing", "excepting"}
    BY <1>6 DEF Finish, Recorded, At
  <2>2. item'.status # "approved"
    BY <2>1, OutcomeRow DEF Outcome
  <2>3. QED
    BY <1>1, <2>1, <2>2, ReturnGrant
<1>7. CASE Raise(c)
  <2>1. Except(c) /\ c \notin Creator /\ pc[c] = "calling" /\ item' = item
    BY <1>7 DEF Raise, At, rowVars
  <2>2. QED
    BY <1>1, <2>1, ExceptGrant DEF GrantInv
<1>8. QED
  BY <1>2, <1>3, <1>4, <1>5, <1>6, <1>7 DEF Running

LEMMA TimeoutGrant ==
    ASSUME TypeInv, GrantInv, NEW c \in Caller, LockTimeout(c)
    PROVE  GrantInv'
<1> USE QueueAssumption
<1>1. UNCHANGED <<directed, granted>>
  BY DEF LockTimeout
<1>2. CASE Return(c) /\ UNCHANGED item
  BY <1>1, <1>2, ReturnGrant DEF GrantInv
<1>3. CASE InTry(c) /\ Except(c) /\ (UNCHANGED item \/ WriteOutcome(c))
  <2>1. c \notin Creator /\ pc[c] = "finishing"
    BY <1>3 DEF InTry
  <2>2. item'.status = "approved" => granted
    <3>1. CASE UNCHANGED item
      BY <3>1 DEF GrantInv
    <3>2. CASE WriteOutcome(c)
      BY <2>1, <3>2, OutcomeRow DEF Outcome
    <3>3. QED
      BY <1>3, <3>1, <3>2
  <2>3. QED
    BY <1>1, <1>3, <2>1, <2>2, ExceptGrant
<1>4. QED
  BY <1>2, <1>3 DEF LockTimeout

LEMMA DeskGrant ==
    ASSUME TypeInv, GrantInv, NEW d \in Desk, Beginning(d) \/ Deciding(d)
    PROVE  GrantInv'
<1> USE QueueAssumption
<1>1. d \in Caller /\ d \notin Creator /\ GrantAt(d)
  BY DEF Caller, GrantInv
<1>2. CASE Beginning(d)
  <2>1. UNCHANGED <<item, directed, granted, view>>
    BY <1>2 DEF Beginning, Begin, Find, BeginDispatch, rowVars
  <2>2. \E where \in {"opening", "reading", "starting"} : Goto(d, where)
    BY <1>2 DEF Beginning, Begin, Find, BeginDispatch
  <2>3. QED
    BY <1>1, <2>1, <2>2, QuietGrant
<1>3. CASE Read(d) \/ Load(d)
  <2>1. UNCHANGED <<item, directed, granted>>
    BY <1>3 DEF Read, Load, rowVars
  <2>2. CASE Return(d)
    BY <1>1, <2>1, <2>2, ReturnGrant DEF GrantInv
  <2>3. CASE \E where \in {"looking", "resolving"} : Goto(d, where) /\ \E row : See(d, row)
    BY <1>1, <2>1, <2>3, QuietGrant
  <2>4. QED
    BY <1>3, <2>2, <2>3 DEF Read, Load
<1>4. CASE Start(d)
  <2>1. UNCHANGED <<item, directed, granted>>
    BY <1>4 DEF Start, rowVars
  <2>2. CASE Return(d)
    BY <1>1, <2>1, <2>2, ReturnGrant DEF GrantInv
  <2>3. CASE Dispatchable(item) /\ See(d, item) /\ Goto(d, "marking")
    <3>1. granted
      BY <2>3 DEF GrantInv, Dispatchable
    <3>2. Alone(d) /\ pc'[d] = "marking"
      BY <1>1, <2>3, GotoAlone
    <3>3. GrantAt(d)'
      BY <2>1, <3>1, <3>2 DEF GrantAt
    <3>4. QED
      BY <1>1, <2>1, <3>2, <3>3, StepGrant DEF GrantInv
  <2>4. QED
    BY <1>4, <2>2, <2>3 DEF Start
<1>5. CASE Resolve(d)
  <2>1. /\ Goto(d, "syncing") /\ item' = item /\ directed' = directed
        /\ granted' = (granted \/ op[d] \in {"approve", "run"})
    BY <1>5 DEF Resolve
  <2>2. PICK row : See(d, row) /\ row.status = Resolution(op[d])
    BY <1>5 DEF Resolve, With
  <2>3. op[d] \in {"approve", "run", "deny", "defer", "edit"} /\ op[d] # "edit"
    BY <1>1, <1>5 DEF TypeInv, Sound, SoundAt, Resolve, At
  <2>4. row.status = "approved" => granted'
    BY <2>1, <2>2, <2>3 DEF Resolution
  <2>5. Alone(d) /\ pc'[d] = "syncing" /\ view'[d] = row
    BY <1>1, <2>1, <2>2, GotoAlone DEF See, TypeInv, TypeOK
  <2>6. GrantAt(d)'
    BY <2>4, <2>5 DEF GrantAt
  <2>7. QED
    BY <1>1, <2>1, <2>5, <2>6, StepGrant DEF GrantInv
<1>6. ASSUME NEW p \in Proposal, EditRequest(d, p) PROVE GrantInv'
  <2>1. Goto(d, "syncing") /\ UNCHANGED <<item, directed, granted>>
    BY <1>6 DEF EditRequest
  <2>2. PICK status : status = CASE Authority[p] = "deny" -> "denied"
                                 [] view[d].status = "deferred" -> "deferred"
                                 [] OTHER -> "approval_required"
    OBVIOUS
  <2>3. PICK row : See(d, row) /\ row.status = status
    BY <1>6, <2>2 DEF EditRequest
  <2>4. row.status # "approved"
    BY <2>2, <2>3
  <2>5. Alone(d) /\ pc'[d] = "syncing" /\ view'[d] = row
    BY <1>1, <2>1, <2>3, GotoAlone DEF See, TypeInv, TypeOK
  <2>6. GrantAt(d)'
    BY <2>4, <2>5 DEF GrantAt
  <2>7. QED
    BY <1>1, <2>1, <2>5, <2>6, StepGrant DEF GrantInv
<1>7. CASE Sync(d) \/ EditItem(d)
  <2>1. UNCHANGED <<directed, granted>> /\ item'.status = view[d].status /\ pc[d] = "syncing"
    BY <1>7 DEF Sync, EditItem, WriteItem, With, At
  <2>2. item'.status = "approved" => granted
    BY <1>1, <2>1 DEF GrantAt
  <2>3. CASE Return(d)
    BY <1>1, <2>1, <2>2, <2>3, ReturnGrant
  <2>4. CASE Goto(d, "starting") /\ UNCHANGED view
    <3>1. Alone(d) /\ pc'[d] = "starting"
      BY <1>1, <2>4, GotoAlone
    <3>2. GrantAt(d)'
      BY <3>1 DEF GrantAt
    <3>3. QED
      BY <1>1, <2>1, <2>2, <3>1, <3>2, StepGrant
  <2>5. QED
    BY <1>7, <2>3, <2>4 DEF Sync, EditItem
<1>8. CASE Mark(d)
  <2>1. /\ Goto(d, "calling") /\ UNCHANGED <<view, directed, granted>> /\ pc[d] = "marking"
        /\ item'.status = "running"
    BY <1>8 DEF Mark, At, WriteItem, With
  <2>2. Alone(d) /\ pc'[d] = "calling"
    BY <1>1, <2>1, GotoAlone
  <2>3. GrantAt(d)'
    BY <1>1, <2>1, <2>2 DEF GrantAt
  <2>4. QED
    BY <1>1, <2>1, <2>2, <2>3, StepGrant
<1>9. QED
  BY <1>2, <1>3, <1>4, <1>5, <1>6, <1>7, <1>8 DEF Deciding

LEMMA EnsuringGrant ==
    ASSUME TypeInv, GrantInv, NEW c \in Caller, Look(c) \/ File(c)
    PROVE  GrantInv'
<1>1. UNCHANGED <<item, directed, granted>>
  BY DEF Look, File, rowVars
<1>2. CASE Return(c)
  BY <1>1, <1>2, ReturnGrant DEF GrantInv
<1>3. CASE \E where \in {"filing", "opening"} : Goto(c, where) /\ UNCHANGED view
  BY <1>1, <1>3, QuietGrant
<1>4. QED
  BY <1>2, <1>3 DEF Look, File

(* Only what the authority allows, or the founder commanded or approved,   *)
(* is run (run_next, dispatch_work_item, queue_delegation).                *)
THEOREM RunsAreAuthorised == Spec => []Authorised
<1>1. Init => GrantInv
  BY DEF Init, GrantInv, GrantAt, NoRow
<1>2. TypeInv /\ GrantInv /\ [Next]_vars => GrantInv'
  <2> SUFFICES ASSUME TypeInv, GrantInv, [Next]_vars PROVE GrantInv'
    OBVIOUS
  <2>1. CASE \E c \in Creator : Creating(c)
    BY <2>1, CreatingGrant
  <2>2. CASE \E r \in Runner : Claim(r) \/ Evaluate(r)
    BY <2>2, RunningGrant DEF Caller
  <2>3. CASE \E d \in Desk : Beginning(d) \/ Deciding(d)
    BY <2>3, DeskGrant
  <2>4. CASE \E c \in Caller : Look(c) \/ File(c) \/ Running(c)
    BY <2>4, EnsuringGrant, RunningGrant
  <2>5. CASE Crash
    BY <2>5 DEF Crash, GrantInv, GrantAt, rowVars
  <2>6. CASE Restart \/ UNCHANGED vars
    BY <2>6 DEF Restart, GrantInv, GrantAt, vars, rowVars, callVars
  <2>7. CASE \E c \in Caller : LockTimeout(c)
    BY <2>7, TimeoutGrant
  <2>8. QED
    BY <2>1, <2>2, <2>3, <2>4, <2>5, <2>6, <2>7 DEF Next
<1>3. GrantInv => Authorised
  BY DEF GrantInv, GrantAt, Authorised
<1>4. QED
  BY <1>1, <1>2, <1>3, InitTypeInv, NextTypeInv, PTL DEF Spec

----------------------------------------------------------------------------
(* A step by which no runner takes up work and the item does not begin to  *)
(* wait.                                                                   *)
LEMMA StepExclusive ==
    ASSUME Exclusive, early' = early,
           \A r \in Runner : pc[r] = "idle" => pc'[r] = "idle",
           Waiting' => Waiting
    PROVE  Exclusive'
  BY DEF Exclusive

(* A call that goes anywhere but to classifying leaves nobody there who    *)
(* was not.                                                                *)
LEMMA NoneClassifies ==
    ASSUME TypeInv, NEW c \in Caller, Alone(c), pc'[c] # "classifying",
           item'.status \notin {"none", "pending"}
              \/ item' = item
    PROVE  Waiting' => Waiting
<1>1. ASSUME NEW d \in Creator, pc'[d] = "classifying" PROVE pc[d] = "classifying"
  BY <1>1 DEF Alone, Caller
<1>2. QED
  BY <1>1 DEF Waiting

LEMMA NextExclusive == TypeInv /\ Exclusive /\ [Next]_vars => Exclusive'
<1> SUFFICES ASSUME TypeInv, Exclusive, [Next]_vars PROVE Exclusive'
  OBVIOUS
<1> USE QueueAssumption
<1>1. ASSUME NEW c \in Creator, Creating(c) PROVE Exclusive'
  <2>1. c \in Caller /\ c \notin Runner /\ early' = early
    BY <1>1 DEF Caller, Creating, Insert, Classify, Reuse
  <2>2. Alone(c)
    <3>1. \/ Return(c)
          \/ \E where : Goto(c, where) /\ (UNCHANGED view \/ \E row : See(c, row))
      BY <1>1 DEF Creating, Insert, Classify, Reuse
    <3>2. QED
      BY <2>1, <3>1, ReturnAlone, GotoAlone
  <2>3. \A r \in Runner : pc'[r] = pc[r]
    BY <2>1, <2>2 DEF Alone, Caller
  <2>4. Waiting' => Waiting
    <3>1. CASE Insert(c)
      <4>1. CASE item.status = "none"
        BY <4>1 DEF Waiting
      <4>2. CASE item.status # "none"
        <5>1. Goto(c, "reusing") /\ item' = item
          BY <3>1, <4>2 DEF Insert
        <5>2. pc'[c] # "classifying"
          BY <2>1, <5>1 DEF Goto, TypeInv, TypeOK
        <5>3. QED
          BY <2>1, <2>2, <5>1, <5>2, NoneClassifies
      <4>3. QED
        BY <4>1, <4>2
    <3>2. CASE Classify(c)
      BY <3>2 DEF Classify, At, Waiting
    <3>3. CASE Reuse(c)
      <4>1. item' = item /\ pc'[c] # "classifying"
        BY <2>1, <3>3, ReturnAlone DEF Reuse, Goto, TypeInv, TypeOK, rowVars
      <4>2. QED
        BY <2>1, <2>2, <4>1, NoneClassifies
    <3>4. QED
      BY <1>1, <3>1, <3>2, <3>3 DEF Creating
  <2>5. QED
    BY <2>1, <2>3, <2>4, StepExclusive
<1>2. ASSUME NEW r \in Runner, Claim(r) PROVE Exclusive'
  <2>1. CASE early'
    BY <2>1 DEF Exclusive
  <2>2. CASE ~early'
    <3>1. ~early /\ \A c \in Creator : pc[c] # "classifying"
      BY <1>2, <2>2 DEF Claim
    <3>2. \A q \in Runner : pc[q] = "idle"
      BY <1>2, <3>1 DEF Exclusive, Waiting, Claim, Claimable
    <3>3. item'.status = "running"
      BY <1>2 DEF Claim, With
    <3>4. \A d \in Caller \ {r} : pc'[d] = pc[d]
      BY <1>2 DEF Claim, Goto, TypeInv, TypeOK
    <3>5. \A c \in Creator : pc'[c] # "classifying"
      BY <3>1, <3>4 DEF Caller
    <3>6. ~Waiting'
      BY <3>3, <3>5 DEF Waiting
    <3>7. \A q \in Runner : pc'[q] # "idle" => q = r
      BY <3>2, <3>4 DEF Caller
    <3>8. QED
      BY <3>6, <3>7 DEF Exclusive
  <2>3. QED
    BY <2>1, <2>2
<1>3. ASSUME NEW r \in Runner, Evaluate(r) PROVE Exclusive'
  <2>1. r \in Caller /\ early' = early /\ pc[r] = "claimed"
    BY <1>3 DEF Caller, Evaluate, At
  <2>2. PICK verdict \in Verdict : verdict = Authority[view[r].proposal]
    BY <2>1, AuthorityVerdict DEF TypeInv, Sound, SoundAt
  <2>3. item'.status \notin {"none", "pending"}
    BY <1>3, <2>2, VerdictStatus DEF Evaluate, MayRun, WriteItem, With
  <2>4. Alone(r) /\ pc'[r] # "classifying"
    <3>1. \/ Return(r)
          \/ \E where \in Where \ {"classifying"} :
                Goto(r, where) /\ (UNCHANGED view \/ \E row : See(r, row))
      BY <1>3 DEF Evaluate, Where
    <3>2. QED
      BY <2>1, <3>1, ReturnAlone, GotoAlone
  <2>5. \A q \in Runner : pc[q] = "idle" => pc'[q] = "idle"
    BY <2>1, <2>4 DEF Alone, Caller
  <2>6. QED
    BY <2>1, <2>3, <2>4, <2>5, NoneClassifies, StepExclusive
<1>4. ASSUME NEW c \in Caller, Look(c) \/ File(c) \/ Running(c) PROVE Exclusive'
  <2>1. early' = early /\ pc[c] # "idle"
    BY <1>4 DEF Look, File, Running, Unrun, Call, Raise, Finish, At
  <2>2. Alone(c) /\ pc'[c] # "classifying"
    <3>1. \/ Return(c)
          \/ \E where \in Where \ {"classifying"} :
                Goto(c, where) /\ (UNCHANGED view \/ \E row : See(c, row))
      BY <1>4 DEF Look, File, Running, Unrun, Call, Raise, Except, Finish, Where
    <3>2. QED
      BY <3>1, ReturnAlone, GotoAlone
  <2>3. item'.status \notin {"none", "pending"} \/ item' = item
    <3>1. CASE Finish(c)
      <4>1. item'.status \in Outcome
        BY <3>1, OutcomeRow DEF Finish, Recorded, At
      <4>2. QED
        BY <4>1 DEF Outcome
    <3>2. CASE ~Finish(c)
      BY <1>4, <3>2 DEF Look, File, Running, Unrun, Call, Raise, rowVars
    <3>3. QED
      BY <3>1, <3>2
  <2>4. \A q \in Runner : pc[q] = "idle" => pc'[q] = "idle"
    BY <2>1, <2>2 DEF Alone, Caller
  <2>5. QED
    BY <2>1, <2>2, <2>3, <2>4, NoneClassifies, StepExclusive
<1>5. ASSUME NEW d \in Desk, Beginning(d) \/ Deciding(d) PROVE Exclusive'
  <2>1. d \in Caller /\ d \notin Runner /\ SoundAt(d)
    BY DEF Caller, TypeInv, Sound
  <2>2. early' = early
    BY <1>5 DEF Beginning, Begin, Find, BeginDispatch, Deciding, Read, Load, Resolve,
                Sync, EditRequest, EditItem, Start, Mark
  <2>3. \/ Return(d)
        \/ \E where \in Where \ {"classifying"} :
              Goto(d, where) /\ (UNCHANGED view \/ \E row : See(d, row))
    BY <1>5 DEF Beginning, Begin, Find, BeginDispatch, Deciding, Read, Load, Resolve,
                Sync, EditRequest, EditItem, Start, Mark, Where
  <2>4. Alone(d) /\ pc'[d] # "classifying"
    BY <2>1, <2>3, ReturnAlone, GotoAlone
  <2>5. item'.status \notin {"none", "pending"} \/ item' = item
    <3>1. CASE Sync(d) \/ EditItem(d)
      BY <2>1, <3>1 DEF Sync, EditItem, SoundAt, At, WriteItem, With
    <3>2. CASE Mark(d)
      BY <3>2 DEF Mark, WriteItem, With
    <3>3. CASE Beginning(d) \/ Read(d) \/ Load(d) \/ Start(d)
      BY <3>3 DEF Beginning, Begin, Find, BeginDispatch, Read, Load, Start, rowVars
    <3>4. CASE Resolve(d) \/ \E p \in Proposal : EditRequest(d, p)
      BY <3>4 DEF Resolve, EditRequest
    <3>5. QED
      BY <1>5, <3>1, <3>2, <3>3, <3>4 DEF Deciding
  <2>6. \A q \in Runner : pc'[q] = pc[q]
    BY <2>1, <2>4 DEF Alone, Caller
  <2>7. QED
    BY <2>1, <2>2, <2>4, <2>5, <2>6, NoneClassifies, StepExclusive
<1>6. CASE Crash
  BY <1>6 DEF Crash, Exclusive, Caller
<1>7. CASE Restart \/ UNCHANGED vars
  BY <1>7 DEF Restart, Exclusive, Waiting, vars, rowVars, callVars
<1>8. ASSUME NEW c \in Caller, LockTimeout(c) PROVE Exclusive'
  <2>1. early' = early
    BY <1>8 DEF LockTimeout
  <2>2. pc[c] # "idle"
    BY <1>8 DEF LockTimeout, Writing, InTry
  <2>3. Alone(c) /\ pc'[c] # "classifying"
    <3>1. \/ Return(c)
          \/ Goto(c, "excepting") /\ \E row : See(c, row)
      BY <1>8 DEF LockTimeout, Except
    <3>2. QED
      BY <3>1, ReturnAlone, GotoAlone
  <2>4. item'.status \notin {"none", "pending"} \/ item' = item
    BY <1>8, OutcomeRow DEF LockTimeout, InTry, Outcome
  <2>5. \A q \in Runner : pc[q] = "idle" => pc'[q] = "idle"
    BY <2>2, <2>3 DEF Alone, Caller
  <2>6. QED
    BY <2>1, <2>3, <2>4, <2>5, NoneClassifies, StepExclusive
<1>9. QED
  BY <1>1, <1>2, <1>3, <1>4, <1>5, <1>6, <1>7, <1>8 DEF Next

(* Two runners never run one item, unless one of them claims it before its *)
(* verdict is written (claim_next_work_item, enqueue).                     *)
THEOREM RunnersExclude == Spec => []QueueRunsOnce
<1>1. Init => Exclusive
  BY DEF Init, Exclusive, Caller
<1>2. Exclusive => QueueRunsOnce
  <2> SUFFICES ASSUME Exclusive, ~early PROVE Cardinality(AtWork) <= 1
    BY DEF QueueRunsOnce, OneRunner
  <2>1. \A r, q \in AtWork : r = q
    BY DEF Exclusive, AtWork
  <2>2. CASE AtWork = {}
    BY <2>2, FS_EmptySet
  <2>3. CASE AtWork # {}
    <3>1. PICK r \in AtWork : AtWork = {r}
      BY <2>1, <2>3
    <3>2. QED
      BY <3>1, FS_Singleton
  <2>4. QED
    BY <2>2, <2>3
<1>3. QED
  BY <1>1, <1>2, InitTypeInv, NextTypeInv, NextExclusive, PTL DEF Spec
=============================================================================
