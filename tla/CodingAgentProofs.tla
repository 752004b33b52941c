------------------------- MODULE CodingAgentProofs --------------------------
(***************************************************************************)
(* Theorems about CodingAgent and the CommandRunner under it, for any      *)
(* number of agents, workspaces and cancellers and any budgets.            *)
(***************************************************************************)
EXTENDS CodingAgent, FiniteSetTheorems, TLAPS

(* A canceller terminates at most one command at a time.                   *)
OneVictim == \A k \in Canceller : victim[k] = {} \/ \E a \in Agent : victim[k] = {a}

(* The thread of an agent is in the runner only for a call or a check; a   *)
(* process is there only while it is, and has ended when it answers.       *)
PlaceAt(a) ==
    /\ stage[a] # "none" => pc[a] \in {"calling", "checking"}
    /\ stage[a] # "none" /\ pc[a] = "calling" => calls[a] > 0
    /\ stage[a] # "none" /\ pc[a] = "checking" => checks[a] > 0
    /\ stage[a] = "none" => proc[a] = "none"
    /\ stage[a] \in {"answering", "retiring"} => proc[a] = "ended"

(* An answer says ok for a plain 0 only.                                   *)
AnswerAt(a) == stage[a] = "retiring" /\ ok[a] => zero[a] /\ ~cancelled[a] /\ ~timedOut[a]

(* While checks run no tool changes the files, and a command that was not  *)
(* a plain 0 has made the verdict; a passing verdict is the last word.     *)
VerdictAt(a) ==
    /\ pc[a] = "checking" => ~touched[a]
    /\ pc[a] = "checking" /\ spoilt[a] => failing[a]
    /\ verdict[a] = "ok" => pc[a] \in {"ending", "idle"} /\ ~touched[a] /\ ~spoilt[a]

(* A verdict before the end is the bad one a repair is for; what a repair  *)
(* changed, a tool that is over has changed, and it makes the next check.  *)
CurrentAt(a) ==
    /\ pc[a] \in {"asking", "calling", "advanced", "checking"} =>
         verdict[a] = IF repairs[a] = 0 THEN "none" ELSE "bad"
    /\ pc[a] = "calling" => calls[a] > 0 \/ stepped[a]
    /\ pc[a] \in {"asking", "advanced"} /\ verdict[a] = "bad" /\ touched[a] => stepped[a]
    /\ pc[a] \in {"ending", "idle"} /\ verdict[a] # "none" /\ touched[a] =>
         status[a] # "ok" /\ verdict[a] = "bad"

TypeInv == TypeOK /\ OneVictim
Places == \A a \in Agent : PlaceAt(a)
Answers == \A a \in Agent : AnswerAt(a)
Verdicts == \A a \in Agent : VerdictAt(a)
Current == \A a \in Agent : CurrentAt(a)

----------------------------------------------------------------------------
(* The types                                                               *)

LEMMA AtMostOne ==
    ASSUME NEW v, NEW k, v[k] = {} \/ \E a \in Agent : v[k] = {a}
    PROVE  Cardinality(v[k]) <= 1
  <1>1. CASE v[k] = {}
    BY <1>1, FS_EmptySet
  <1>2. CASE \E a \in Agent : v[k] = {a}
    BY <1>2, FS_Singleton
  <1> QED BY <1>1, <1>2

LEMMA ForgetTypes ==
    ASSUME RunnerTypeOK, OneVictim, NEW a \in Agent, Forget(a),
           survivors' \in SUBSET Workspace
    PROVE  RunnerTypeOK' /\ OneVictim'
  <1>1. stage' \in [Agent -> Stage]
    BY DEF RunnerTypeOK, Forget, Move, Stage
  <1>2. proc' \in [Agent -> {"none", "alive", "ended"}]
    BY DEF RunnerTypeOK, Forget
  <1>3. /\ zero' \in [Agent -> BOOLEAN] /\ cancelled' \in [Agent -> BOOLEAN]
        /\ timedOut' \in [Agent -> BOOLEAN] /\ ok' \in [Agent -> BOOLEAN]
    BY DEF RunnerTypeOK, Forget
  <1>4. todo' \in [Canceller -> SUBSET Agent] /\ victim' \in [Canceller -> SUBSET Agent]
    BY DEF RunnerTypeOK, Forget
  <1>5. OneVictim'
    BY DEF OneVictim, Forget, RunnerTypeOK
  <1>6. \A k \in Canceller : Cardinality(victim'[k]) <= 1
    BY <1>5, AtMostOne DEF OneVictim
  <1> QED BY <1>1, <1>2, <1>3, <1>4, <1>5, <1>6 DEF RunnerTypeOK

LEMMA RunnerTypes ==
    ASSUME RunnerTypeOK, OneVictim, NEW a \in Agent,
           \/ Popen(a) \/ Register(a) \/ Exits(a) \/ Returns(a) \/ Expires(a)
           \/ Terminate(a) \/ Raises(a) \/ Answer(a) \/ Retire(a)
    PROVE  RunnerTypeOK' /\ OneVictim'
  <1> USE RunnerAssumption
  <1>1. CASE Popen(a)
    BY <1>1 DEF RunnerTypeOK, OneVictim, Popen, Move, Stage, cancelVars
  <1>2. CASE Register(a)
    BY <1>2 DEF RunnerTypeOK, OneVictim, Register, Move, Stage, cancelVars
  <1>3. CASE Exits(a)
    BY <1>3 DEF RunnerTypeOK, OneVictim, Exits, cancelVars
  <1>4. CASE Returns(a)
    BY <1>4 DEF RunnerTypeOK, OneVictim, Returns, Move, Stage, cancelVars
  <1>5. CASE Expires(a)
    BY <1>5 DEF RunnerTypeOK, OneVictim, Expires, Move, Stage, cancelVars
  <1>6. CASE Terminate(a)
    BY <1>6 DEF RunnerTypeOK, OneVictim, Terminate, Signalled, Move, Stage, cancelVars
  <1>7. CASE Raises(a)
    <2>1. survivors' \in SUBSET Workspace
      BY <1>7 DEF RunnerTypeOK, Raises
    <2> QED BY <1>7, <2>1, ForgetTypes DEF Raises
  <1>8. CASE Answer(a)
    BY <1>8 DEF RunnerTypeOK, OneVictim, Answer, Succeeded, Move, Stage, cancelVars
  <1>9. CASE Retire(a)
    <2>1. survivors' \in SUBSET Workspace
      BY <1>9 DEF RunnerTypeOK, Retire
    <2> QED BY <1>9, <2>1, ForgetTypes DEF Retire
  <1> QED BY <1>1, <1>2, <1>3, <1>4, <1>5, <1>6, <1>7, <1>8, <1>9

LEMMA CancellerTypes ==
    ASSUME RunnerTypeOK, OneVictim, NEW k \in Canceller,
           (\E ids \in SUBSET Agent : CancelAll(k, ids)) \/ Flag(k) \/ Kill(k)
    PROVE  RunnerTypeOK' /\ OneVictim'
  <1>1. CASE \E ids \in SUBSET Agent : CancelAll(k, ids)
    BY <1>1 DEF RunnerTypeOK, OneVictim, CancelAll, commandVars
  <1>2. CASE Flag(k)
    <2>1. PICK a \in todo[k] :
            /\ todo' = [todo EXCEPT ![k] = @ \ {a}]
            /\ IF Cancellable(a)
               THEN /\ cancelled' = [cancelled EXCEPT ![a] = TRUE]
                    /\ victim' = [victim EXCEPT ![k] = {a}]
               ELSE UNCHANGED <<cancelled, victim>>
      BY <1>2 DEF Flag
    <2>2. a \in Agent
      BY <2>1 DEF RunnerTypeOK
    <2>3. OneVictim' /\ victim' \in [Canceller -> SUBSET Agent]
      BY <2>1, <2>2 DEF OneVictim, RunnerTypeOK
    <2>4. cancelled' \in [Agent -> BOOLEAN] /\ todo' \in [Canceller -> SUBSET Agent]
      BY <2>1, <2>2 DEF RunnerTypeOK
    <2>5. \A m \in Canceller : Cardinality(victim'[m]) <= 1
      BY <2>3, AtMostOne DEF OneVictim
    <2> QED BY <1>2, <2>3, <2>4, <2>5 DEF Flag, RunnerTypeOK
  <1>3. CASE Kill(k)
    <2>1. OneVictim' /\ victim' \in [Canceller -> SUBSET Agent]
      BY <1>3 DEF Kill, OneVictim, RunnerTypeOK
    <2>2. \A m \in Canceller : Cardinality(victim'[m]) <= 1
      BY <2>1, AtMostOne DEF OneVictim
    <2>3. PICK a \in victim[k] : Signalled(a)
      BY <1>3 DEF Kill
    <2>4. /\ proc' \in [Agent -> {"none", "alive", "ended"}]
          /\ zero' \in [Agent -> BOOLEAN]
      BY <2>3 DEF RunnerTypeOK, Signalled
    <2> QED BY <1>3, <2>1, <2>2, <2>4 DEF Kill, RunnerTypeOK
  <1> QED BY <1>1, <1>2, <1>3

(* The start of the kernel, and its death.                                 *)
LEMMA RestTypes ==
    /\ RunnerInit => RunnerTypeOK /\ OneVictim
    /\ RunnerTypeOK /\ Die => RunnerTypeOK' /\ OneVictim'
  <1>1. \A k \in Canceller : Cardinality([c \in Canceller |-> {}][k]) <= 1
    BY FS_EmptySet
  <1>2. ASSUME RunnerInit PROVE RunnerTypeOK /\ OneVictim
    BY <1>1, <1>2 DEF RunnerInit, RunnerTypeOK, OneVictim, Stage
  <1>3. ASSUME RunnerTypeOK, Die PROVE RunnerTypeOK' /\ OneVictim'
    BY <1>1, <1>3, RunnerAssumption DEF Die, RunnerTypeOK, OneVictim, Stage
  <1> QED BY <1>2, <1>3

(* What TypeOK says of the agents themselves.                              *)
AgentTypes ==
    /\ pc \in [Agent -> {"idle", "asking", "calling", "advanced", "checking", "ending"}]
    /\ kind \in [Agent -> {"contract", "implementation", "review"}]
    /\ round \in [Agent -> 0..MaxRounds]
    /\ calls \in [Agent -> 0..MaxCalls]
    /\ status \in [Agent -> {"ok", "needs_decision", "model_error"}]
    /\ diff \in [Agent -> SUBSET Change]
    /\ snapshot \in [Agent -> {"taken", "over", "never"}]
    /\ checks \in [Agent -> 0..MaxChecks]
    /\ verdict \in [Agent -> {"none", "ok", "bad", "unchecked"}]
    /\ repairs \in [Agent -> 0..MaxRepairs]
    /\ asked \in [Agent -> BOOLEAN] /\ stepped \in [Agent -> BOOLEAN]
    /\ tracked \in [Agent -> BOOLEAN] /\ failing \in [Agent -> BOOLEAN]
    /\ accepted \in [Agent -> BOOLEAN] /\ touched \in [Agent -> BOOLEAN]
    /\ spoilt \in [Agent -> BOOLEAN]

LEMMA TypeParts ==
    /\ TypeOK <=> RunnerTypeOK /\ AgentTypes
    /\ TypeOK' <=> RunnerTypeOK' /\ AgentTypes'
  BY DEF TypeOK, AgentTypes

LEMMA ChangesTypes ==
    ASSUME AgentTypes, NEW a \in Agent, NEW c \in SUBSET Change, Changes(a, c)
    PROVE  /\ diff' \in [Agent -> SUBSET Change]
           /\ snapshot' \in [Agent -> {"taken", "over", "never"}]
           /\ touched' \in [Agent -> BOOLEAN]
  <1>1. PICK s \in Sizes(a, c) : snapshot' = [snapshot EXCEPT ![a] = s]
    BY DEF Changes
  <1>2. s \in {"taken", "over", "never"}
    BY DEF Sizes, AgentTypes
  <1>3. snapshot' \in [Agent -> {"taken", "over", "never"}]
    BY <1>1, <1>2 DEF AgentTypes
  <1> QED BY <1>3 DEF Changes, AgentTypes

LEMMA LeavesTypes ==
    ASSUME AgentTypes, NEW a \in Agent, Leaves(a)
    PROVE  /\ diff' \in [Agent -> SUBSET Change]
           /\ snapshot' \in [Agent -> {"taken", "over", "never"}]
           /\ touched' \in [Agent -> BOOLEAN]
           /\ tracked' \in [Agent -> BOOLEAN]
  <1>1. PICK c \in SUBSET Change : Changes(a, c)
    BY DEF Leaves
  <1> QED BY <1>1, ChangesTypes DEF AgentTypes, Leaves

LEMMA DeliveredTypes ==
    ASSUME AgentTypes, NEW a \in Agent, NEW good \in BOOLEAN, Delivered(a, good),
           pc[a] = "calling" => calls[a] > 0,
           pc[a] # "calling" => checks[a] > 0
    PROVE  /\ calls' \in [Agent -> 0..MaxCalls] /\ stepped' \in [Agent -> BOOLEAN]
           /\ checks' \in [Agent -> 0..MaxChecks] /\ failing' \in [Agent -> BOOLEAN]
  <1>0. MaxCalls \in Nat /\ MaxChecks \in Nat
    BY AgentAssumption
  <1>1. CASE pc[a] = "calling"
    <2>1. calls' = [calls EXCEPT ![a] = @ - 1] /\ stepped' = [stepped EXCEPT ![a] = TRUE]
      BY <1>1 DEF Delivered, Executed
    <2>2. calls[a] - 1 \in 0..MaxCalls
      BY <1>0, <1>1 DEF AgentTypes
    <2> QED BY <1>1, <2>1, <2>2 DEF AgentTypes, Delivered
  <1>2. CASE pc[a] # "calling"
    <2>1. /\ checks' = [checks EXCEPT ![a] = @ - 1]
          /\ failing' = [failing EXCEPT ![a] = @ \/ ~good]
          /\ UNCHANGED <<calls, stepped>>
      BY <1>2 DEF Delivered
    <2>2. checks[a] - 1 \in 0..MaxChecks
      BY <1>0, <1>2 DEF AgentTypes
    <2>3. checks' \in [Agent -> 0..MaxChecks]
      BY <2>1, <2>2 DEF AgentTypes
    <2>4. failing' \in [Agent -> BOOLEAN]
      BY <2>1 DEF AgentTypes
    <2> QED BY <2>1, <2>3, <2>4 DEF AgentTypes
  <1> QED BY <1>1, <1>2

LEMMA StepTypes ==
    ASSUME AgentTypes, RunnerTypeOK, Places, NEW a \in Agent, Begin(a) \/ Step(a) \/ Exit(a)
    PROVE  AgentTypes'
  <1>0. MaxCalls \in Nat /\ MaxChecks \in Nat /\ MaxRounds \in Nat /\ MaxRepairs \in Nat
        /\ Kinds \subseteq {"contract", "implementation", "review"}
    BY AgentAssumption
  <1>1. CASE Begin(a)
    <2>1. PICK k \in Kinds : kind' = [kind EXCEPT ![a] = k]
      BY <1>1 DEF Begin
    <2>2. kind' \in [Agent -> {"contract", "implementation", "review"}]
      BY <1>0, <2>1 DEF AgentTypes
    <2>3. /\ pc' \in [Agent -> {"idle", "asking", "calling", "advanced", "checking", "ending"}]
          /\ status' \in [Agent -> {"ok", "needs_decision", "model_error"}]
          /\ diff' \in [Agent -> SUBSET Change]
          /\ snapshot' \in [Agent -> {"taken", "over", "never"}]
          /\ verdict' \in [Agent -> {"none", "ok", "bad", "unchecked"}]
      BY <1>1 DEF AgentTypes, Begin, Goto
    <2>4. /\ round' \in [Agent -> 0..MaxRounds] /\ calls' \in [Agent -> 0..MaxCalls]
          /\ checks' \in [Agent -> 0..MaxChecks] /\ repairs' \in [Agent -> 0..MaxRepairs]
      BY <1>0, <1>1 DEF AgentTypes, Begin
    <2>5. /\ asked' \in [Agent -> BOOLEAN] /\ stepped' \in [Agent -> BOOLEAN]
          /\ tracked' \in [Agent -> BOOLEAN] /\ failing' \in [Agent -> BOOLEAN]
          /\ accepted' \in [Agent -> BOOLEAN] /\ touched' \in [Agent -> BOOLEAN]
          /\ spoilt' \in [Agent -> BOOLEAN]
      BY <1>1 DEF AgentTypes, Begin
    <2> QED BY <2>2, <2>3, <2>4, <2>5 DEF AgentTypes
  <1>2. CASE Ask(a)
    <2>1. /\ round' \in [Agent -> 0..MaxRounds]
          /\ calls' \in [Agent -> 0..MaxCalls]
          /\ pc' \in [Agent -> {"idle", "asking", "calling", "advanced", "checking", "ending"}]
          /\ status' \in [Agent -> {"ok", "needs_decision", "model_error"}]
      BY <1>0, <1>2 DEF AgentTypes, Ask, AllowsTools, Goto
    <2> QED BY <1>2, <2>1 DEF AgentTypes, Ask, treeVars, checkVars
  <1>3. CASE Call(a)
    <2>1. calls' \in [Agent -> 0..MaxCalls] /\ stepped' \in [Agent -> BOOLEAN]
      BY <1>0, <1>3 DEF AgentTypes, Call, Executed
    <2>2. CASE UNCHANGED <<treeVars, asked>>
      BY <1>3, <2>1, <2>2 DEF AgentTypes, Call, checkVars, treeVars
    <2>3. CASE /\ \E c \in Change : Changes(a, {c})
               /\ tracked' = [tracked EXCEPT ![a] = TRUE]
               /\ UNCHANGED asked
      <3>1. PICK c \in Change : Changes(a, {c})
        BY <2>3
      <3>2. /\ diff' \in [Agent -> SUBSET Change] /\ touched' \in [Agent -> BOOLEAN]
            /\ snapshot' \in [Agent -> {"taken", "over", "never"}]
        BY <3>1, ChangesTypes
      <3> QED BY <1>3, <2>1, <2>3, <3>2 DEF AgentTypes, Call, checkVars
    <2>4. CASE asked' = [asked EXCEPT ![a] = TRUE] /\ UNCHANGED treeVars
      BY <1>3, <2>1, <2>4 DEF AgentTypes, Call, checkVars, treeVars
    <2> QED BY <1>3, <2>2, <2>3, <2>4 DEF Call
  <1>4. CASE CallCommand(a) \/ RunCheck(a)
    BY <1>4 DEF AgentTypes, CallCommand, RunCheck, agentVars, loopVars, checkVars, treeVars
  <1>5. CASE EndRound(a)
    BY <1>5 DEF AgentTypes, EndRound, Goto, treeVars, checkVars
  <1>6. CASE Advanced(a)
    <2>1. CASE ToCheck(a)
      <3>1. PICK n \in 0..MaxChecks :
              /\ checks' = [checks EXCEPT ![a] = n]
              /\ Goto(a, IF n = 0 THEN "ending" ELSE "checking")
              /\ verdict' = [verdict EXCEPT ![a] = IF n = 0 THEN "unchecked" ELSE @]
        BY <1>6, <2>1 DEF Advanced, BeginCheck
      <3>2. /\ checks' \in [Agent -> 0..MaxChecks]
            /\ pc' \in [Agent -> {"idle", "asking", "calling", "advanced", "checking", "ending"}]
            /\ verdict' \in [Agent -> {"none", "ok", "bad", "unchecked"}]
        BY <3>1 DEF AgentTypes, Goto
      <3>3. /\ failing' \in [Agent -> BOOLEAN] /\ spoilt' \in [Agent -> BOOLEAN]
            /\ touched' \in [Agent -> BOOLEAN]
        <4>1. /\ failing' = [failing EXCEPT ![a] = FALSE]
              /\ spoilt' = [spoilt EXCEPT ![a] = FALSE]
              /\ touched' = [touched EXCEPT ![a] = FALSE]
          BY <1>6, <2>1 DEF Advanced, BeginCheck
        <4> QED BY <4>1 DEF AgentTypes
      <3>4. UNCHANGED <<kind, round, calls, status, asked, stepped, tracked, diff, snapshot,
                        repairs, accepted>>
        BY <1>6, <2>1 DEF Advanced, BeginCheck, loopVars
      <3> QED BY <3>2, <3>3, <3>4 DEF AgentTypes
    <2>2. CASE ~ToCheck(a)
      BY <1>6, <2>2 DEF AgentTypes, Advanced, Goto, loopVars, checkVars
    <2> QED BY <2>1, <2>2
  <1>7. CASE Refused(a)
    BY <1>0, <1>7 DEF AgentTypes, Refused, loopVars, treeVars
  <1>8. CASE Conclude(a)
    <2>1. verdict' \in [Agent -> {"none", "ok", "bad", "unchecked"}]
      <3>1. verdict' = [verdict EXCEPT ![a] = IF failing[a] THEN "bad" ELSE "ok"]
        BY <1>8 DEF Conclude
      <3> QED BY <3>1 DEF AgentTypes
    <2>2. /\ pc' \in [Agent -> {"idle", "asking", "calling", "advanced", "checking", "ending"}]
          /\ stepped' \in [Agent -> BOOLEAN]
      <3>1. CASE failing[a] /\ MayRepair(a)
        <4>1. /\ pc' = [pc EXCEPT ![a] = "asking"]
              /\ stepped' = [stepped EXCEPT ![a] = FALSE]
          BY <1>8, <3>1 DEF Conclude, Goto
        <4> QED BY <4>1 DEF AgentTypes
      <3>2. CASE ~(failing[a] /\ MayRepair(a))
        BY <1>8, <3>2 DEF AgentTypes, Conclude, Goto
      <3> QED BY <3>1, <3>2
    <2>3. round' \in [Agent -> 0..MaxRounds] /\ repairs' \in [Agent -> 0..MaxRepairs]
      BY <1>0, <1>8 DEF AgentTypes, Conclude
    <2> QED BY <1>8, <2>1, <2>2, <2>3 DEF AgentTypes, Conclude, treeVars
  <1>9. CASE End(a)
    <2>1. PICK kept \in BOOLEAN, review \in {"none", "pass", "fail"} :
            accepted' = [accepted EXCEPT ![a] = Gate(a, kept, review)]
      BY <1>9 DEF End
    <2>2. accepted' \in [Agent -> BOOLEAN]
      BY <2>1 DEF AgentTypes, Gate
    <2> QED BY <1>9, <2>2 DEF AgentTypes, End, Goto, loopVars, treeVars, checkVars
  <1>10. CASE Running(a)
    BY <1>10 DEF AgentTypes, Running, agentVars, loopVars, checkVars, treeVars
  <1>11. CASE Expired(a) \/ Exit(a)
    <2>1. Leaves(a) /\ UNCHANGED <<pc, kind, loopVars, checkVars, accepted>>
      BY <1>11 DEF Expired, Exit
    <2> QED BY <2>1, LeavesTypes DEF AgentTypes, loopVars, checkVars
  <1>12. CASE GaveUp(a)
    <2>1. stage[a] # "none"
      BY <1>12 DEF GaveUp, Raises, In
    <2>2. /\ calls' \in [Agent -> 0..MaxCalls] /\ stepped' \in [Agent -> BOOLEAN]
          /\ checks' \in [Agent -> 0..MaxChecks] /\ failing' \in [Agent -> BOOLEAN]
      BY <1>12, <2>1, DeliveredTypes DEF GaveUp, Places, PlaceAt
    <2>3. spoilt' \in [Agent -> BOOLEAN]
      BY <1>12 DEF GaveUp, AgentTypes
    <2>4. Leaves(a) /\ UNCHANGED <<pc, kind, round, status, asked, verdict, repairs, accepted>>
      BY <1>12 DEF GaveUp
    <2> QED BY <2>2, <2>3, <2>4, LeavesTypes DEF AgentTypes
  <1>13. CASE Answered(a)
    <2>1. stage[a] # "none" /\ ok[a] \in BOOLEAN
      BY <1>13 DEF Answered, Retire, In, RunnerTypeOK
    <2>2. /\ calls' \in [Agent -> 0..MaxCalls] /\ stepped' \in [Agent -> BOOLEAN]
          /\ checks' \in [Agent -> 0..MaxChecks] /\ failing' \in [Agent -> BOOLEAN]
      BY <1>13, <2>1, DeliveredTypes DEF Answered, Places, PlaceAt
    <2>3. spoilt' \in [Agent -> BOOLEAN]
      BY <1>13 DEF Answered, AgentTypes, RunnerTypeOK
    <2> QED BY <1>13, <2>2, <2>3 DEF AgentTypes, Answered, treeVars
  <1> QED BY <1>1, <1>2, <1>3, <1>4, <1>5, <1>6, <1>7, <1>8, <1>9, <1>10, <1>11, <1>12,
         <1>13
          DEF Step

----------------------------------------------------------------------------
(* Where a command's thread and process are                                *)

LEMMA StepPlaces ==
    ASSUME AgentTypes, RunnerTypeOK, Places, NEW a \in Agent, Begin(a) \/ Step(a) \/ Exit(a)
    PROVE  Places'
  <1> SUFFICES ASSUME NEW b \in Agent PROVE PlaceAt(b)'
    BY DEF Places
  <1>0. /\ PlaceAt(a) /\ PlaceAt(b)
        /\ calls[b] \in Nat /\ checks[b] \in Nat
    BY AgentAssumption DEF Places, AgentTypes
  <1>t. /\ stage \in [Agent -> Stage] /\ proc \in [Agent -> {"none", "alive", "ended"}]
        /\ pc \in [Agent -> {"idle", "asking", "calling", "advanced", "checking", "ending"}]
        /\ calls \in [Agent -> 0..MaxCalls] /\ checks \in [Agent -> 0..MaxChecks]
    BY DEF AgentTypes, RunnerTypeOK
  <1>1. CASE Begin(a)
    BY <1>0, <1>t, <1>1 DEF PlaceAt, Begin, Goto, At, runnerVars, commandVars
  <1>2. CASE Ask(a)
    BY <1>0, <1>t, <1>2 DEF PlaceAt, Ask, Goto, At, checkVars, runnerVars, commandVars
  <1>3. CASE Call(a)
    BY <1>0, <1>t, <1>3 DEF PlaceAt, Call, Executed, At, checkVars, runnerVars, commandVars
  <1>4. CASE CallCommand(a)
    BY <1>0, <1>t, <1>4 DEF PlaceAt, CallCommand, At, Popen, Move, agentVars, loopVars,
           checkVars
  <1>5. CASE EndRound(a)
    BY <1>0, <1>t, <1>5 DEF PlaceAt, EndRound, Goto, At, checkVars, runnerVars, commandVars
  <1>6. CASE Advanced(a)
    BY <1>0, <1>t, <1>6 DEF PlaceAt, Advanced, BeginCheck, Goto, At, loopVars, checkVars,
           runnerVars, commandVars
  <1>7. CASE Refused(a)
    BY <1>0, <1>t, <1>7 DEF PlaceAt, Refused, At, loopVars, runnerVars, commandVars
  <1>8. CASE RunCheck(a)
    BY <1>0, <1>t, <1>8 DEF PlaceAt, RunCheck, At, Popen, Move, agentVars, loopVars,
           checkVars
  <1>9. CASE Conclude(a)
    BY <1>0, <1>t, <1>9 DEF PlaceAt, Conclude, Goto, At, runnerVars, commandVars
  <1>10. CASE End(a)
    BY <1>0, <1>t, <1>10 DEF PlaceAt, End, Goto, At, loopVars, checkVars, runnerVars,
           commandVars
  <1>11. CASE Running(a)
    BY <1>0, <1>t, <1>11 DEF PlaceAt, Running, Register, Returns, Expires, Answer, In,
           Move, agentVars, loopVars, checkVars
  <1>12. CASE Expired(a)
    BY <1>0, <1>t, <1>12 DEF PlaceAt, Expired, Terminate, Signalled, In, Move, loopVars,
           checkVars
  <1>13. CASE Exit(a)
    BY <1>0, <1>t, <1>13 DEF PlaceAt, Exit, Exits, loopVars, checkVars
  <1>14. CASE GaveUp(a)
    BY <1>0, <1>t, <1>14 DEF PlaceAt, GaveUp, Raises, Forget, Delivered, Executed, In, Move
  <1>15. CASE Answered(a)
    BY <1>0, <1>t, <1>15 DEF PlaceAt, Answered, Retire, Forget, Delivered, Executed, In,
           Move
  <1> QED BY <1>1, <1>2, <1>3, <1>4, <1>5, <1>6, <1>7, <1>8, <1>9, <1>10, <1>11, <1>12,
         <1>13, <1>14, <1>15 DEF Step

(* An answer is a plain 0.                                                 *)
LEMMA StepAnswers ==
    ASSUME AgentTypes, RunnerTypeOK, Places, Answers, NEW a \in Agent,
           Begin(a) \/ Step(a) \/ Exit(a)
    PROVE  Answers'
  <1> SUFFICES ASSUME NEW b \in Agent PROVE AnswerAt(b)'
    BY DEF Answers
  <1>0. PlaceAt(a) /\ PlaceAt(b) /\ AnswerAt(a) /\ AnswerAt(b) /\ AnswerAt(a) /\ AnswerAt(b)
    BY DEF Places, Answers, Answers
  <1>1. CASE Begin(a)
    BY <1>0, <1>1 DEF AgentTypes, RunnerTypeOK, PlaceAt, AnswerAt, Begin, Goto, At,
           runnerVars, commandVars
  <1>2. CASE Ask(a)
    BY <1>0, <1>2 DEF AgentTypes, RunnerTypeOK, PlaceAt, AnswerAt, Ask, Goto, At,
           checkVars, treeVars, runnerVars, commandVars
  <1>3. CASE Call(a)
    BY <1>0, <1>3 DEF AgentTypes, RunnerTypeOK, PlaceAt, AnswerAt, Call, Executed, At,
           Changes, checkVars, treeVars, runnerVars, commandVars
  <1>4. CASE CallCommand(a)
    BY <1>0, <1>4 DEF AgentTypes, RunnerTypeOK, PlaceAt, AnswerAt, CallCommand, At, Popen,
           Move, agentVars, loopVars, checkVars, treeVars
  <1>5. CASE EndRound(a)
    BY <1>0, <1>5 DEF AgentTypes, RunnerTypeOK, PlaceAt, AnswerAt, EndRound, Goto, At,
           checkVars, treeVars, runnerVars, commandVars
  <1>6. CASE Advanced(a)
    BY <1>0, <1>6 DEF AgentTypes, RunnerTypeOK, PlaceAt, AnswerAt, Advanced, BeginCheck,
           Goto, At, loopVars, checkVars, runnerVars, commandVars
  <1>7. CASE Refused(a)
    BY <1>0, <1>7 DEF AgentTypes, RunnerTypeOK, PlaceAt, AnswerAt, Refused, At, loopVars,
           treeVars, runnerVars, commandVars
  <1>8. CASE RunCheck(a)
    BY <1>0, <1>8 DEF AgentTypes, RunnerTypeOK, PlaceAt, AnswerAt, RunCheck, At, Popen,
           Move, agentVars, loopVars, checkVars, treeVars
  <1>9. CASE Conclude(a)
    BY <1>0, <1>9 DEF AgentTypes, RunnerTypeOK, PlaceAt, AnswerAt, Conclude, Goto, At,
           treeVars, runnerVars, commandVars
  <1>10. CASE End(a)
    BY <1>0, <1>10 DEF AgentTypes, RunnerTypeOK, PlaceAt, AnswerAt, End, Goto, At,
           loopVars, checkVars, treeVars, runnerVars, commandVars
  <1>11. CASE Running(a)
    <2>1. CASE Answer(a)
      <3>1. ok' = [ok EXCEPT ![a] = Succeeded(a)] /\ UNCHANGED <<zero, cancelled, timedOut>>
        BY <2>1 DEF Answer
      <3>2. CASE b = a
        BY <3>1, <3>2 DEF RunnerTypeOK, AnswerAt, Succeeded
      <3>3. CASE b # a
        BY <1>0, <2>1, <3>1, <3>3 DEF RunnerTypeOK, AnswerAt, Answer, Move
      <3> QED BY <3>2, <3>3
    <2>2. CASE Register(a) \/ Returns(a) \/ Expires(a)
      BY <1>0, <2>2 DEF RunnerTypeOK, AnswerAt, Register, Returns, Expires, In, Move
    <2> QED BY <1>11, <2>1, <2>2 DEF Running
  <1>12. CASE Expired(a)
    BY <1>0, <1>12 DEF AgentTypes, RunnerTypeOK, PlaceAt, AnswerAt, Expired, Terminate,
           Signalled, Leaves, Changes, In, Move, loopVars, checkVars
  <1>13. CASE Exit(a)
    BY <1>0, <1>13 DEF AgentTypes, RunnerTypeOK, PlaceAt, AnswerAt, Exit, Exits, Leaves,
           Changes, loopVars, checkVars
  <1>14. CASE GaveUp(a)
    BY <1>0, <1>14 DEF AgentTypes, RunnerTypeOK, PlaceAt, AnswerAt, GaveUp, Raises, Forget,
           Delivered, Executed, Leaves, Changes, In, Move
  <1>15. CASE Answered(a)
    BY <1>0, <1>15 DEF AgentTypes, RunnerTypeOK, PlaceAt, AnswerAt, Answered, Retire,
           Forget, Delivered, Executed, In, Move, treeVars
  <1> QED BY <1>1, <1>2, <1>3, <1>4, <1>5, <1>6, <1>7, <1>8, <1>9, <1>10, <1>11, <1>12,
       <1>13, <1>14, <1>15 DEF Step


(* A passing verdict is earned.                                            *)
LEMMA StepVerdicts ==
    ASSUME AgentTypes, RunnerTypeOK, Places, Answers, Verdicts,
           NEW a \in Agent,
           Begin(a) \/ Step(a) \/ Exit(a)
    PROVE  Verdicts'
  <1> SUFFICES ASSUME NEW b \in Agent PROVE VerdictAt(b)'
    BY DEF Verdicts
  <1>0. PlaceAt(a) /\ PlaceAt(b) /\ AnswerAt(a) /\ AnswerAt(b) /\ VerdictAt(a) /\ VerdictAt(b)
    BY DEF Places, Answers, Verdicts
  <1>1. CASE Begin(a)
    BY <1>0, <1>1 DEF AgentTypes, RunnerTypeOK, PlaceAt, AnswerAt, VerdictAt, Begin, Goto,
           At, runnerVars, commandVars
  <1>2. CASE Ask(a)
    BY <1>0, <1>2 DEF AgentTypes, RunnerTypeOK, PlaceAt, AnswerAt, VerdictAt, Ask, Goto,
           At, checkVars, treeVars, runnerVars, commandVars
  <1>3. CASE Call(a)
    <2>1. pc[a] = "calling" /\ UNCHANGED <<pc, failing, spoilt, verdict>>
      BY <1>3 DEF Call, At, checkVars
    <2>2. \A v \in Agent : v # a => touched'[v] = touched[v]
      BY <1>3 DEF AgentTypes, Call, Changes, treeVars
    <2> QED BY <1>0, <2>1, <2>2 DEF VerdictAt
  <1>4. CASE CallCommand(a)
    BY <1>0, <1>4 DEF AgentTypes, RunnerTypeOK, PlaceAt, AnswerAt, VerdictAt, CallCommand,
           At, Popen, Move, agentVars, loopVars, checkVars, treeVars
  <1>5. CASE EndRound(a)
    BY <1>0, <1>5 DEF AgentTypes, RunnerTypeOK, PlaceAt, AnswerAt, VerdictAt, EndRound,
           Goto, At, checkVars, treeVars, runnerVars, commandVars
  <1>6. CASE Advanced(a)
    BY <1>0, <1>6 DEF AgentTypes, RunnerTypeOK, PlaceAt, AnswerAt, VerdictAt, Advanced,
           BeginCheck, Goto, At, loopVars, checkVars, runnerVars, commandVars
  <1>7. CASE Refused(a)
    BY <1>0, <1>7 DEF AgentTypes, RunnerTypeOK, PlaceAt, AnswerAt, VerdictAt, Refused, At,
           loopVars, treeVars, runnerVars, commandVars
  <1>8. CASE RunCheck(a)
    BY <1>0, <1>8 DEF AgentTypes, RunnerTypeOK, PlaceAt, AnswerAt, VerdictAt, RunCheck, At,
           Popen, Move, agentVars, loopVars, checkVars, treeVars
  <1>9. CASE Conclude(a)
    BY <1>0, <1>9 DEF AgentTypes, RunnerTypeOK, PlaceAt, AnswerAt, VerdictAt, Conclude,
           Goto, At, treeVars, runnerVars, commandVars
  <1>10. CASE End(a)
    BY <1>0, <1>10 DEF AgentTypes, RunnerTypeOK, PlaceAt, AnswerAt, VerdictAt, End, Goto,
           At, loopVars, checkVars, treeVars, runnerVars, commandVars
  <1>11. CASE Running(a)
    BY <1>0, <1>11 DEF AgentTypes, RunnerTypeOK, PlaceAt, AnswerAt, VerdictAt, Running,
           Register, Returns, Expires, Answer, Succeeded, In, Move, agentVars, loopVars,
           checkVars, treeVars
  <1>12. CASE Expired(a)
    BY <1>0, <1>12 DEF AgentTypes, RunnerTypeOK, PlaceAt, AnswerAt, VerdictAt, Expired,
           Terminate, Signalled, Leaves, Changes, In, Move, loopVars, checkVars
  <1>13. CASE Exit(a)
    BY <1>0, <1>13 DEF AgentTypes, RunnerTypeOK, PlaceAt, AnswerAt, VerdictAt, Exit, Exits,
           Leaves, Changes, loopVars, checkVars
  <1>14. CASE GaveUp(a)
    <2>1. CASE b # a
      BY <1>0, <1>14, <2>1 DEF AgentTypes, VerdictAt, GaveUp, Delivered, Executed, Leaves,
             Changes
    <2>2. CASE b = a /\ pc[a] = "calling"
      BY <1>0, <1>14, <2>2 DEF AgentTypes, VerdictAt, GaveUp
    <2>3. CASE b = a /\ pc[a] = "checking"
      <3>1. failing' = [failing EXCEPT ![a] = @ \/ ~FALSE]
        BY <1>14, <2>3 DEF GaveUp, Delivered
      <3>2. failing'[a]
        BY <3>1 DEF AgentTypes
      <3>3. PICK c \in SUBSET Change : Changes(a, c)
        BY <1>14 DEF GaveUp, Leaves
      <3>4. ~touched'[a]
        BY <1>0, <2>3, <3>3 DEF AgentTypes, VerdictAt, Changes
      <3> QED BY <1>0, <1>14, <2>3, <3>2, <3>4 DEF VerdictAt, GaveUp
    <2>4. pc[a] \in {"calling", "checking"}
      BY <1>0, <1>14 DEF PlaceAt, GaveUp, Raises, In
    <2> QED BY <2>1, <2>2, <2>3, <2>4
  <1>15. CASE Answered(a)
    BY <1>0, <1>15 DEF AgentTypes, RunnerTypeOK, PlaceAt, AnswerAt, VerdictAt, Answered,
           Retire, Forget, Delivered, Executed, In, Move, treeVars
  <1> QED BY <1>1, <1>2, <1>3, <1>4, <1>5, <1>6, <1>7, <1>8, <1>9, <1>10, <1>11, <1>12,
       <1>13, <1>14, <1>15 DEF Step


(* A verdict is of the files as they are, or the bad one of a repair cut   *)
(* short.                                                                  *)
LEMMA StepCurrent ==
    ASSUME AgentTypes, RunnerTypeOK, Places, Verdicts, Current,
           NEW a \in Agent,
           Begin(a) \/ Step(a) \/ Exit(a)
    PROVE  Current'
  <1> SUFFICES ASSUME NEW b \in Agent PROVE CurrentAt(b)'
    BY DEF Current
  <1>0. PlaceAt(a) /\ PlaceAt(b) /\ VerdictAt(a) /\ VerdictAt(b) /\ CurrentAt(a) /\ CurrentAt(b)
    BY DEF Places, Verdicts, Current
  <1>1. CASE Begin(a)
    BY <1>0, <1>1 DEF AgentTypes, RunnerTypeOK, PlaceAt, VerdictAt, CurrentAt,
           ToCheck, Begin, Goto, At, runnerVars, commandVars
  <1>2. CASE Ask(a)
    BY <1>0, <1>2 DEF AgentTypes, RunnerTypeOK, PlaceAt, VerdictAt, CurrentAt,
           ToCheck, Ask, Goto, At, checkVars, treeVars, runnerVars, commandVars
  <1>3. CASE Call(a)
    <2>1. pc[a] = "calling" /\ UNCHANGED <<pc, status, repairs, verdict>>
      BY <1>3 DEF Call, At, checkVars
    <2>2. /\ stepped'[a]
          /\ \A v \in Agent : v # a => calls'[v] = calls[v] /\ stepped'[v] = stepped[v]
      BY <1>3 DEF AgentTypes, Call, Executed
    <2>3. \A v \in Agent : v # a => touched'[v] = touched[v]
      BY <1>3 DEF AgentTypes, Call, Changes, treeVars
    <2> QED BY <1>0, <2>1, <2>2, <2>3 DEF CurrentAt
  <1>4. CASE CallCommand(a)
    BY <1>0, <1>4 DEF AgentTypes, RunnerTypeOK, PlaceAt, VerdictAt, CurrentAt,
           ToCheck, CallCommand, At, Popen, Move, agentVars, loopVars, checkVars, treeVars
  <1>5. CASE EndRound(a)
    BY <1>0, <1>5 DEF AgentTypes, RunnerTypeOK, PlaceAt, VerdictAt, CurrentAt,
           ToCheck, EndRound, Goto, At, checkVars, treeVars, runnerVars, commandVars
  <1>6. CASE Advanced(a)
    BY <1>0, <1>6 DEF AgentTypes, RunnerTypeOK, PlaceAt, VerdictAt, CurrentAt,
           ToCheck, Advanced, BeginCheck, Goto, At, loopVars, checkVars, runnerVars,
           commandVars
  <1>7. CASE Refused(a)
    BY <1>0, <1>7 DEF AgentTypes, RunnerTypeOK, PlaceAt, VerdictAt, CurrentAt,
           ToCheck, Refused, At, loopVars, treeVars, runnerVars, commandVars
  <1>8. CASE RunCheck(a)
    BY <1>0, <1>8 DEF AgentTypes, RunnerTypeOK, PlaceAt, VerdictAt, CurrentAt,
           ToCheck, RunCheck, At, Popen, Move, agentVars, loopVars, checkVars, treeVars
  <1>9. CASE Conclude(a)
    <2>1. ~touched[a] /\ UNCHANGED <<status, calls, touched>>
      BY <1>0, <1>9 DEF VerdictAt, Conclude, At, treeVars
    <2>2. \A v \in Agent : v # a => /\ pc'[v] = pc[v] /\ verdict'[v] = verdict[v]
                                    /\ repairs'[v] = repairs[v] /\ stepped'[v] = stepped[v]
      BY <1>9 DEF AgentTypes, Conclude, Goto
    <2>3. \/ pc'[a] = "ending"
          \/ pc'[a] = "asking" /\ verdict'[a] = "bad" /\ repairs'[a] > 0
      <3>1. verdict'[a] = IF failing[a] THEN "bad" ELSE "ok"
        BY <1>9 DEF AgentTypes, Conclude
      <3>2. CASE failing[a] /\ MayRepair(a)
        <4>1. repairs' = [repairs EXCEPT ![a] = IF @ < MaxRepairs THEN @ + 1 ELSE @]
          BY <1>9, <3>2 DEF Conclude
        <4>2. repairs'[a] = repairs[a] + 1 /\ repairs[a] \in Nat
          BY <3>2, <4>1, AgentAssumption DEF AgentTypes, MayRepair
        <4>3. pc'[a] = "asking"
          BY <1>9, <3>2 DEF AgentTypes, Conclude, Goto
        <4> QED BY <3>1, <3>2, <4>2, <4>3
      <3>3. CASE ~(failing[a] /\ MayRepair(a))
        BY <1>9, <3>3 DEF AgentTypes, Conclude, Goto
      <3> QED BY <3>2, <3>3
    <2> QED BY <1>0, <2>1, <2>2, <2>3 DEF CurrentAt
  <1>10. CASE End(a)
    BY <1>0, <1>10 DEF AgentTypes, RunnerTypeOK, PlaceAt, VerdictAt, CurrentAt,
           ToCheck, End, Goto, At, loopVars, checkVars, treeVars, runnerVars, commandVars
  <1>11. CASE Running(a)
    BY <1>0, <1>11 DEF AgentTypes, RunnerTypeOK, PlaceAt, VerdictAt, CurrentAt,
           ToCheck, Running, Register, Returns, Expires, Answer, Succeeded, In, Move,
           agentVars, loopVars, checkVars, treeVars
  <1>12. CASE Expired(a)
    BY <1>0, <1>12 DEF AgentTypes, RunnerTypeOK, PlaceAt, VerdictAt, CurrentAt,
           ToCheck, Expired, Terminate, Signalled, Leaves, Changes, In, Move, loopVars,
           checkVars
  <1>13. CASE Exit(a)
    BY <1>0, <1>13 DEF AgentTypes, RunnerTypeOK, PlaceAt, VerdictAt, CurrentAt,
           ToCheck, Exit, Exits, Leaves, Changes, loopVars, checkVars
  <1>14. CASE GaveUp(a)
    BY <1>0, <1>14 DEF AgentTypes, RunnerTypeOK, PlaceAt, VerdictAt, CurrentAt,
           ToCheck, GaveUp, Raises, Forget, Delivered, Executed, Leaves, Changes, In, Move
  <1>15. CASE Answered(a)
    BY <1>0, <1>15 DEF AgentTypes, RunnerTypeOK, PlaceAt, VerdictAt, CurrentAt,
           ToCheck, Answered, Retire, Forget, Delivered, Executed, In, Move, treeVars
  <1> QED BY <1>1, <1>2, <1>3, <1>4, <1>5, <1>6, <1>7, <1>8, <1>9, <1>10, <1>11, <1>12,
       <1>13, <1>14, <1>15 DEF Step

----------------------------------------------------------------------------
(* Cancellers and crashes                                                  *)

(* A canceller flags and signals commands that have not been answered, and *)
(* what their processes leave is no tool's doing once checks run.          *)
LEMMA CancelKeeps ==
    ASSUME TypeInv, Places, Answers, Verdicts, Current, NEW k \in Canceller, Cancel(k)
    PROVE  TypeInv' /\ Places' /\ Answers' /\ Verdicts' /\ Current'
  <1>t. AgentTypes /\ RunnerTypeOK /\ OneVictim
    BY TypeParts DEF TypeInv
  <1>a. UNCHANGED agentVars
    BY DEF Cancel
  <1>1. CASE Flag(k)
    <2>1. RunnerTypeOK' /\ OneVictim'
      BY <1>t, <1>1, CancellerTypes
    <2>2. PICK a \in Agent :
            IF Cancellable(a) THEN cancelled' = [cancelled EXCEPT ![a] = TRUE]
                              ELSE UNCHANGED cancelled
      BY <1>t, <1>1 DEF Flag, RunnerTypeOK
    <2>3. UNCHANGED <<stage, proc, zero, timedOut, ok>>
      BY <1>1 DEF Flag
    <2>4. Answers'
      <3> SUFFICES ASSUME NEW b \in Agent PROVE AnswerAt(b)'
        BY DEF Answers
      <3>1. CASE Cancellable(a) /\ b = a
        BY <2>3, <3>1 DEF Cancellable, AnswerAt
      <3>2. CASE ~(Cancellable(a) /\ b = a)
        BY <1>t, <2>2, <2>3, <3>2 DEF Answers, AnswerAt, RunnerTypeOK
      <3> QED BY <3>1, <3>2
    <2> QED BY <1>t, <1>a, <2>1, <2>3, <2>4, TypeParts DEF TypeInv, AgentTypes, agentVars,
               loopVars, checkVars, treeVars, Places, PlaceAt, Verdicts, VerdictAt, Current,
               CurrentAt
  <1>2. CASE \E ids \in SUBSET Agent : CancelAll(k, ids)
    <2>1. RunnerTypeOK' /\ OneVictim'
      BY <1>t, <1>2, CancellerTypes
    <2>2. UNCHANGED commandVars
      BY <1>2 DEF CancelAll
    <2> QED BY <1>t, <1>a, <2>1, <2>2, TypeParts DEF TypeInv, AgentTypes, agentVars,
               commandVars, loopVars, checkVars, treeVars, Places, PlaceAt, Answers, AnswerAt,
               Verdicts, VerdictAt, Current, CurrentAt
  <1> QED
    <2>1. Active \in SUBSET Agent
      BY DEF Active
    <2> QED BY <1>1, <1>2, <2>1 DEF Cancel

LEMMA SignalKeeps ==
    ASSUME TypeInv, Places, Answers, Verdicts, Current, NEW k \in Canceller, Signal(k)
    PROVE  TypeInv' /\ Places' /\ Answers' /\ Verdicts' /\ Current'
  <1>t. AgentTypes /\ RunnerTypeOK /\ OneVictim
    BY TypeParts DEF TypeInv
  <1>1. PICK a \in Agent : victim[k] = {a}
    BY <1>t DEF Signal, Kill, OneVictim
  <1>2. Signalled(a) /\ Leaves(a)
    BY <1>1 DEF Signal, Kill
  <1>3. UNCHANGED <<stage, cancelled, timedOut, ok, pc, kind, loopVars, checkVars, accepted>>
    BY DEF Signal, Kill
  <1>4. TypeInv'
    <2>1. RunnerTypeOK' /\ OneVictim'
      BY <1>t, CancellerTypes DEF Signal
    <2>2. AgentTypes'
      BY <1>t, <1>2, <1>3, LeavesTypes DEF AgentTypes, loopVars, checkVars
    <2> QED BY <2>1, <2>2, TypeParts DEF TypeInv
  <1>5. Places'
    BY <1>t, <1>2, <1>3 DEF Signalled, RunnerTypeOK, Places, PlaceAt, loopVars, checkVars
  <1>6. Answers'
    BY <1>t, <1>2, <1>3 DEF Signalled, RunnerTypeOK, Places, PlaceAt, Answers, AnswerAt
  <1>7. PICK c \in SUBSET Change :
          /\ Changes(a, c) /\ UNCHANGED tracked
          /\ c # {} => proc[a] = "alive"
    BY <1>2 DEF Leaves
  <1>8. ASSUME NEW b \in Agent PROVE VerdictAt(b)'
    BY <1>t, <1>3, <1>7 DEF AgentTypes, Changes, Verdicts, VerdictAt, checkVars
  <1>9. ASSUME NEW b \in Agent PROVE CurrentAt(b)'
    <2>1. c # {} => pc[a] \in {"calling", "checking"}
      BY <1>7 DEF Places, PlaceAt
    <2>2. touched' = [touched EXCEPT ![a] = @ \/ (c # {} /\ pc[a] = "calling")]
      BY <1>7 DEF Changes
    <2>3. pc[b] # "calling" => touched'[b] = touched[b]
      BY <1>t, <2>1, <2>2 DEF AgentTypes
    <2> QED BY <1>3, <1>7, <2>3 DEF Current, CurrentAt, loopVars, checkVars
  <1> QED BY <1>4, <1>5, <1>6, <1>8, <1>9 DEF Verdicts, Current

LEMMA Resets ==
    /\ Init => TypeInv /\ Places /\ Answers /\ Verdicts /\ Current
    /\ RunnerTypeOK /\ Crash => TypeInv' /\ Places' /\ Answers' /\ Verdicts' /\ Current'
  <1>0. 0 \in 0..MaxRounds /\ 0 \in 0..MaxCalls /\ 0 \in 0..MaxChecks /\ 0 \in 0..MaxRepairs
    BY AgentAssumption
  <1>1. ASSUME Init PROVE TypeInv /\ Places /\ Answers /\ Verdicts /\ Current
    <2>1. RunnerTypeOK /\ OneVictim
      BY <1>1, RestTypes DEF Init
    <2>2. AgentTypes
      BY <1>0, <1>1 DEF Init, AgentTypes, Zero, Never
    <2>3. Places /\ Answers
      BY <1>1 DEF Init, RunnerInit, Places, PlaceAt, Answers, AnswerAt
    <2>4. Verdicts /\ Current
      BY <1>1 DEF Init, Verdicts, VerdictAt, Current, CurrentAt, Zero, Never
    <2> QED BY <2>1, <2>2, <2>3, <2>4, TypeParts DEF TypeInv
  <1>2. ASSUME RunnerTypeOK, Crash
        PROVE  TypeInv' /\ Places' /\ Answers' /\ Verdicts' /\ Current'
    <2>1. RunnerTypeOK' /\ OneVictim'
      BY <1>2, RestTypes DEF Crash
    <2>2. AgentTypes'
      BY <1>0, <1>2 DEF Crash, AgentTypes, Zero, Never
    <2>3. Places' /\ Answers'
      BY <1>2 DEF Crash, Die, Places, PlaceAt, Answers, AnswerAt
    <2>4. Verdicts' /\ Current'
      BY <1>2 DEF Crash, Verdicts, VerdictAt, Current, CurrentAt, Zero, Never
    <2> QED BY <2>1, <2>2, <2>3, <2>4, TypeParts DEF TypeInv
  <1> QED BY <1>1, <1>2

LEMMA StepTypeInv ==
    ASSUME TypeInv, Places, NEW a \in Agent, Begin(a) \/ Step(a) \/ Exit(a)
    PROVE  TypeInv'
  <1>t. AgentTypes /\ RunnerTypeOK /\ OneVictim
    BY TypeParts DEF TypeInv
  <1>1. AgentTypes'
    BY <1>t, StepTypes
  <1>2. CASE UNCHANGED runnerVars
    BY <1>t, <1>1, <1>2, TypeParts
       DEF TypeInv, RunnerTypeOK, OneVictim, runnerVars, commandVars, cancelVars
  <1>3. CASE \/ Popen(a) \/ Register(a) \/ Exits(a) \/ Returns(a) \/ Expires(a)
             \/ Terminate(a) \/ Raises(a) \/ Answer(a) \/ Retire(a)
    BY <1>t, <1>1, <1>3, RunnerTypes, TypeParts DEF TypeInv
  <1>4. UNCHANGED runnerVars \/ Popen(a) \/ Register(a) \/ Exits(a) \/ Returns(a)
          \/ Expires(a) \/ Terminate(a) \/ Raises(a) \/ Answer(a) \/ Retire(a)
    BY DEF Begin, Step, Ask, Call, CallCommand, EndRound, Advanced, Refused, RunCheck, Conclude,
           End, Running, Expired, Exit, GaveUp, Answered
  <1> QED BY <1>2, <1>3, <1>4

----------------------------------------------------------------------------
IInv == TypeInv /\ Places /\ Answers /\ Verdicts /\ Current

LEMMA Stuttering == IInv /\ UNCHANGED vars => IInv'
  <1> SUFFICES ASSUME IInv, UNCHANGED vars PROVE IInv'
    OBVIOUS
  <1>1. TypeInv'
    BY TypeParts DEF IInv, TypeInv, vars, agentVars, loopVars, checkVars, treeVars, runnerVars,
       commandVars, cancelVars, RunnerTypeOK, AgentTypes, OneVictim
  <1>2. Places' /\ Answers' /\ Verdicts' /\ Current'
    BY DEF IInv, vars, agentVars, loopVars, checkVars, treeVars, runnerVars, commandVars, Places,
       PlaceAt, Answers, AnswerAt, Verdicts, VerdictAt, Current, CurrentAt
  <1> QED BY <1>1, <1>2 DEF IInv

(* The strengthening is inductive: it holds when the kernel starts, and    *)
(* every step of CodingAgentService.run, of the runner's threads, of a     *)
(* canceller and of a crash preserves it.                                  *)
THEOREM Invariant == Spec => []IInv
  <1>1. Init => IInv
    BY Resets DEF IInv
  <1>2. IInv /\ [Next]_vars => IInv'
    <2> SUFFICES ASSUME IInv, [Next]_vars PROVE IInv'
      OBVIOUS
    <2>t. AgentTypes /\ RunnerTypeOK
      BY TypeParts DEF IInv, TypeInv
    <2>1. ASSUME NEW a \in Agent, Begin(a) \/ Step(a) \/ Exit(a) PROVE IInv'
      BY <2>t, <2>1, StepTypeInv, StepPlaces, StepAnswers, StepVerdicts, StepCurrent DEF IInv
    <2>2. ASSUME NEW k \in Canceller, Cancel(k) \/ Signal(k) PROVE IInv'
      BY <2>2, CancelKeeps, SignalKeeps DEF IInv
    <2>3. CASE Crash
      BY <2>t, <2>3, Resets DEF IInv
    <2>4. CASE UNCHANGED vars
      BY <2>4, Stuttering
    <2> QED BY <2>1, <2>2, <2>3, <2>4 DEF Next
  <1> QED BY <1>1, <1>2, PTL DEF Spec

(* Every variable of the agents and of the runner keeps its type, whatever *)
(* the model calls and however commands end, are cancelled or outlive it.  *)
THEOREM TypeCorrect == Spec => []TypeOK
  <1>1. IInv => TypeOK
    BY DEF IInv, TypeInv
  <1> QED BY <1>1, Invariant, PTL

(* The verdict ok of _run_verification is never given, nor left standing,  *)
(* for files a tool changed since, or with a command that did not run to a *)
(* plain 0: no cancellation, signal, timeout or repair round earns it.     *)
THEOREM PassesAreEarned == Spec => []PassIsEarned
  <1>1. IInv => PassIsEarned
    BY DEF IInv, Verdicts, VerdictAt, PassIsEarned
  <1> QED BY <1>1, Invariant, PTL

(* No verdict of a run that ended is stale, but the bad one of a repair    *)
(* that stopped with a question or an error: whatever is changed after a   *)
(* check of any outcome is checked again, for any budgets and cancellers.  *)
THEOREM VerdictsAreCurrent == Spec => []VerdictIsCurrent
  <1>1. IInv => VerdictIsCurrent
    BY DEF IInv, Current, CurrentAt, VerdictIsCurrent
  <1> QED BY <1>1, Invariant, PTL

(* cancel() answered True means that the command is not answered ok, for   *)
(* any number of cancellers and at any moment the process ends.            *)
THEOREM CancellationsHonoured == Spec => []CancelHonoured
  <1>1. IInv => CancelHonoured
    BY DEF IInv, Answers, AnswerAt, CancelHonoured
  <1> QED BY <1>1, Invariant, PTL
=============================================================================
