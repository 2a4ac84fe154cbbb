--------------------------- MODULE OperatorProofs ---------------------------
(***************************************************************************)
(* Operator for every set of decisions, callers and rollbacks.             *)
(*                                                                         *)
(* The argument: the consumed token is the right to execute.  Consumption  *)
(* is a compare-and-set, so at most one caller ever holds a decision       *)
(* (SoleHolder), and until that caller starts the tool nobody has          *)
(* (StartedOnlyByHolder).  Execution records play no part in it.           *)
(***************************************************************************)
EXTENDS Operator, TLAPS

\* Only an approved decision ever gets a token.
TokenOfApproved == \A d \in Decisions : token[d] # "absent" => d \in Approved

\* Callers past consumption have a used token, and no other caller shares it.
SoleHolder ==
  /\ \A c \in Callers : pc[c] \in Holding => token[DecisionOf[c]] = "used"
  /\ \A b, c \in Callers :
       pc[b] \in Holding /\ pc[c] \in Holding /\ DecisionOf[b] = DecisionOf[c] => b = c

\* No start precedes the claim, nor the holder's own step.
StartedOnlyByHolder ==
  /\ \A d \in Decisions : token[d] # "used" => invocations[d] = 0
  /\ \A c \in Callers :
       pc[c] \in {"lookup", "create", "acquire", "limit"} => invocations[DecisionOf[c]] = 0

\* A request on its way has been started once and has not acted yet; there is one
\* per decision.
OneRequest ==
  /\ \A c \in inflight : invocations[DecisionOf[c]] = 1 /\ effects[DecisionOf[c]] = 0
  /\ \A b, c \in inflight : DecisionOf[b] = DecisionOf[c] => b = c

\* An awaited request that is no longer on its way has acted; so has one that
\* answered SUCCESS.
AwaitedLanded ==
  \A c \in Callers :
    /\ pc[c] = "await" /\ c \notin inflight => effects[DecisionOf[c]] = 1
    /\ pc[c] = "finalize" /\ result[c] = "SUCCESS" => effects[DecisionOf[c]] = 1

\* Whatever the record, its transaction id or a reconciliation sweep's list says
\* was done, was done.
EvidenceOfEffect ==
  \A d \in Decisions :
    status[d] = "COMPLETED" \/ d \in txn \/ d \in fixes => effects[d] = 1

\* The EXECUTING row is written before the caller may start the tool.
RowBeforeStart ==
  /\ IntentRecorded
  /\ \A c \in Callers :
       pc[c] = "limit" => status[DecisionOf[c]] \notin {"absent", "PENDING"}

Inv ==
  /\ TypeOK
  /\ TokenOfApproved
  /\ SoleHolder
  /\ StartedOnlyByHolder
  /\ AtMostOnce
  /\ OneRequest
  /\ AwaitedLanded
  /\ EvidenceOfEffect
  /\ RowBeforeStart

-----------------------------------------------------------------------------
\* The initial state satisfies the inductive invariant.
LEMMA InitInv == Init => Inv
  BY OperatorAssumption
     DEF Init, Inv, TypeOK, TokenOfApproved, SoleHolder, StartedOnlyByHolder, AtMostOnce,
     OneRequest,
         AwaitedLanded, EvidenceOfEffect, RowBeforeStart, IntentRecorded, Holding,
         CallerPc, RecordStatus

\* Every step keeps each variable in its type.
LEMMA TypeStep == TypeOK /\ [Next]_vars => TypeOK'
<1> SUFFICES ASSUME TypeOK, [Next]_vars PROVE TypeOK'
  OBVIOUS
<1> USE OperatorAssumption
    DEF TypeOK, CallerPc, Active, Holding, RecordStatus, tokenVars, recordVars,
        workerVars, historyVars, Goto
<1>1. ASSUME NEW c \in Callers, CallerStep(c) PROVE TypeOK'
  <2> DEFINE d == DecisionOf[c]
  <2>0. d \in Decisions
    OBVIOUS
  <2>1. CASE Call(c)
    BY <2>1 DEF Call
  <2>2. CASE Validate(c)
    BY <2>2 DEF Validate
  <2>3. CASE Consume(c)
    BY <2>0, <2>3 DEF Consume
  <2>4. CASE Lookup(c)
    BY <2>4 DEF Lookup, AfterRead
  <2>5. CASE Create(c)
    BY <2>5 DEF Create
  <2>6. CASE Acquire(c)
    BY <2>6 DEF Acquire
  <2>7. CASE RefuseRate(c)
    BY <2>7 DEF RefuseRate
  <2>8. CASE StartTool(c)
    BY <2>8 DEF StartTool
  <2>9. CASE MarkUnknown(c)
    BY <2>9 DEF MarkUnknown
  <2>10. CASE Land(c)
    BY <2>10 DEF Land
  <2>11. CASE ToolAnswers(c)
    BY <2>11 DEF ToolAnswers
  <2>12. CASE Timeout(c)
    BY <2>12 DEF Timeout
  <2>13. CASE Finalize(c)
    BY <2>13 DEF Finalize, FinalStatus
  <2>14. CASE AuditReport(c)
    BY <2>14 DEF AuditReport
  <2>15. CASE DatabaseError(c)
    BY <2>15 DEF DatabaseError
  <2>16. CASE Abort(c)
    BY <2>16 DEF Abort
  <2>17. CASE Crash(c)
    BY <2>17 DEF Crash
  <2> QED
    BY <1>1, <2>1, <2>2, <2>3, <2>4, <2>5, <2>6, <2>7, <2>8, <2>9, <2>10, <2>11,
       <2>12, <2>13, <2>14, <2>15, <2>16, <2>17 DEF CallerStep
<1>2. ASSUME NEW d \in Decisions, DecisionStep(d) PROVE TypeOK'
  <2>1. CASE MintToken(d)
    BY <2>1 DEF MintToken
  <2>2. CASE ExpireToken(d)
    BY <2>2 DEF ExpireToken
  <2>3. CASE GoStale(d)
    BY <2>3 DEF GoStale
  <2>4. CASE GhostForce(d)
    BY <2>4 DEF GhostForce
  <2>5. CASE ReconcileFix(d)
    BY <2>5 DEF ReconcileFix
  <2> QED
    BY <1>2, <2>1, <2>2, <2>3, <2>4, <2>5 DEF DecisionStep
<1>3. ASSUME NEW r \in Rollbacks, RollbackStep(r) PROVE TypeOK'
  <2>1. CASE RollbackStart(r)
    BY <2>1 DEF RollbackStart
  <2>2. CASE RollbackTool(r)
    BY <2>2 DEF RollbackTool
  <2>3. CASE RollbackRecord(r)
    BY <2>3 DEF RollbackRecord
  <2>4. CASE RollbackFail(r)
    BY <2>4 DEF RollbackFail
  <2> QED
    BY <1>3, <2>1, <2>2, <2>3, <2>4 DEF RollbackStep
<1>4. CASE RestartWithNewKeys
  BY <1>4 DEF RestartWithNewKeys
<1>5. CASE GhostScan
  BY <1>5 DEF GhostScan, Stuck
<1>6. CASE ReconcileScan
  BY <1>6 DEF ReconcileScan, Fixable
<1>7. CASE ReconcileFail
  BY <1>7 DEF ReconcileFail
<1>8. CASE UNCHANGED vars
  BY <1>8 DEF vars
<1> QED
  BY <1>1, <1>2, <1>3, <1>4, <1>5, <1>6, <1>7, <1>8 DEF Next

\* Every step keeps the inductive invariant.
LEMMA InvStep == Inv /\ [Next]_vars => Inv'
<1> SUFFICES ASSUME Inv, [Next]_vars PROVE Inv'
  OBVIOUS
<1>0. TypeOK /\ TypeOK'
  BY TypeStep DEF Inv
<1> USE OperatorAssumption, <1>0
    DEF Inv, TypeOK, Holding, Active, tokenVars, recordVars, workerVars, historyVars
<1>1. ASSUME NEW c \in Callers, CallerStep(c) PROVE Inv'
  <2>1. CASE Call(c)
    BY <2>1 DEF Call, Goto,
       TokenOfApproved, SoleHolder, StartedOnlyByHolder, AtMostOnce, OneRequest, AwaitedLanded,
       EvidenceOfEffect, RowBeforeStart, IntentRecorded
  <2>2. CASE Validate(c)
    BY <2>2 DEF Validate, Acceptable, Goto,
       TokenOfApproved, SoleHolder, StartedOnlyByHolder, AtMostOnce, OneRequest, AwaitedLanded,
       EvidenceOfEffect, RowBeforeStart, IntentRecorded
  <2>3. CASE Consume(c)
    \* The claim makes c the only holder: before it the token was not used.
    <3>1. SoleHolder'
      BY <2>3 DEF Consume, Consumable, SoleHolder
    <3>2. StartedOnlyByHolder'
      BY <2>3 DEF Consume, Consumable, StartedOnlyByHolder, SoleHolder
    <3>3. TokenOfApproved' /\ AtMostOnce' /\ OneRequest' /\ AwaitedLanded' /\ EvidenceOfEffect'
          /\ RowBeforeStart'
      BY <2>3 DEF Consume, Consumable, TokenOfApproved, AtMostOnce, OneRequest, AwaitedLanded,
         EvidenceOfEffect, RowBeforeStart, IntentRecorded
    <3> QED
      BY <3>1, <3>2, <3>3
  <2>4. CASE Lookup(c)
    <3>1. SoleHolder'
      BY <2>4 DEF Lookup, AfterRead, Goto, SoleHolder
    <3>2. StartedOnlyByHolder'
      BY <2>4 DEF Lookup, AfterRead, Goto, StartedOnlyByHolder, SoleHolder
    <3>3. TokenOfApproved' /\ AtMostOnce' /\ OneRequest' /\ AwaitedLanded' /\ EvidenceOfEffect'
          /\ RowBeforeStart'
      BY <2>4 DEF Lookup, AfterRead, Goto, TokenOfApproved, AtMostOnce, OneRequest, AwaitedLanded,
         EvidenceOfEffect, RowBeforeStart, IntentRecorded
    <3> QED
      BY <3>1, <3>2, <3>3
  <2>5. CASE Create(c)
    <3>1. SoleHolder'
      BY <2>5 DEF Create, SoleHolder
    <3>2. StartedOnlyByHolder'
      BY <2>5 DEF Create, StartedOnlyByHolder, SoleHolder
    <3>3. RowBeforeStart'
      BY <2>5 DEF Create, RowBeforeStart, IntentRecorded, StartedOnlyByHolder
    <3>4. EvidenceOfEffect'
      BY <2>5 DEF Create, EvidenceOfEffect, AwaitedLanded, AtMostOnce, OneRequest
    <3>5. TokenOfApproved' /\ AtMostOnce' /\ OneRequest' /\ AwaitedLanded'
      BY <2>5 DEF Create, TokenOfApproved, AtMostOnce, OneRequest, AwaitedLanded
    <3> QED
      BY <3>1, <3>2, <3>3, <3>4, <3>5
  <2>6. CASE Acquire(c)
    <3>1. SoleHolder'
      BY <2>6 DEF Acquire, SoleHolder
    <3>2. StartedOnlyByHolder'
      BY <2>6 DEF Acquire, StartedOnlyByHolder, SoleHolder
    <3>3. RowBeforeStart'
      BY <2>6 DEF Acquire, RowBeforeStart, IntentRecorded, StartedOnlyByHolder
    <3>4. EvidenceOfEffect'
      BY <2>6 DEF Acquire, EvidenceOfEffect, AwaitedLanded, AtMostOnce, OneRequest
    <3>5. TokenOfApproved' /\ AtMostOnce' /\ OneRequest' /\ AwaitedLanded'
      BY <2>6 DEF Acquire, TokenOfApproved, AtMostOnce, OneRequest, AwaitedLanded
    <3> QED
      BY <3>1, <3>2, <3>3, <3>4, <3>5
  <2>7. CASE RefuseRate(c)
    BY <2>7 DEF RefuseRate, Goto,
       TokenOfApproved, SoleHolder, StartedOnlyByHolder, AtMostOnce, OneRequest, AwaitedLanded,
       EvidenceOfEffect, RowBeforeStart, IntentRecorded
  <2>8. CASE StartTool(c)
    \* The holder starts what nobody has started.
    <3>1. SoleHolder'
      BY <2>8 DEF StartTool, SoleHolder
    <3>2. StartedOnlyByHolder'
      BY <2>8 DEF StartTool, StartedOnlyByHolder, SoleHolder
    <3>3. AtMostOnce'
      BY <2>8 DEF StartTool, AtMostOnce, StartedOnlyByHolder, OneRequest
    <3>4. OneRequest'
      BY <2>8 DEF StartTool, OneRequest, AtMostOnce, StartedOnlyByHolder
    <3>5. AwaitedLanded'
      BY <2>8 DEF StartTool, AwaitedLanded, OneRequest, AtMostOnce
    <3>6. RowBeforeStart'
      BY <2>8 DEF StartTool, RowBeforeStart, IntentRecorded, StartedOnlyByHolder
    <3>7. TokenOfApproved' /\ EvidenceOfEffect'
      BY <2>8 DEF StartTool, TokenOfApproved, EvidenceOfEffect
    <3> QED
      BY <3>1, <3>2, <3>3, <3>4, <3>5, <3>6, <3>7
  <2>9. CASE MarkUnknown(c)
    BY <2>9 DEF MarkUnknown,
       TokenOfApproved, SoleHolder, StartedOnlyByHolder, AtMostOnce, OneRequest, AwaitedLanded,
       EvidenceOfEffect, RowBeforeStart, IntentRecorded
  <2>10. CASE Land(c)
    \* The single request on its way becomes the single effect.
    <3>1. AtMostOnce'
      BY <2>10 DEF Land, AtMostOnce, StartedOnlyByHolder, OneRequest
    <3>2. OneRequest'
      BY <2>10 DEF Land, OneRequest, AtMostOnce, StartedOnlyByHolder
    <3>3. AwaitedLanded'
      BY <2>10 DEF Land, AwaitedLanded, OneRequest, AtMostOnce
    <3>4. EvidenceOfEffect'
      BY <2>10 DEF Land, EvidenceOfEffect, AwaitedLanded, AtMostOnce, OneRequest
    <3>5. TokenOfApproved' /\ SoleHolder' /\ StartedOnlyByHolder' /\ RowBeforeStart'
      BY <2>10 DEF Land, TokenOfApproved, SoleHolder, StartedOnlyByHolder, RowBeforeStart,
         IntentRecorded
    <3> QED
      BY <3>1, <3>2, <3>3, <3>4, <3>5
  <2>11. CASE ToolAnswers(c)
    <3>1. SoleHolder'
      BY <2>11 DEF ToolAnswers, SoleHolder
    <3>2. OneRequest'
      BY <2>11 DEF ToolAnswers, OneRequest, AtMostOnce, StartedOnlyByHolder
    <3>3. AwaitedLanded'
      BY <2>11 DEF ToolAnswers, AwaitedLanded, OneRequest, AtMostOnce
    <3>4. TokenOfApproved' /\ StartedOnlyByHolder' /\ AtMostOnce' /\ EvidenceOfEffect'
          /\ RowBeforeStart'
      BY <2>11 DEF ToolAnswers, TokenOfApproved, StartedOnlyByHolder, AtMostOnce,
         EvidenceOfEffect, RowBeforeStart, IntentRecorded
    <3> QED
      BY <3>1, <3>2, <3>3, <3>4
  <2>12. CASE Timeout(c)
    BY <2>12 DEF Timeout,
       TokenOfApproved, SoleHolder, StartedOnlyByHolder, AtMostOnce, OneRequest, AwaitedLanded,
       EvidenceOfEffect, RowBeforeStart, IntentRecorded
  <2>13. CASE Finalize(c)
    \* COMPLETED and the transaction id are written after the effect only.
    <3>1. SoleHolder'
      BY <2>13 DEF Finalize, FinalStatus, SoleHolder
    <3>2. EvidenceOfEffect'
      BY <2>13 DEF Finalize, FinalStatus, EvidenceOfEffect, AwaitedLanded, AtMostOnce, OneRequest
    <3>3. RowBeforeStart'
      BY <2>13 DEF Finalize, FinalStatus, RowBeforeStart, IntentRecorded, StartedOnlyByHolder
    <3>4. TokenOfApproved' /\ StartedOnlyByHolder' /\ AtMostOnce' /\ OneRequest' /\ AwaitedLanded'
      BY <2>13 DEF Finalize, FinalStatus, TokenOfApproved, StartedOnlyByHolder, AtMostOnce,
         OneRequest, AwaitedLanded
    <3> QED
      BY <3>1, <3>2, <3>3, <3>4
  <2>14. CASE AuditReport(c)
    BY <2>14 DEF AuditReport, Goto,
       TokenOfApproved, SoleHolder, StartedOnlyByHolder, AtMostOnce, OneRequest, AwaitedLanded,
       EvidenceOfEffect, RowBeforeStart, IntentRecorded
  <2>15. CASE DatabaseError(c)
    BY <2>15 DEF DatabaseError, Goto,
       TokenOfApproved, SoleHolder, StartedOnlyByHolder, AtMostOnce, OneRequest, AwaitedLanded,
       EvidenceOfEffect, RowBeforeStart, IntentRecorded
  <2>16. CASE Abort(c)
    BY <2>16 DEF Abort,
       TokenOfApproved, SoleHolder, StartedOnlyByHolder, AtMostOnce, OneRequest, AwaitedLanded,
       EvidenceOfEffect, RowBeforeStart, IntentRecorded
  <2>17. CASE Crash(c)
    BY <2>17 DEF Crash, Goto,
       TokenOfApproved, SoleHolder, StartedOnlyByHolder, AtMostOnce, OneRequest, AwaitedLanded,
       EvidenceOfEffect, RowBeforeStart, IntentRecorded
  <2> QED
    BY <1>1, <2>1, <2>2, <2>3, <2>4, <2>5, <2>6, <2>7, <2>8, <2>9,
       <2>10, <2>11, <2>12, <2>13, <2>14, <2>15, <2>16, <2>17 DEF
       CallerStep
<1>2. ASSUME NEW d \in Decisions, DecisionStep(d) PROVE Inv'
  <2>1. CASE MintToken(d)
    BY <2>1 DEF MintToken,
       TokenOfApproved, SoleHolder, StartedOnlyByHolder, AtMostOnce, OneRequest, AwaitedLanded,
       EvidenceOfEffect, RowBeforeStart, IntentRecorded
  <2>2. CASE ExpireToken(d)
    BY <2>2 DEF ExpireToken,
       TokenOfApproved, SoleHolder, StartedOnlyByHolder, AtMostOnce, OneRequest, AwaitedLanded,
       EvidenceOfEffect, RowBeforeStart, IntentRecorded
  <2>3. CASE GoStale(d)
    BY <2>3 DEF GoStale,
       TokenOfApproved, SoleHolder, StartedOnlyByHolder, AtMostOnce, OneRequest, AwaitedLanded,
       EvidenceOfEffect, RowBeforeStart, IntentRecorded
  <2>4. CASE GhostForce(d)
    BY <2>4 DEF GhostForce,
       TokenOfApproved, SoleHolder, StartedOnlyByHolder, AtMostOnce, OneRequest, AwaitedLanded,
       EvidenceOfEffect, RowBeforeStart, IntentRecorded
  <2>5. CASE ReconcileFix(d)
    BY <2>5 DEF ReconcileFix,
       TokenOfApproved, SoleHolder, StartedOnlyByHolder, AtMostOnce, OneRequest, AwaitedLanded,
       EvidenceOfEffect, RowBeforeStart, IntentRecorded
  <2> QED
    BY <1>2, <2>1, <2>2, <2>3, <2>4, <2>5 DEF DecisionStep
<1>3. ASSUME NEW r \in Rollbacks, RollbackStep(r) PROVE Inv'
  <2>1. CASE RollbackStart(r)
    BY <2>1 DEF RollbackStart,
       TokenOfApproved, SoleHolder, StartedOnlyByHolder, AtMostOnce, OneRequest, AwaitedLanded,
       EvidenceOfEffect, RowBeforeStart, IntentRecorded
  <2>2. CASE RollbackTool(r)
    BY <2>2 DEF RollbackTool,
       TokenOfApproved, SoleHolder, StartedOnlyByHolder, AtMostOnce, OneRequest, AwaitedLanded,
       EvidenceOfEffect, RowBeforeStart, IntentRecorded
  <2>3. CASE RollbackRecord(r)
    BY <2>3 DEF RollbackRecord,
       TokenOfApproved, SoleHolder, StartedOnlyByHolder, AtMostOnce, OneRequest, AwaitedLanded,
       EvidenceOfEffect, RowBeforeStart, IntentRecorded
  <2>4. CASE RollbackFail(r)
    BY <2>4 DEF RollbackFail,
       TokenOfApproved, SoleHolder, StartedOnlyByHolder, AtMostOnce, OneRequest, AwaitedLanded,
       EvidenceOfEffect, RowBeforeStart, IntentRecorded
  <2> QED
    BY <1>3, <2>1, <2>2, <2>3, <2>4 DEF RollbackStep
<1>4. CASE RestartWithNewKeys
  BY <1>4 DEF RestartWithNewKeys,
     TokenOfApproved, SoleHolder, StartedOnlyByHolder, AtMostOnce, OneRequest, AwaitedLanded,
     EvidenceOfEffect, RowBeforeStart, IntentRecorded
<1>5. CASE GhostScan
  BY <1>5 DEF GhostScan, Stuck,
     TokenOfApproved, SoleHolder, StartedOnlyByHolder, AtMostOnce, OneRequest, AwaitedLanded,
     EvidenceOfEffect, RowBeforeStart, IntentRecorded
<1>6. CASE ReconcileScan
  BY <1>6 DEF ReconcileScan, Fixable,
     TokenOfApproved, SoleHolder, StartedOnlyByHolder, AtMostOnce, OneRequest, AwaitedLanded,
     EvidenceOfEffect, RowBeforeStart, IntentRecorded
<1>7. CASE ReconcileFail
  BY <1>7 DEF ReconcileFail,
     TokenOfApproved, SoleHolder, StartedOnlyByHolder, AtMostOnce, OneRequest, AwaitedLanded,
     EvidenceOfEffect, RowBeforeStart, IntentRecorded
<1>8. CASE UNCHANGED vars
  BY <1>8 DEF vars,
     TokenOfApproved, SoleHolder, StartedOnlyByHolder, AtMostOnce, OneRequest, AwaitedLanded,
     EvidenceOfEffect, RowBeforeStart, IntentRecorded
<1> QED
  BY <1>1, <1>2, <1>3, <1>4, <1>5, <1>6, <1>7, <1>8 DEF Next

LEMMA InvAlways == Spec => []Inv
  BY InitInv, InvStep, PTL DEF Spec

-----------------------------------------------------------------------------
(***************************************************************************)
(* The theorems.                                                           *)
(***************************************************************************)

\* Every variable of the operator keeps its type.
THEOREM TypeCorrect == Spec => []TypeOK
  BY InvAlways, PTL DEF Inv

\* executeDecision starts a decision's tool at most once and the provider acts at
\* most once, for any number of overlapping, crashing and repeated calls.
THEOREM ExecutesAtMostOnce == Spec => []AtMostOnce
  BY InvAlways, PTL DEF Inv

\* A COMPLETED execution record, whether the operator or the reconciliation sweep
\* wrote it, stands for an effect that took place.
THEOREM CompletedIsHonest == Spec => []CompletedMeansExecuted
<1>1. Inv => CompletedMeansExecuted
  BY DEF Inv, EvidenceOfEffect, CompletedMeansExecuted
<1> QED
  BY <1>1, InvAlways, PTL

\* No tool is started before its EXECUTING row is in the database, and the row never
\* falls back to PENDING: a crash leaves a record for the ghost sweep to find.
THEOREM IntentIsDurable == Spec => []IntentRecorded
<1>1. Inv => IntentRecorded
  BY DEF Inv, RowBeforeStart
<1> QED
  BY <1>1, InvAlways, PTL

-----------------------------------------------------------------------------
\* The operator starts where the promise starts.
LEMMA InitPromise == Init => Promise!Init
  BY DEF Init, Promise!Init

\* Each step is a step of SingleUseExecution or changes nothing it can see.
LEMMA StepPromise == Inv /\ [Next]_vars => [Promise!Next]_(Promise!vars)
<1> SUFFICES ASSUME Inv, [Next]_vars PROVE [Promise!Next]_(Promise!vars)
  OBVIOUS
<1> USE OperatorAssumption
    DEF tokenVars, recordVars, workerVars, historyVars, Promise!vars, Promise!Next
<1>0. TypeOK
  BY DEF Inv
<1>1. ASSUME NEW d \in Decisions, ExpireToken(d) PROVE Promise!Next
  BY <1>1 DEF ExpireToken, Promise!Expire
<1>2. ASSUME NEW c \in Callers, Consume(c) PROVE [Promise!Next]_(Promise!vars)
  <2> DEFINE d == DecisionOf[c]
  <2>1. CASE Consumable(d)
    <3>1. Promise!Claim(d)
      BY <1>0, <1>2, <2>1 DEF Consume, Consumable, Promise!Claim, TypeOK, Inv, TokenOfApproved
    <3> QED
      BY <3>1
  <2>2. CASE ~ Consumable(d)
    BY <1>2, <2>2 DEF Consume
  <2> QED
    BY <2>1, <2>2
<1>3. ASSUME NEW c \in Callers, StartTool(c) PROVE Promise!Next
  <2> DEFINE d == DecisionOf[c]
  <2>1. token[d] = "used" /\ invocations[d] = 0
    BY <1>3 DEF StartTool, Inv, SoleHolder, StartedOnlyByHolder, Holding
  <2>2. Promise!Start(d)
    BY <1>0, <1>3, <2>1 DEF StartTool, Promise!Start, TypeOK
  <2> QED
    BY <2>2
<1>4. ASSUME NEW c \in Callers, Land(c) PROVE Promise!Next
  <2> DEFINE d == DecisionOf[c]
  <2>1. invocations[d] = 1 /\ effects[d] = 0
    BY <1>4 DEF Land, Inv, OneRequest
  <2>2. Promise!Change(d)
    BY <1>0, <1>4, <2>1 DEF Land, Promise!Change, TypeOK
  <2> QED
    BY <2>2
<1>5. ASSUME NEW d \in Decisions, MintToken(d) PROVE UNCHANGED Promise!vars
  BY <1>0, <1>5 DEF MintToken, TypeOK
<1>6. ASSUME NEW c \in Callers, CallerStep(c), ~ Consume(c), ~ StartTool(c), ~ Land(c)
      PROVE  UNCHANGED Promise!vars
  BY <1>6 DEF CallerStep, Goto, Call, Validate, Lookup, Create, Acquire, RefuseRate,
              MarkUnknown, ToolAnswers, Timeout, Finalize, AuditReport, DatabaseError,
              Abort, Crash
<1>7. ASSUME NEW d \in Decisions, DecisionStep(d), ~ ExpireToken(d), ~ MintToken(d)
      PROVE  UNCHANGED Promise!vars
  BY <1>7 DEF DecisionStep, GoStale, GhostForce, ReconcileFix
<1>8. ASSUME NEW r \in Rollbacks, RollbackStep(r) PROVE UNCHANGED Promise!vars
  BY <1>8 DEF RollbackStep, RollbackStart, RollbackTool, RollbackRecord, RollbackFail
<1>9. CASE RestartWithNewKeys \/ GhostScan \/ ReconcileScan \/ ReconcileFail
  BY <1>9 DEF RestartWithNewKeys, GhostScan, ReconcileScan, ReconcileFail
<1>10. CASE UNCHANGED vars
  BY <1>10 DEF vars
<1> QED
  BY <1>1, <1>2, <1>3, <1>4, <1>5, <1>6, <1>7, <1>8, <1>9, <1>10
     DEF Next, CallerStep, DecisionStep

\* The operator with its records, workers and rollbacks implements single use: the
\* refinement the runs check, for every instance.
THEOREM ImplementsSingleUse == Spec => SingleUse
  BY InitPromise, StepPromise, InvAlways, PTL DEF Spec, SingleUse, Promise!Spec
-----------------------------------------------------------------------------
(***************************************************************************)
(* The sweeps beside a call that ends within the threshold.                *)
(***************************************************************************)

Prompt == {DecisionOf[c] : c \in Callers} \ {DecisionOf[c] : c \in SlowCallers}

Preparing == {"lookup", "create", "acquire"}
Executing == {"limit", "mark", "await", "finalize"}

Undoing(d) == \E r \in Rollbacks : RollbackOf[r] = d /\ rpc[r] \in {"undo", "undone", "kept"}

\* What only a call that came to its end leaves behind.
Settled(d) == status[d] = "COMPLETED" \/ d \in txn \/ d \in fixes \/ Undoing(d)

\* A prompt call that executes is on nobody's list, a list names what still executes, and
\* once the decision is settled nobody is going to execute it.
PromptInv(d) ==
  /\ \A c \in Callers :
       DecisionOf[c] = d /\ pc[c] \in Executing =>
         status[d] = "EXECUTING" /\ d \notin stale /\ d \notin ghosts
  /\ d \in ghosts => status[d] = "EXECUTING"
  /\ Settled(d) =>
       /\ token[d] = "used"
       /\ status[d] # "EXECUTING"
       /\ \A c \in Callers : DecisionOf[c] = d => pc[c] \notin Preparing

\* The step of a call to its next await, which leaves the record alone.
LEMMA PromptGoto ==
  ASSUME TypeOK, NEW d \in Prompt, PromptInv(d), NEW c \in Callers,
         NEW label, pc' = [pc EXCEPT ![c] = label],
         label \in Executing => pc[c] \in Executing,
         label \in Preparing => pc[c] \in Preparing,
         UNCHANGED <<token, status, txn, stale, ghosts, fixes, rpc>>
  PROVE  PromptInv(d)'
<1>1. \A b \in Callers :
        /\ pc'[b] \in Executing => pc[b] \in Executing
        /\ pc'[b] \in Preparing => pc[b] \in Preparing
  BY DEF TypeOK
<1>2. Settled(d)' <=> Settled(d)
  BY DEF Settled, Undoing
<1> QED
  BY <1>1, <1>2 DEF PromptInv

LEMMA PromptCallerStep ==
  ASSUME Inv, NEW d \in Prompt, PromptInv(d), NEW c \in Callers, CallerStep(c)
  PROVE  PromptInv(d)'
<1>0. TypeOK /\ d \in Decisions /\ DecisionOf[c] \in Decisions
  BY OperatorAssumption DEF Inv, Prompt
<1>1. \A b \in Callers : pc[b] \in Preparing \cup Executing => token[DecisionOf[b]] = "used"
  BY DEF Inv, SoleHolder, Holding, Preparing, Executing
<1>2. \A b \in Callers :
        pc[b] \in Preparing \cup Executing /\ pc[c] \in Preparing \cup Executing
          /\ DecisionOf[b] = DecisionOf[c] => b = c
  BY DEF Inv, SoleHolder, Holding, Preparing, Executing
<1>3. CASE Call(c) \/ Validate(c) \/ AuditReport(c) \/ DatabaseError(c) \/ Abort(c) \/ Crash(c)
  <2>1. \E label \in CallerPc \ (Preparing \cup Executing) : pc' = [pc EXCEPT ![c] = label]
    BY <1>3 DEF Call, Validate, AuditReport, DatabaseError, Abort, Crash, Goto, CallerPc,
       Active, Holding, Preparing, Executing
  <2>2. UNCHANGED <<token, status, txn, stale, ghosts, fixes, rpc>>
    BY <1>3 DEF Call, Validate, AuditReport, DatabaseError, Abort, Crash, Goto, tokenVars,
       recordVars, workerVars
  <2> QED
    BY <1>0, <2>1, <2>2, PromptGoto
<1>4. CASE Lookup(c) \/ RefuseRate(c) \/ StartTool(c) \/ ToolAnswers(c) \/ Timeout(c)
  <2>1. \E label \in CallerPc :
          /\ pc' = [pc EXCEPT ![c] = label]
          /\ label \in Executing => pc[c] \in Executing
          /\ label \in Preparing => pc[c] \in Preparing
    BY <1>4 DEF Lookup, AfterRead, RefuseRate, StartTool, ToolAnswers, Timeout, Goto,
       CallerPc, Active, Holding, Preparing, Executing
  <2>2. UNCHANGED <<token, status, txn, stale, ghosts, fixes, rpc>>
    BY <1>4 DEF Lookup, RefuseRate, StartTool, ToolAnswers, Timeout, Goto, tokenVars,
       recordVars, workerVars
  <2> QED
    BY <1>0, <2>1, <2>2, PromptGoto
<1>5. CASE Land(c)
  <2>1. UNCHANGED <<token, pc, status, txn, stale, ghosts, fixes, rpc>>
    BY <1>5 DEF Land, tokenVars, recordVars, workerVars
  <2> QED
    BY <2>1 DEF PromptInv, Settled, Undoing
<1>6. CASE Consume(c)
  <2>1. CASE Consumable(DecisionOf[c])
    <3>1. /\ token[DecisionOf[c]] = "live" /\ pc' = [pc EXCEPT ![c] = "lookup"]
          /\ token' = [token EXCEPT ![DecisionOf[c]] = "used"]
          /\ UNCHANGED <<status, txn, stale, ghosts, fixes, rpc>>
      BY <1>6, <2>1 DEF Consume, Consumable, recordVars, workerVars
    <3>2. Settled(d) => d # DecisionOf[c]
      BY <3>1 DEF PromptInv
    <3>3. Settled(d)' <=> Settled(d)
      BY <3>1 DEF Settled, Undoing
    <3> QED
      BY <1>0, <3>1, <3>2, <3>3 DEF PromptInv, TypeOK, Executing, Preparing
  <2>2. CASE ~ Consumable(DecisionOf[c])
    <3>1. pc' = [pc EXCEPT ![c] = "abort"] /\ "abort" \notin Preparing \cup Executing
      BY <1>6, <2>2 DEF Consume, Preparing, Executing
    <3>2. UNCHANGED <<token, status, txn, stale, ghosts, fixes, rpc>>
      BY <1>6, <2>2 DEF Consume, recordVars, workerVars
    <3> QED
      BY <1>0, <3>1, <3>2, PromptGoto
  <2> QED
    BY <2>1, <2>2
<1>7. CASE Create(c)
  <2>1. /\ pc[c] \in Preparing /\ UNCHANGED <<token, txn, stale, ghosts, fixes, rpc>>
        /\ \E label \in Preparing : pc' = [pc EXCEPT ![c] = label]
    BY <1>7 DEF Create, tokenVars, workerVars, Preparing
  <2>2. \A e \in Decisions :
          status'[e] = status[e] \/ (status[e] = "absent" /\ status'[e] = "PENDING")
    BY <1>0, <1>7 DEF Create, TypeOK
  <2>3. Settled(d)' => Settled(d)
    BY <1>0, <2>1, <2>2 DEF Settled, Undoing
  <2>4. \A b \in Callers :
          /\ pc'[b] \in Executing => pc[b] \in Executing
          /\ pc'[b] \in Preparing => pc[b] \in Preparing
    BY <1>0, <2>1 DEF TypeOK, Preparing, Executing
  <2> QED
    BY <1>0, <2>1, <2>2, <2>3, <2>4 DEF PromptInv
<1>8. CASE Acquire(c)
  <2>1. CASE status[DecisionOf[c]] \in {"PENDING", "FAILED"}
    <3>1. /\ pc[c] = "acquire" /\ pc' = [pc EXCEPT ![c] = "limit"]
          /\ status' = [status EXCEPT ![DecisionOf[c]] = "EXECUTING"]
          /\ stale' = stale \ {DecisionOf[c]}
          /\ UNCHANGED <<token, txn, ghosts, fixes, rpc>>
      BY <1>8, <2>1 DEF Acquire, tokenVars, workerVars
    <3>2. CASE d = DecisionOf[c]
      <4>1. ~ Settled(d) /\ d \notin ghosts
        BY <2>1, <3>1, <3>2 DEF PromptInv, Preparing
      <4>2. status'[d] = "EXECUTING" /\ d \notin stale' /\ d \notin ghosts'
        BY <1>0, <3>1, <3>2, <4>1 DEF TypeOK
      <4>3. ~ Settled(d)'
        BY <3>1, <4>1, <4>2 DEF Settled, Undoing
      <4> QED
        BY <4>2, <4>3 DEF PromptInv
    <3>3. CASE d # DecisionOf[c]
      <4>1. status'[d] = status[d] /\ (d \in stale' => d \in stale)
        BY <1>0, <3>1, <3>3 DEF TypeOK
      <4>2. \A b \in Callers : DecisionOf[b] = d => pc'[b] = pc[b]
        BY <1>0, <3>1, <3>3 DEF TypeOK
      <4>3. Settled(d)' <=> Settled(d)
        BY <3>1, <4>1 DEF Settled, Undoing
      <4> QED
        BY <3>1, <4>1, <4>2, <4>3 DEF PromptInv
    <3> QED
      BY <3>2, <3>3
  <2>2. CASE status[DecisionOf[c]] \notin {"PENDING", "FAILED"}
    <3>1. pc' = [pc EXCEPT ![c] = "abort"] /\ "abort" \notin Preparing \cup Executing
      BY <1>8, <2>2 DEF Acquire, Preparing, Executing
    <3>2. UNCHANGED <<token, status, txn, stale, ghosts, fixes, rpc>>
      BY <1>8, <2>2 DEF Acquire, tokenVars, workerVars
    <3> QED
      BY <1>0, <3>1, <3>2, PromptGoto
  <2> QED
    BY <2>1, <2>2
<1>9. CASE MarkUnknown(c) \/ Finalize(c)
  \* The call that ends was the only one, and its decision is on no list.
  <2>1. /\ pc[c] \in Executing
        /\ \E label \in {"abort", "audit"} : pc' = [pc EXCEPT ![c] = label]
        /\ \E s \in RecordStatus \ {"EXECUTING"} :
             status' = [status EXCEPT ![DecisionOf[c]] = s]
        /\ txn' \ {DecisionOf[c]} = txn \ {DecisionOf[c]}
        /\ UNCHANGED <<token, stale, ghosts, fixes, rpc>>
    BY <1>9 DEF MarkUnknown, Finalize, FinalStatus, RecordStatus, Executing, tokenVars,
       workerVars
  <2>2. CASE d = DecisionOf[c]
    <3>1. token[d] = "used" /\ d \notin ghosts
      BY <1>1, <2>1, <2>2 DEF PromptInv
    <3>2. status'[d] # "EXECUTING"
      BY <1>0, <2>1, <2>2 DEF TypeOK
    <3>3. \A b \in Callers : DecisionOf[b] = d => pc'[b] \notin Preparing \cup Executing
      <4> SUFFICES ASSUME NEW b \in Callers, DecisionOf[b] = d
                   PROVE  pc'[b] \notin Preparing \cup Executing
        OBVIOUS
      <4>1. CASE b = c
        BY <1>0, <2>1, <4>1 DEF TypeOK, Preparing, Executing
      <4>2. CASE b # c
        <5>1. pc'[b] = pc[b]
          BY <1>0, <2>1, <4>2 DEF TypeOK
        <5> QED
          BY <1>2, <2>1, <2>2, <4>2, <5>1
      <4> QED
        BY <4>1, <4>2
    <3> QED
      BY <2>1, <3>1, <3>2, <3>3 DEF PromptInv
  <2>3. CASE d # DecisionOf[c]
    <3>1. status'[d] = status[d] /\ (d \in txn' <=> d \in txn)
      BY <1>0, <2>1, <2>3 DEF TypeOK
    <3>2. \A b \in Callers : DecisionOf[b] = d => pc'[b] = pc[b]
      BY <1>0, <2>1, <2>3 DEF TypeOK
    <3>3. Settled(d)' <=> Settled(d)
      BY <2>1, <3>1 DEF Settled, Undoing
    <3> QED
      BY <2>1, <3>1, <3>2, <3>3 DEF PromptInv
  <2> QED
    BY <2>2, <2>3
<1> QED
  BY <1>3, <1>4, <1>5, <1>6, <1>7, <1>8, <1>9 DEF CallerStep

LEMMA PromptOtherStep ==
  ASSUME Inv, NEW d \in Prompt, PromptInv(d), [Next]_vars,
         ~ \E c \in Callers : CallerStep(c)
  PROVE  PromptInv(d)'
<1>0. TypeOK /\ d \in Decisions
  BY OperatorAssumption DEF Inv, Prompt
<1>1. ASSUME NEW e \in Decisions, DecisionStep(e) PROVE PromptInv(d)'
  <2>1. CASE MintToken(e) \/ ExpireToken(e)
    <3>1. /\ UNCHANGED <<pc, status, txn, stale, ghosts, fixes, rpc>>
          /\ token[d] = "used" => token'[d] = "used"
      BY <1>0, <2>1 DEF MintToken, ExpireToken, recordVars, workerVars, TypeOK
    <3> QED
      BY <3>1 DEF PromptInv, Settled, Undoing
  <2>2. CASE GoStale(e)
    <3>1. /\ UNCHANGED <<token, pc, status, txn, ghosts, fixes, rpc>>
          /\ stale' = stale \cup {e} /\ LiveHolders(e) \subseteq SlowCallers
      BY <2>2 DEF GoStale, tokenVars, workerVars
    <3>2. ASSUME NEW c \in Callers, DecisionOf[c] = d, pc[c] \in Executing PROVE e # d
      BY <3>1, <3>2 DEF LiveHolders, Executing, Prompt
    <3> QED
      BY <3>1, <3>2 DEF PromptInv, Settled, Undoing
  <2>3. CASE GhostForce(e)
    <3>1. /\ UNCHANGED <<token, pc, txn, stale, fixes, rpc>>
          /\ e \in ghosts /\ ghosts' \subseteq ghosts \ {e}
          /\ status' = [status EXCEPT ![e] = "UNKNOWN"]
      BY <2>3 DEF GhostForce, tokenVars
    <3>2. CASE e = d
      <4>1. status'[d] = "UNKNOWN" /\ status[d] = "EXECUTING"
        BY <1>0, <3>1, <3>2 DEF PromptInv, TypeOK
      <4>2. Settled(d)' => Settled(d)
        BY <3>1, <4>1 DEF Settled, Undoing
      <4> QED
        BY <3>1, <3>2, <4>1, <4>2 DEF PromptInv
    <3>3. CASE e # d
      <4>1. status'[d] = status[d]
        BY <1>0, <3>1, <3>3 DEF TypeOK
      <4> QED
        BY <3>1, <4>1 DEF PromptInv, Settled, Undoing
    <3> QED
      BY <3>2, <3>3
  <2>4. CASE ReconcileFix(e)
    <3>1. /\ UNCHANGED <<token, pc, txn, stale, ghosts, rpc>>
          /\ e \in fixes /\ fixes' = fixes \ {e}
          /\ status' = [status EXCEPT ![e] = "COMPLETED"]
      BY <2>4 DEF ReconcileFix, tokenVars
    <3>2. CASE e = d
      <4>1. Settled(d) /\ status'[d] = "COMPLETED"
        BY <1>0, <3>1, <3>2 DEF Settled, TypeOK
      <4> QED
        BY <3>1, <4>1 DEF PromptInv
    <3>3. CASE e # d
      <4>1. status'[d] = status[d]
        BY <1>0, <3>1, <3>3 DEF TypeOK
      <4> QED
        BY <3>1, <3>3, <4>1 DEF PromptInv, Settled, Undoing
    <3> QED
      BY <3>2, <3>3
  <2> QED
    BY <1>1, <2>1, <2>2, <2>3, <2>4 DEF DecisionStep
<1>2. ASSUME NEW r \in Rollbacks, RollbackStep(r) PROVE PromptInv(d)'
  \* A rollback begins at a settled decision, and keeps it from executing.
  <2>1. UNCHANGED <<token, pc, txn, stale, ghosts, fixes>>
    BY <1>2 DEF RollbackStep, RollbackStart, RollbackTool, RollbackRecord, RollbackFail,
       tokenVars, recordVars, workerVars
  <2>2. Settled(d)' => Settled(d)
    BY <1>0, <1>2, OperatorAssumption DEF RollbackStep, RollbackStart, RollbackTool,
       RollbackRecord, RollbackFail, recordVars, workerVars, Settled, Undoing, TypeOK
  <2>3. \/ status'[d] = status[d]
        \/ Settled(d) /\ status'[d] # "EXECUTING"
    BY <1>0, <1>2, OperatorAssumption DEF RollbackStep, RollbackStart, RollbackTool,
       RollbackRecord, RollbackFail, recordVars, Settled, Undoing, TypeOK
  <2> QED
    BY <2>1, <2>2, <2>3 DEF PromptInv
<1>3. CASE RestartWithNewKeys
  <2>1. /\ UNCHANGED <<token, status, txn, stale, ghosts, fixes, rpc>>
        /\ \A c \in Callers : pc'[c] \in {pc[c], "crashed"}
    BY <1>3 DEF RestartWithNewKeys, recordVars, workerVars
  <2>2. "crashed" \notin Preparing \cup Executing
    BY DEF Preparing, Executing
  <2> QED
    BY <2>1, <2>2 DEF PromptInv, Settled, Undoing
<1>4. CASE GhostScan
  <2>1. /\ UNCHANGED <<token, pc, status, txn, stale, fixes, rpc>>
        /\ \A e \in ghosts' : e \in stale /\ status[e] = "EXECUTING"
    BY <1>4 DEF GhostScan, Stuck, tokenVars, recordVars
  <2> QED
    BY <2>1 DEF PromptInv, Settled, Undoing
<1>5. CASE ReconcileScan \/ ReconcileFail
  <2>1. /\ UNCHANGED <<token, pc, status, txn, stale, ghosts, rpc>>
        /\ fixes' \subseteq txn
    BY <1>5 DEF ReconcileScan, ReconcileFail, Fixable, tokenVars, recordVars
  <2> QED
    BY <2>1 DEF PromptInv, Settled, Undoing
<1>6. CASE UNCHANGED vars
  BY <1>6 DEF vars, tokenVars, recordVars, workerVars, PromptInv, Settled, Undoing
<1> QED
  BY <1>1, <1>2, <1>3, <1>4, <1>5, <1>6 DEF Next

PromptsHold == \A d \in Prompt : PromptInv(d)

LEMMA PromptAlways == Spec => []PromptsHold
<1>1. Init => PromptsHold
  BY OperatorAssumption DEF Init, PromptsHold, PromptInv, Prompt, Executing, Settled, Undoing
<1>2. Inv /\ PromptsHold /\ [Next]_vars => PromptsHold'
  <2> SUFFICES ASSUME Inv, PromptsHold, [Next]_vars, NEW d \in Prompt PROVE PromptInv(d)'
    BY DEF PromptsHold, Prompt
  <2>1. PromptInv(d)
    BY DEF PromptsHold
  <2> QED
    BY <2>1, PromptCallerStep, PromptOtherStep
<1> QED
  BY <1>1, <1>2, InvAlways, PTL DEF Spec

\* When no live call for a decision outlasts the threshold, only a rollback takes its
\* COMPLETED record to another status: the sweeps, which update by id from lists they read
\* before, and the call's own last update never do.
THEOREM OnlyRollbackUndoes == Spec => CompletedLeftOnlyByRollback
<1>1. ASSUME Inv, PromptsHold, [Next]_vars, NEW d \in Prompt,
             status[d] = "COMPLETED", status'[d] # "COMPLETED"
      PROVE  \E r \in Rollbacks : RollbackOf[r] = d /\ RollbackRecord(r)
  <2>0. /\ TypeOK /\ d \in Decisions /\ PromptInv(d)
        /\ \A c \in Callers : DecisionOf[c] \in Decisions
    BY <1>1, OperatorAssumption DEF Inv, PromptsHold, Prompt
  <2>1. ASSUME NEW c \in Callers, CallerStep(c) PROVE FALSE
    <3>1. CASE Create(c) \/ Acquire(c)
      BY <1>1, <2>0, <3>1 DEF Create, Acquire, TypeOK
    <3>2. CASE MarkUnknown(c) \/ Finalize(c)
      <4>1. pc[c] \in Executing
        BY <3>2 DEF MarkUnknown, Finalize, Executing
      <4>2. d # DecisionOf[c]
        BY <1>1, <2>0, <4>1 DEF PromptInv
      <4> QED
        BY <1>1, <2>0, <3>2, <4>2 DEF MarkUnknown, Finalize, TypeOK
    <3>3. CASE UNCHANGED status
      BY <1>1, <3>3
    <3> QED
      BY <2>1, <3>1, <3>2, <3>3 DEF CallerStep, Call, Validate, Consume, Lookup, RefuseRate,
         StartTool, Land, ToolAnswers, Timeout, AuditReport, DatabaseError, Abort, Crash,
         Goto, recordVars
  <2>2. ASSUME NEW e \in Decisions, DecisionStep(e) PROVE FALSE
    <3>1. CASE GhostForce(e)
      <4>1. e # d
        BY <1>1, <2>0, <3>1 DEF GhostForce, PromptInv
      <4> QED
        BY <1>1, <2>0, <3>1, <4>1 DEF GhostForce, TypeOK
    <3>2. CASE ReconcileFix(e)
      BY <1>1, <2>0, <3>2 DEF ReconcileFix, TypeOK
    <3>3. CASE MintToken(e) \/ ExpireToken(e) \/ GoStale(e)
      BY <1>1, <3>3 DEF MintToken, ExpireToken, GoStale, recordVars
    <3> QED
      BY <2>2, <3>1, <3>2, <3>3 DEF DecisionStep
  <2>3. ASSUME NEW r \in Rollbacks, RollbackStep(r)
        PROVE  RollbackOf[r] = d /\ RollbackRecord(r)
    <3>1. RollbackRecord(r)
      BY <1>1, <2>3 DEF RollbackStep, RollbackStart, RollbackTool, RollbackFail, recordVars
    <3> QED
      BY <1>1, <2>0, <3>1 DEF RollbackRecord, TypeOK
  <2>4. ~ (RestartWithNewKeys \/ GhostScan \/ ReconcileScan \/ ReconcileFail)
    BY <1>1 DEF RestartWithNewKeys, GhostScan, ReconcileScan, ReconcileFail, recordVars
  <2>5. ~ UNCHANGED vars
    BY <1>1 DEF vars, recordVars
  <2> QED
    BY <1>1, <2>1, <2>2, <2>3, <2>4, <2>5 DEF Next
<1>2. Inv /\ PromptsHold /\ [Next]_vars =>
        [\A d \in {DecisionOf[c] : c \in Callers} \ {DecisionOf[c] : c \in SlowCallers} :
           status[d] = "COMPLETED" /\ status'[d] # "COMPLETED"
             => \E r \in Rollbacks : RollbackOf[r] = d /\ RollbackRecord(r)]_vars
  BY <1>1 DEF Prompt
<1> QED
  BY <1>2, InvAlways, PromptAlways, PTL DEF Spec, CompletedLeftOnlyByRollback
-----------------------------------------------------------------------------
(***************************************************************************)
(* What a claim finds and what a return means.                             *)
(***************************************************************************)

\* A record nobody executed yet is on no sweep's list and under no rollback, and there is
\* none before the claim: what the claimant finds is its own work.
FreshRecord ==
  /\ FreshClaim
  /\ \A d \in Decisions :
       /\ token[d] # "used" => status[d] = "absent"
       /\ status[d] \in {"absent", "PENDING"} =>
            d \notin ghosts /\ d \notin fixes /\ ~ Undoing(d)

\* The claim is kept by a call that returned: nobody else claims or returns.
SoleKeeper ==
  /\ \A c \in Callers : pc[c] = "returned" => token[DecisionOf[c]] = "used"
  /\ \A b, c \in Callers :
       pc[b] \in Holding \cup {"returned"} /\ pc[c] \in Holding \cup {"returned"}
         /\ DecisionOf[b] = DecisionOf[c] => b = c

\* A call that started its tool knows it, and its result says what it knows.
ReportOf(c) ==
  LET d == DecisionOf[c] IN
  /\ pc[c] \in {"await", "finalize", "audit", "returned"} => invocations[d] = 1
  /\ pc[c] \in {"finalize", "audit", "returned"} =>
       \/ result[c] = "SUCCESS" /\ effects[d] = 1
       \/ result[c] = "UNKNOWN" /\ d \in Transfers
       \/ result[c] = "FAILED" /\ pc[c] # "returned"

Reported == \A c \in Callers : ReportOf(c)

\* A caller's step to its next await that changes neither record nor claim.
LEMMA FreshGoto ==
  ASSUME TypeOK, FreshRecord, NEW c \in Callers, NEW label, pc' = [pc EXCEPT ![c] = label],
         label \notin Preparing, UNCHANGED <<token, status, ghosts, fixes, rpc>>
  PROVE  FreshRecord'
<1>1. \A b \in Callers : pc'[b] \in Preparing => pc'[b] = pc[b]
  BY DEF TypeOK
<1> QED
  BY <1>1 DEF FreshRecord, FreshClaim, Undoing, Preparing

LEMMA FreshCallerStep ==
  ASSUME Inv, FreshRecord, NEW c \in Callers, CallerStep(c)
  PROVE  FreshRecord'
<1> DEFINE d == DecisionOf[c]
<1>0. TypeOK /\ d \in Decisions
  BY OperatorAssumption DEF Inv
<1>1. pc[c] \in Holding => token[d] = "used"
  BY DEF Inv, SoleHolder
<1>2. \A b \in Callers : pc[b] \in Preparing /\ pc[c] \in Holding /\ DecisionOf[b] = d => b = c
  BY DEF Inv, SoleHolder, Holding, Preparing
<1>3. CASE Call(c) \/ Validate(c) \/ RefuseRate(c) \/ StartTool(c) \/ ToolAnswers(c)
           \/ Timeout(c) \/ AuditReport(c) \/ DatabaseError(c) \/ Abort(c) \/ Crash(c)
  <2>1. \E label \in CallerPc \ Preparing : pc' = [pc EXCEPT ![c] = label]
    BY <1>3 DEF Call, Validate, RefuseRate, StartTool, ToolAnswers, Timeout, AuditReport,
       DatabaseError, Abort, Crash, Goto, CallerPc, Active, Holding, Preparing
  <2>2. UNCHANGED <<token, status, ghosts, fixes, rpc>>
    BY <1>3 DEF Call, Validate, RefuseRate, StartTool, ToolAnswers, Timeout, AuditReport,
       DatabaseError, Abort, Crash, Goto, tokenVars, recordVars, workerVars
  <2> QED
    BY <1>0, <2>1, <2>2, FreshGoto
<1>4. CASE Land(c)
  BY <1>4 DEF Land, tokenVars, recordVars, workerVars, FreshRecord, FreshClaim, Undoing
<1>5. CASE Consume(c)
  <2>1. UNCHANGED <<status, ghosts, fixes, rpc>>
    BY <1>5 DEF Consume, recordVars, workerVars
  <2>2. CASE Consumable(d)
    <3>1. token[d] # "used" /\ status[d] = "absent"
      BY <1>0, <2>2 DEF Consumable, FreshRecord
    <3>2. token' = [token EXCEPT ![d] = "used"] /\ pc' = [pc EXCEPT ![c] = "lookup"]
      BY <1>5, <2>2 DEF Consume
    <3> QED
      BY <1>0, <2>1, <3>1, <3>2 DEF FreshRecord, FreshClaim, Undoing, TypeOK
  <2>3. CASE ~ Consumable(d)
    <3>1. pc' = [pc EXCEPT ![c] = "abort"] /\ UNCHANGED token
      BY <1>5, <2>3 DEF Consume
    <3> QED
      BY <1>0, <2>1, <3>1, FreshGoto DEF Preparing
  <2> QED
    BY <2>2, <2>3
<1>6. CASE Lookup(c)
  \* It finds nothing: none of the other answers is given.
  <2>1. status[d] = "absent" /\ pc' = [pc EXCEPT ![c] = "create"]
    BY <1>6 DEF Lookup, Goto, AfterRead, FreshRecord, FreshClaim
  <2>2. UNCHANGED <<token, status, ghosts, fixes, rpc>>
    BY <1>6 DEF Lookup, Goto, tokenVars, recordVars, workerVars
  <2> QED
    BY <1>0, <2>1, <2>2 DEF FreshRecord, FreshClaim, Undoing, TypeOK
<1>7. CASE Create(c)
  <2>1. /\ pc[c] = "create" /\ status[d] = "absent"
        /\ status' = [status EXCEPT ![d] = "PENDING"]
        /\ pc' = [pc EXCEPT ![c] = "acquire"]
        /\ UNCHANGED <<token, ghosts, fixes, rpc>>
    BY <1>7 DEF Create, tokenVars, workerVars, FreshRecord, FreshClaim
  <2>2. token[d] = "used"
    BY <1>1, <2>1 DEF Holding
  <2>3. FreshClaim'
    BY <1>0, <1>2, <2>1 DEF FreshRecord, FreshClaim, TypeOK, Preparing, Holding
  <2> QED
    BY <1>0, <2>1, <2>2, <2>3 DEF FreshRecord, Undoing, TypeOK
<1>8. CASE Acquire(c)
  <2>1. /\ pc[c] = "acquire"
        /\ status' = [status EXCEPT ![d] = "EXECUTING"]
        /\ pc' = [pc EXCEPT ![c] = "limit"]
        /\ UNCHANGED <<token, ghosts, fixes, rpc>>
    BY <1>8 DEF Acquire, tokenVars, workerVars, FreshRecord, FreshClaim
  <2>2. token[d] = "used"
    BY <1>1, <2>1 DEF Holding
  <2>3. FreshClaim'
    BY <1>0, <1>2, <2>1 DEF FreshRecord, FreshClaim, TypeOK, Preparing, Holding
  <2> QED
    BY <1>0, <2>1, <2>2, <2>3 DEF FreshRecord, Undoing, TypeOK
<1>9. CASE MarkUnknown(c) \/ Finalize(c)
  <2>1. /\ pc[c] \in Holding /\ pc[c] \notin Preparing
        /\ \E label \in {"abort", "audit"} : pc' = [pc EXCEPT ![c] = label]
        /\ \E s \in {"UNKNOWN", "COMPLETED", "RECONCILIATION_REQUIRED", "FAILED"} :
             status' = [status EXCEPT ![d] = s]
        /\ UNCHANGED <<token, ghosts, fixes, rpc>>
    BY <1>9 DEF MarkUnknown, Finalize, FinalStatus, Holding, Preparing, tokenVars, workerVars
  <2>2. token[d] = "used"
    BY <1>1, <2>1
  <2>3. \A b \in Callers : pc'[b] \in Preparing => pc'[b] = pc[b] /\ DecisionOf[b] # d
    BY <1>0, <1>2, <2>1 DEF TypeOK, Preparing
  <2>4. FreshClaim'
    BY <1>0, <2>1, <2>3, OperatorAssumption
       DEF FreshRecord, FreshClaim, TypeOK, Preparing
  <2> QED
    BY <1>0, <2>1, <2>2, <2>4 DEF FreshRecord, Undoing, TypeOK
<1> QED
  BY <1>3, <1>4, <1>5, <1>6, <1>7, <1>8, <1>9 DEF CallerStep

\* A sweep or a rollback rewrites a record that has been executed: no claimant waits at it.
LEMMA FreshRewrite ==
  ASSUME TypeOK, FreshRecord, NEW d \in Decisions, status[d] \notin {"absent", "PENDING"},
         NEW s \in RecordStatus \ {"absent", "PENDING"}, status' = [status EXCEPT ![d] = s],
         ghosts' \subseteq ghosts, fixes' \subseteq fixes,
         \A e \in Decisions : Undoing(e)' => Undoing(e),
         UNCHANGED <<token, pc>>
  PROVE  FreshRecord'
<1>1. \A e \in Decisions : status'[e] = status[e] \/ e = d
  BY DEF TypeOK
<1>2. FreshClaim'
  BY <1>1, OperatorAssumption DEF FreshRecord, FreshClaim
<1>3. status'[d] = s
  BY DEF TypeOK
<1>4. token[d] = "used"
  BY DEF FreshRecord
<1> QED
  BY <1>1, <1>2, <1>3, <1>4 DEF FreshRecord

LEMMA FreshOtherStep ==
  ASSUME Inv, FreshRecord, [Next]_vars, ~ \E c \in Callers : CallerStep(c)
  PROVE  FreshRecord'
<1>0. TypeOK
  BY DEF Inv
<1>1. ASSUME NEW d \in Decisions, DecisionStep(d) PROVE FreshRecord'
  <2>1. CASE MintToken(d) \/ ExpireToken(d)
    <3>1. /\ UNCHANGED <<pc, status, ghosts, fixes, rpc>>
          /\ \A e \in Decisions : token'[e] # "used" => token[e] # "used"
      BY <1>0, <2>1 DEF MintToken, ExpireToken, recordVars, workerVars, TypeOK
    <3> QED
      BY <3>1 DEF FreshRecord, FreshClaim, Undoing
  <2>2. CASE GoStale(d)
    BY <2>2 DEF GoStale, tokenVars, workerVars, FreshRecord, FreshClaim, Undoing
  <2>3. CASE GhostForce(d)
    <3>1. status[d] \notin {"absent", "PENDING"}
      BY <2>3 DEF GhostForce, FreshRecord
    <3> QED
      BY <1>0, <2>3, <3>1, FreshRewrite
         DEF GhostForce, tokenVars, workerVars, Undoing, RecordStatus
  <2>4. CASE ReconcileFix(d)
    <3>1. status[d] \notin {"absent", "PENDING"}
      BY <2>4 DEF ReconcileFix, FreshRecord
    <3> QED
      BY <1>0, <2>4, <3>1, FreshRewrite
         DEF ReconcileFix, tokenVars, workerVars, Undoing, RecordStatus
  <2> QED
    BY <1>1, <2>1, <2>2, <2>3, <2>4 DEF DecisionStep
<1>2. ASSUME NEW r \in Rollbacks, RollbackStep(r) PROVE FreshRecord'
  <2>0. RollbackOf[r] \in Decisions
    BY OperatorAssumption
  <2>1. CASE RollbackStart(r) \/ RollbackTool(r) \/ RollbackFail(r)
    <3>1. UNCHANGED <<token, pc, status, ghosts, fixes>>
      BY <2>1 DEF RollbackStart, RollbackTool, RollbackFail, tokenVars, recordVars, workerVars
    <3>2. \A e \in Decisions : Undoing(e)' => Undoing(e) \/ status[e] = "COMPLETED"
      BY <1>0, <2>1 DEF RollbackStart, RollbackTool, RollbackFail, Undoing, TypeOK
    <3> QED
      BY <3>1, <3>2 DEF FreshRecord, FreshClaim
  <2>2. CASE RollbackRecord(r)
    <3>1. status[RollbackOf[r]] \notin {"absent", "PENDING"}
      BY <2>0, <2>2 DEF RollbackRecord, FreshRecord, Undoing
    <3>2. \A e \in Decisions : Undoing(e)' => Undoing(e)
      BY <1>0, <2>2 DEF RollbackRecord, Undoing, TypeOK
    <3>3. \E s \in {"UNKNOWN", "FAILED"} : status' = [status EXCEPT ![RollbackOf[r]] = s]
      BY <2>2 DEF RollbackRecord
    <3>4. UNCHANGED <<token, pc, ghosts, fixes>>
      BY <2>2 DEF RollbackRecord, tokenVars, workerVars
    <3> QED
      BY <1>0, <2>0, <3>1, <3>2, <3>3, <3>4, FreshRewrite DEF RecordStatus
  <2> QED
    BY <1>2, <2>1, <2>2 DEF RollbackStep
<1>3. CASE RestartWithNewKeys
  <2>1. /\ UNCHANGED <<token, status, ghosts, fixes, rpc>>
        /\ \A c \in Callers : pc'[c] \in {pc[c], "crashed"}
    BY <1>3 DEF RestartWithNewKeys, recordVars, workerVars
  <2> QED
    BY <2>1 DEF FreshRecord, FreshClaim, Undoing
<1>4. CASE GhostScan \/ ReconcileScan \/ ReconcileFail
  <2>1. /\ UNCHANGED <<token, pc, status, rpc>>
        /\ \A e \in ghosts' \ ghosts : status[e] = "EXECUTING"
        /\ \A e \in fixes' \ fixes : status[e] \in {"UNKNOWN", "RECONCILIATION_REQUIRED"}
    BY <1>4 DEF GhostScan, Stuck, ReconcileScan, Fixable, ReconcileFail, tokenVars, recordVars
  <2> QED
    BY <2>1 DEF FreshRecord, FreshClaim, Undoing
<1>5. CASE UNCHANGED vars
  BY <1>5 DEF vars, tokenVars, recordVars, workerVars, FreshRecord, FreshClaim, Undoing
<1> QED
  BY <1>1, <1>2, <1>3, <1>4, <1>5 DEF Next

LEMMA FreshAlways == Spec => []FreshRecord
<1>1. Init => FreshRecord
  BY OperatorAssumption DEF Init, FreshRecord, FreshClaim, Undoing
<1>2. Inv /\ FreshRecord /\ [Next]_vars => FreshRecord'
  BY FreshCallerStep, FreshOtherStep
<1> QED
  BY <1>1, <1>2, InvAlways, PTL DEF Spec

\* A call that has consumed its token meets no record but its own: the idempotent answer,
\* the refusals of EXECUTING and UNKNOWN, the unique violation and the second attempt at a
\* FAILED record are branches that no execution takes.
THEOREM ClaimFindsNoRecord == Spec => []FreshClaim
  BY FreshAlways, PTL DEF FreshRecord

-----------------------------------------------------------------------------
\* The claim of a call that returned stays its own: returned is reached from Holding only,
\* and a used token is not claimed again.
LEMMA KeeperStep ==
  ASSUME Inv, SoleKeeper, [Next]_vars
  PROVE  SoleKeeper'
<1> DEFINE Keeps(c) == pc[c] \in Holding \cup {"returned"}
<1>0. TypeOK /\ \A c \in Callers : DecisionOf[c] \in Decisions
  BY OperatorAssumption DEF Inv
<1>1. \A c \in Callers : Keeps(c) => token[DecisionOf[c]] = "used"
  BY DEF Inv, SoleHolder, SoleKeeper
<1>2. \A d \in Decisions : token[d] = "used" => token'[d] = "used"
  BY <1>0 DEF TypeOK, Next, vars, CallerStep, DecisionStep, RollbackStep, tokenVars, Goto,
     Call, Validate, Consume, Lookup, Create, Acquire, RefuseRate, StartTool, MarkUnknown,
     Land, ToolAnswers, Timeout, Finalize, AuditReport, DatabaseError, Abort, Crash,
     MintToken, ExpireToken, GoStale, GhostForce, ReconcileFix, RollbackStart, RollbackTool,
     RollbackRecord, RollbackFail, RestartWithNewKeys, GhostScan, ReconcileScan, ReconcileFail
<1>3. SUFFICES ASSUME \/ \A c \in Callers : Keeps(c)' => Keeps(c)
                      \/ \E c \in Callers :
                           /\ token[DecisionOf[c]] # "used" /\ token'[DecisionOf[c]] = "used"
                           /\ \A b \in Callers \ {c} : Keeps(b)' => Keeps(b)
               PROVE  SoleKeeper'
  <2>1. ASSUME NEW c \in Callers, CallerStep(c), ~ (Consume(c) /\ Consumable(DecisionOf[c]))
        PROVE  \A b \in Callers : Keeps(b)' => Keeps(b)
    <3>1. \A b \in Callers \ {c} : pc'[b] = pc[b]
      BY <1>0, <2>1 DEF TypeOK, CallerStep, Goto, Call, Validate, Consume, Lookup, Create,
         Acquire, RefuseRate, StartTool, MarkUnknown, Land, ToolAnswers, Timeout, Finalize,
         AuditReport, DatabaseError, Abort, Crash
    <3>2. pc[c] \notin Holding =>
            pc'[c] = pc[c] \/ pc'[c] \in {"validate", "consume", "abort", "threw", "crashed"}
      BY <1>0, <2>1 DEF TypeOK, CallerStep, Goto, Call, Validate, Consume, Lookup, Create,
         Acquire, RefuseRate, StartTool, MarkUnknown, Land, ToolAnswers, Timeout, Finalize,
         AuditReport, DatabaseError, Abort, Crash, Holding
    <3> QED
      BY <3>1, <3>2 DEF Holding
  <2>2. ASSUME NEW c \in Callers, Consume(c), Consumable(DecisionOf[c])
        PROVE  /\ token[DecisionOf[c]] # "used" /\ token'[DecisionOf[c]] = "used"
               /\ \A b \in Callers \ {c} : Keeps(b)' => Keeps(b)
    BY <1>0, <2>2 DEF Consume, Consumable, TypeOK
  <2>3. CASE \E d \in Decisions : DecisionStep(d)
    BY <2>3 DEF DecisionStep, MintToken, ExpireToken, GoStale, GhostForce, ReconcileFix
  <2>4. CASE \E r \in Rollbacks : RollbackStep(r)
    BY <2>4 DEF RollbackStep, RollbackStart, RollbackTool, RollbackRecord, RollbackFail
  <2>5. CASE RestartWithNewKeys
    BY <2>5 DEF RestartWithNewKeys, Holding
  <2>6. CASE GhostScan \/ ReconcileScan \/ ReconcileFail \/ UNCHANGED vars
    BY <2>6 DEF GhostScan, ReconcileScan, ReconcileFail, vars
  <2> QED
    BY <1>3, <2>1, <2>2, <2>3, <2>4, <2>5, <2>6 DEF Next
<1>4. \A b, c \in Callers : Keeps(b) /\ Keeps(c) /\ DecisionOf[b] = DecisionOf[c] => b = c
  BY DEF SoleKeeper
<1>5. CASE \A c \in Callers : Keeps(c)' => Keeps(c)
  BY <1>0, <1>1, <1>2, <1>4, <1>5 DEF SoleKeeper
<1>6. ASSUME NEW c \in Callers,
             token[DecisionOf[c]] # "used", token'[DecisionOf[c]] = "used",
             \A b \in Callers \ {c} : Keeps(b)' => Keeps(b)
      PROVE  SoleKeeper'
  <2>1. \A b \in Callers \ {c} : Keeps(b)' => DecisionOf[b] # DecisionOf[c]
    BY <1>1, <1>6
  <2> QED
    BY <1>0, <1>1, <1>2, <1>4, <1>6, <2>1 DEF SoleKeeper
<1> QED
  BY <1>3, <1>5, <1>6

\* A start and its effect, once there, stay one and one.
LEMMA CountsStay ==
  ASSUME Inv, [Next]_vars, NEW d \in Decisions
  PROVE  /\ invocations[d] = 1 => invocations'[d] = 1
         /\ effects[d] = 1 => effects'[d] = 1
<1>0. TypeOK /\ \A c \in Callers : DecisionOf[c] \in Decisions
  BY OperatorAssumption DEF Inv
<1>1. ASSUME NEW c \in Callers, StartTool(c)
      PROVE  /\ invocations[d] = 1 => invocations'[d] = 1
             /\ UNCHANGED effects
  <2>1. invocations[DecisionOf[c]] = 0
    BY <1>1 DEF StartTool, Inv, StartedOnlyByHolder
  <2> QED
    BY <1>0, <1>1, <2>1 DEF StartTool, TypeOK
<1>2. ASSUME NEW c \in Callers, Land(c)
      PROVE  /\ UNCHANGED invocations
             /\ effects[d] = 1 => effects'[d] = 1
  <2>1. effects[DecisionOf[c]] = 0
    BY <1>2 DEF Land, Inv, OneRequest
  <2> QED
    BY <1>0, <1>2, <2>1 DEF Land, TypeOK
<1>3. \/ \E c \in Callers : StartTool(c) \/ Land(c)
      \/ UNCHANGED <<invocations, effects>>
  BY DEF Next, vars, CallerStep, DecisionStep, RollbackStep, historyVars, Goto,
     Call, Validate, Consume, Lookup, Create, Acquire, RefuseRate, MarkUnknown,
     ToolAnswers, Timeout, Finalize, AuditReport, DatabaseError, Abort, Crash,
     MintToken, ExpireToken, GoStale, GhostForce, ReconcileFix, RollbackStart, RollbackTool,
     RollbackRecord, RollbackFail, RestartWithNewKeys, GhostScan, ReconcileScan, ReconcileFail
<1> QED
  BY <1>1, <1>2, <1>3

\* No step of any caller makes a report untrue.
LEMMA ReportedStep ==
  ASSUME Inv, FreshRecord, Reported, [Next]_vars, NEW b \in Callers
  PROVE  ReportOf(b)'
<1> DEFINE d == DecisionOf[b]
<1>0. /\ TypeOK /\ d \in Decisions /\ ReportOf(b)
      /\ invocations[d] = 1 => invocations'[d] = 1
      /\ effects[d] = 1 => effects'[d] = 1
  BY OperatorAssumption, CountsStay DEF Inv, Reported
<1>1. CASE pc'[b] = pc[b] /\ result'[b] = result[b]
  BY <1>0, <1>1 DEF ReportOf
<1>2. CASE StartTool(b)
  <2>1. invocations[d] = 0 /\ pc'[b] = "await" /\ invocations'[d] = invocations[d] + 1
    BY <1>0, <1>2 DEF StartTool, Inv, StartedOnlyByHolder, TypeOK
  <2> QED
    BY <2>1 DEF ReportOf
<1>3. CASE ToolAnswers(b) \/ Timeout(b)
  \* SUCCESS is the answer of a request that has landed, UNKNOWN that of a transfer.
  <2>1. pc[b] = "await" /\ pc'[b] = "finalize" /\ UNCHANGED <<invocations, effects>>
    BY <1>0, <1>3 DEF ToolAnswers, Timeout, historyVars, TypeOK
  <2>2. \/ result'[b] = "SUCCESS" /\ b \notin inflight
        \/ result'[b] = "UNKNOWN" /\ d \in Transfers
        \/ result'[b] = "FAILED"
    BY <1>0, <1>3 DEF ToolAnswers, Timeout, TypeOK
  <2>3. b \notin inflight => effects[d] = 1
    BY <2>1 DEF Inv, AwaitedLanded
  <2> QED
    BY <1>0, <2>1, <2>2, <2>3 DEF ReportOf
<1>4. CASE Finalize(b)
  <2>1. pc[b] = "finalize" /\ pc'[b] = "audit" /\ UNCHANGED <<result, invocations, effects>>
    BY <1>0, <1>4 DEF Finalize, historyVars, TypeOK
  <2> QED
    BY <1>0, <2>1 DEF ReportOf
<1>5. CASE AuditReport(b)
  <2>1. /\ pc[b] = "audit" /\ UNCHANGED <<result, invocations, effects>>
        /\ pc'[b] = IF result[b] = "FAILED" THEN "abort" ELSE "returned"
    BY <1>0, <1>5 DEF AuditReport, Goto, historyVars, TypeOK
  <2> QED
    BY <1>0, <2>1 DEF ReportOf
<1>6. CASE /\ result'[b] = result[b]
           /\ pc'[b] \notin {"await", "finalize", "audit", "returned"}
  BY <1>6 DEF ReportOf
<1>7. CASE Lookup(b)
  \* The idempotent return is not taken.
  <2>1. status[d] = "absent"
    BY <1>7 DEF Lookup, FreshRecord, FreshClaim
  <2>2. pc'[b] = "create" /\ UNCHANGED result
    BY <1>0, <1>7, <2>1 DEF Lookup, AfterRead, Goto, TypeOK
  <2> QED
    BY <1>6, <2>2
<1>8. ASSUME NEW c \in Callers, CallerStep(c), c # b PROVE pc'[b] = pc[b] /\ result'[b] = result[b]
  BY <1>0, <1>8 DEF TypeOK, CallerStep, Goto, Call, Validate, Consume, Lookup, Create,
     Acquire, RefuseRate, StartTool, MarkUnknown, Land, ToolAnswers, Timeout, Finalize,
     AuditReport, DatabaseError, Abort, Crash
<1>9. CASE CallerStep(b)
  <2>1. CASE Land(b)
    BY <1>1, <2>1 DEF Land
  <2>2. CASE \/ Call(b) \/ Validate(b) \/ Consume(b) \/ Create(b) \/ Acquire(b)
             \/ RefuseRate(b) \/ MarkUnknown(b) \/ DatabaseError(b) \/ Abort(b) \/ Crash(b)
    <3>1. /\ result'[b] = result[b]
          /\ pc'[b] \notin {"await", "finalize", "audit", "returned"}
      BY <1>0, <2>2 DEF TypeOK, Goto, Call, Validate, Consume, Create, Acquire, RefuseRate,
         MarkUnknown, DatabaseError, Abort, Crash
    <3> QED
      BY <1>6, <3>1
  <2> QED
    BY <1>2, <1>3, <1>4, <1>5, <1>7, <1>9, <2>1, <2>2 DEF CallerStep
<1>10. CASE RestartWithNewKeys
  BY <1>1, <1>6, <1>10 DEF RestartWithNewKeys
<1>11. ASSUME ~ (\E c \in Callers : CallerStep(c)), ~ RestartWithNewKeys
       PROVE  UNCHANGED <<pc, result>>
  BY <1>11 DEF Next, vars, DecisionStep, RollbackStep, MintToken, ExpireToken, GoStale,
     GhostForce, ReconcileFix, RollbackStart, RollbackTool, RollbackRecord, RollbackFail,
     GhostScan, ReconcileScan, ReconcileFail
<1> QED
  BY <1>1, <1>8, <1>9, <1>10, <1>11

\* What the coordinator and the override endpoint build on: one call per decision returns
\* at most, after its own single start of the tool, with the effect taken or with the
\* uncertainty only a transfer reports.
THEOREM OneHonestReturn == Spec => []ReturnIsHonest
<1>1. Init => SoleKeeper /\ Reported
  BY DEF Init, SoleKeeper, Reported, ReportOf, Holding
<1>2. Inv /\ FreshRecord /\ SoleKeeper /\ Reported /\ [Next]_vars => SoleKeeper' /\ Reported'
  <2> SUFFICES ASSUME Inv, FreshRecord, SoleKeeper, Reported, [Next]_vars
               PROVE  SoleKeeper' /\ Reported'
    OBVIOUS
  <2>1. \A c \in Callers : ReportOf(c)'
    BY ReportedStep
  <2> QED
    BY <2>1, KeeperStep DEF Reported
<1>3. SoleKeeper /\ Reported => ReturnIsHonest
  BY DEF SoleKeeper, Reported, ReportOf, ReturnIsHonest
<1> QED
  BY <1>1, <1>2, <1>3, InvAlways, FreshAlways, PTL DEF Spec
=============================================================================
