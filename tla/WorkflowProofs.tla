--------------------------- MODULE WorkflowProofs ---------------------------
(***************************************************************************)
(* Proofs about Workflow, for any tasks, requests, deliveries, runs of a   *)
(* job and replan attempts.  The intake is carried over from IntakeProofs. *)
(***************************************************************************)
EXTENDS Workflow, IntakeProofs, FiniteSetTheorems

\* The runs of t that took their one action, or had it taken by the override.
Acted(t) == {n \in 1..MaxRuns : record[<<t, n>>] # "none"}

\* A run that has a record is past its call of the operator, a run that escalated never
\* comes to that call, and the override calls it once.
RecordedOnce ==
  \A p \in Runs :
    /\ run[p] \in {"idle", "start", "plan", "vet", "govern", "operate"} => record[p] = "none"
    /\ p \in escalated => run[p] \in {"await", "fail", "done", "interrupted"}
    /\ human[p] # "none" => p \in escalated
    /\ p \in escalated /\ human[p] \in {"none", "operate"} => record[p] = "none"

\* A run, or an override, that is about to complete its task has seen the call return.
FinishedActs ==
  \A p \in Runs :
    /\ run[p] = "finish" => record[p] = "COMPLETED"
    /\ human[p] = "resolve" => record[p] \in {"COMPLETED", "RECONCILIATION_REQUIRED"}

\* Each record stands for one action at most.
ActionsRecorded == \A t \in Tasks : executions[t] <= Cardinality(Acted(t))

\* No run begins before its task is stored: every update of the loop finds its row.
StoredFirst == \A p \in Runs : run[p] # "idle" => task[p[1]] # "absent"

Inv ==
  /\ IntakeInv
  /\ TypeOK
  /\ RecordedOnce
  /\ FinishedActs
  /\ ActionsRecorded
  /\ CompletedWasExecuted

LEMMA ActedIsFinite ==
  \A t : IsFiniteSet(Acted(t)) /\ Cardinality(Acted(t)) \in Nat
<1> SUFFICES ASSUME NEW t PROVE IsFiniteSet(Acted(t)) /\ Cardinality(Acted(t)) \in Nat
  OBVIOUS
<1>1. IsFiniteSet(1..MaxRuns)
  BY WorkflowAssumption, FS_Interval
<1>2. Acted(t) \subseteq 1..MaxRuns
  BY DEF Acted
<1> QED
  BY <1>1, <1>2, FS_Subset, FS_CardinalityType

\* A record that is made counts for one action more; the others stay.
LEMMA RecordCounts ==
  ASSUME TypeOK, NEW p \in Runs, record[p] = "none",
         NEW label \in {"COMPLETED", "RECONCILIATION_REQUIRED", "unfinished"},
         record' = [record EXCEPT ![p] = label]
  PROVE  /\ Cardinality(Acted(p[1])') = Cardinality(Acted(p[1])) + 1
         /\ \A t \in Tasks \ {p[1]} : Acted(t)' = Acted(t)
<1> USE WorkflowAssumption
<1>1. p[1] \in Tasks /\ p[2] \in 1..MaxRuns /\ p = <<p[1], p[2]>>
  BY DEF Runs
<1>2. \A q \in Runs : record'[q] = IF q = p THEN label ELSE record[q]
  BY DEF TypeOK
<1>3. \A t \in Tasks, n \in 1..MaxRuns :
        <<t, n>> \in Runs /\ (<<t, n>> = p <=> t = p[1] /\ n = p[2])
  BY <1>1 DEF Runs
<1>4. Acted(p[1])' = Acted(p[1]) \cup {p[2]} /\ p[2] \notin Acted(p[1])
  BY <1>1, <1>2, <1>3 DEF Acted
<1>5. \A t \in Tasks \ {p[1]} : Acted(t)' = Acted(t)
  BY <1>2, <1>3 DEF Acted
<1>6. Cardinality(Acted(p[1]) \cup {p[2]}) = Cardinality(Acted(p[1])) + 1
  BY <1>4, ActedIsFinite, FS_AddElement
<1> QED
  BY <1>4, <1>5, <1>6

LEMMA InitInv == Init => Inv
<1> SUFFICES ASSUME Init PROVE Inv
  OBVIOUS
<1> USE WorkflowAssumption
<1>1. IntakeInv
  BY IntakeInitInv DEF Init
<1>2. TypeOK
  BY <1>1 DEF Init, TypeOK, IntakeInv
<1>3. RecordedOnce /\ FinishedActs
  BY DEF Init, RecordedOnce, FinishedActs
<1>4. ActionsRecorded
  <2> SUFFICES ASSUME NEW t \in Tasks PROVE executions[t] <= Cardinality(Acted(t))
    BY DEF ActionsRecorded
  <2>1. executions[t] = 0 /\ Cardinality(Acted(t)) \in Nat
    BY ActedIsFinite DEF Init
  <2> QED
    BY <2>1
<1>5. CompletedWasExecuted
  BY DEF Init, IntakeInit, CompletedWasExecuted
<1> QED
  BY <1>1, <1>2, <1>3, <1>4, <1>5 DEF Inv

\* The intake stores PENDING tasks, and nothing of the loop.
LEMMA IntakeStepKeeps ==
  ASSUME Inv, IntakeNext, UNCHANGED loopVars
  PROVE  Inv'
<1>1. IntakeInv'
  BY IntakeInvStep DEF Inv
<1>2. TypeOK'
  BY <1>1 DEF Inv, TypeOK, IntakeInv, loopVars, runVars, timeVars
<1>3. RecordedOnce' /\ FinishedActs'
  BY DEF Inv, RecordedOnce, FinishedActs, loopVars, runVars
<1>4. ActionsRecorded'
  BY DEF Inv, ActionsRecorded, Acted, loopVars
<1>5. \A t \in Tasks : task'[t] = "COMPLETED" => task[t] = "COMPLETED"
  <2>1. ASSUME NEW r \in Requests, RequestStep(r)
        PROVE  \A t \in Tasks : task'[t] = "COMPLETED" => task[t] = "COMPLETED"
    BY <2>1 DEF RequestStep, Find, Create, Enqueue, EnqueueLost, IntakeError, Inv, TypeOK,
                IntakeTypeOK
  <2>2. ASSUME NEW h \in Deliveries,
               Receive(h) \/ Outdate(h) \/ DeliveryStep(h) \/ DeliveryDies(h)
        PROVE  \A t \in Tasks : task'[t] = "COMPLETED" => task[t] = "COMPLETED"
    BY <2>2 DEF Receive, Outdate, DeliveryStep, SkipEvent, StoreEvent, EnqueueEvent,
                DeliveryDies, Inv, TypeOK, IntakeTypeOK
  <2> QED
    BY <2>1, <2>2 DEF IntakeNext
<1>6. CompletedWasExecuted'
  BY <1>5 DEF Inv, CompletedWasExecuted, loopVars
<1> QED
  BY <1>1, <1>2, <1>3, <1>4, <1>6 DEF Inv

\* What a step that leaves the records alone has to show.
LEMMA QuietStep ==
  ASSUME Inv, TypeOK', UNCHANGED <<intakeVars, record, executions>>,
         \A t \in Tasks : task'[t] = "absent" <=> task[t] = "absent",
         \A t \in Tasks : task'[t] = "COMPLETED" /\ task[t] # "COMPLETED" =>
           \E n \in 1..MaxRuns : record[<<t, n>>] \in {"COMPLETED", "RECONCILIATION_REQUIRED"},
         RecordedOnce', FinishedActs'
  PROVE  Inv'
<1>1. IntakeInv'
  <2>1. task' \in [Tasks -> TaskStatus]
    BY DEF TypeOK, IntakeTypeOK
  <2> QED
    BY <2>1, LoopKeepsIntake DEF Inv
<1>2. ActionsRecorded'
  BY DEF Inv, ActionsRecorded, Acted
<1>3. CompletedWasExecuted'
  BY DEF Inv, CompletedWasExecuted
<1> QED
  BY <1>1, <1>2, <1>3 DEF Inv

\* executeDecision has ended for p, called by the loop or by the override.
LEMMA SettleStep ==
  ASSUME Inv, TypeOK', NEW p \in Runs, NEW o \in Outcomes \cup TransferOutcomes,
         Settle(p, o), record[p] = "none", task[p[1]] # "absent", UNCHANGED intakeVars,
         RecordedOnce', FinishedActs'
  PROVE  Inv'
<1> USE WorkflowAssumption
<1>1. /\ o.record \in {"COMPLETED", "RECONCILIATION_REQUIRED", "unfinished"}
      /\ o.acted \in {0, 1}
  BY DEF Outcomes, TransferOutcomes
<1>2. /\ record' = [record EXCEPT ![p] = o.record]
      /\ executions' = [executions EXCEPT ![p[1]] = executions[p[1]] + o.acted]
      /\ task' \in {task, [task EXCEPT ![p[1]] = "FAILED"]}
  BY DEF Settle
<1>3. p[1] \in Tasks
  BY DEF Runs
<1>4. IntakeInv'
  <2>1. task' \in [Tasks -> TaskStatus]
    BY DEF TypeOK, IntakeTypeOK
  <2>2. \A t \in Tasks : task'[t] = "absent" <=> task[t] = "absent"
    BY <1>2 DEF Inv, TypeOK, IntakeTypeOK
  <2> QED
    BY <2>1, <2>2, LoopKeepsIntake DEF Inv
<1>5. ASSUME NEW t \in Tasks PROVE executions'[t] <= Cardinality(Acted(t)')
  <2>1. executions[t] <= Cardinality(Acted(t)) /\ executions[t] \in Nat
        /\ Cardinality(Acted(t)) \in Nat
    BY ActedIsFinite DEF Inv, TypeOK, ActionsRecorded
  <2>2. executions'[t] = IF t = p[1] THEN executions[t] + o.acted ELSE executions[t]
    BY <1>2, <1>3 DEF Inv, TypeOK
  <2>3. Cardinality(Acted(t)') = IF t = p[1] THEN Cardinality(Acted(t)) + 1
                                 ELSE Cardinality(Acted(t))
    BY <1>1, <1>2, RecordCounts DEF Inv
  <2> QED
    BY <1>1, <2>1, <2>2, <2>3
<1>6. CompletedWasExecuted'
  <2>1. \A q \in Runs : record[q] # "none" => record'[q] = record[q]
    BY <1>2 DEF Inv, TypeOK
  <2>2. \A t \in Tasks : task'[t] = "COMPLETED" => task[t] = "COMPLETED"
    BY <1>2, <1>3 DEF Inv, TypeOK, IntakeTypeOK
  <2>3. \A t \in Tasks, n \in 1..MaxRuns : <<t, n>> \in Runs
    BY DEF Runs
  <2> QED
    BY <2>1, <2>2, <2>3 DEF Inv, CompletedWasExecuted
<1> QED
  BY <1>4, <1>5, <1>6 DEF Inv, ActionsRecorded

\* Every step outside the intake that only changes statuses keeps the intake's types.
LEMMA TasksTyped ==
  ASSUME IntakeTypeOK, UNCHANGED intakeVars, task' \in [Tasks -> TaskStatus]
  PROVE  IntakeTypeOK'
BY DEF IntakeTypeOK, intakeVars, hookVars

\* A step of the loop that is not its call of the operator.
QuietRun(p) ==
  \/ Deliver(p) \/ Start(p) \/ Plan(p) \/ Vet(p) \/ Govern(p) \/ Escalate(p)
  \/ Finish(p) \/ Await(p) \/ FailTask(p) \/ Interrupt(p)

LEMMA QuietRunTypes ==
  ASSUME TypeOK, NEW p \in Runs, QuietRun(p)
  PROVE  TypeOK'
<1> USE WorkflowAssumption
<1>1. p[1] \in Tasks /\ p[2] \in 0..MaxRuns
  BY DEF Runs
<1>2. UNCHANGED <<intakeVars, human, record, sweep, executions, aged>>
  BY DEF QuietRun, Deliver, Start, Plan, Vet, Govern, Escalate, Finish, Await, FailTask,
         Interrupt, Goto, timeVars
<1>3. task' \in [Tasks -> TaskStatus]
  <2>1. CASE UNCHANGED task
    BY <2>1 DEF TypeOK, IntakeTypeOK
  <2>2. CASE \E status \in TaskStatus : SetTask(p[1], status)
    BY <1>1, <2>2 DEF TypeOK, IntakeTypeOK, SetTask
  <2> QED
    BY <2>1, <2>2 DEF QuietRun, Deliver, Start, Plan, Vet, Govern, Escalate, Finish, Await,
                      FailTask, Interrupt, TaskStatus
<1>4. run' \in [Runs -> {"idle", "done", "interrupted"} \cup Active]
  <2>1. PICK label \in Active \cup {"done", "interrupted"} : run' = [run EXCEPT ![p] = label]
    BY DEF QuietRun, Deliver, Start, Plan, Vet, Govern, Escalate, Finish, Await, FailTask,
           Interrupt, Goto, Active
  <2> QED
    BY <2>1 DEF TypeOK
<1>5. attempts' \in [Runs -> 0..MaxReplan]
  <2>1. CASE UNCHANGED attempts
    BY <2>1 DEF TypeOK
  <2>2. CASE attempts[p] < MaxReplan /\ attempts' = [attempts EXCEPT ![p] = @ + 1]
    BY <2>2 DEF TypeOK
  <2> QED
    BY <2>1, <2>2 DEF QuietRun, Deliver, Start, Plan, Vet, Govern, Escalate, Finish, Await,
                      FailTask, Interrupt, Goto
<1>6. escalated' \subseteq Runs
  BY DEF QuietRun, Deliver, Start, Plan, Vet, Govern, Escalate, Finish, Await, FailTask,
         Interrupt, TypeOK
<1>7. deadline' \in [Tasks -> 0..MaxRuns] /\ overdue' \subseteq Tasks
  <2>1. CASE UNCHANGED <<deadline, overdue>>
    BY <2>1 DEF TypeOK
  <2>2. CASE Await(p)
    BY <1>1, <2>2 DEF Await, TypeOK
  <2> QED
    BY <2>1, <2>2 DEF QuietRun, Deliver, Start, Plan, Vet, Govern, Escalate, Finish, FailTask,
                      Interrupt, timeVars
<1>8. IntakeTypeOK'
  BY <1>2, <1>3, TasksTyped DEF TypeOK
<1> QED
  BY <1>2, <1>4, <1>5, <1>6, <1>7, <1>8 DEF TypeOK

LEMMA QuietRunStep ==
  ASSUME Inv, StoredFirst, NEW p \in Runs, QuietRun(p)
  PROVE  Inv'
<1>0. TypeOK /\ TypeOK'
  BY QuietRunTypes DEF Inv
<1>1. UNCHANGED <<intakeVars, human, record, executions>>
  BY DEF QuietRun, Deliver, Start, Plan, Vet, Govern, Escalate, Finish, Await, FailTask,
         Interrupt, Goto
<1>2. PICK label \in Active \cup {"done", "interrupted"} : run' = [run EXCEPT ![p] = label]
  BY DEF QuietRun, Deliver, Start, Plan, Vet, Govern, Escalate, Finish, Await, FailTask,
         Interrupt, Goto, Active
<1>3. \A q \in Runs : run'[q] = IF q = p THEN label ELSE run[q]
  BY <1>0, <1>2 DEF TypeOK
<1>4. /\ label # "finish"
      /\ label \in {"start", "plan", "vet", "govern", "operate"} =>
           run[p] \in {"idle", "start", "plan", "vet", "govern"}
      /\ run[p] \in {"await", "fail", "done", "interrupted"} => label \in {"done", "interrupted"}
      /\ \/ UNCHANGED escalated
         \/ run[p] = "govern" /\ label \in {"await", "fail"} /\ escalated' = escalated \cup {p}
  <2>1. run'[p] = label
    BY <1>3
  <2>2. CASE Deliver(p)
    BY <1>0, <2>1, <2>2 DEF Deliver, Goto, TypeOK
  <2>3. CASE Start(p)
    BY <1>0, <2>1, <2>3 DEF Start, Goto, TypeOK
  <2>4. CASE Plan(p)
    BY <1>0, <2>1, <2>4 DEF Plan, TypeOK
  <2>5. CASE Vet(p)
    BY <1>0, <2>1, <2>5 DEF Vet, Goto, TypeOK
  <2>6. CASE Govern(p)
    BY <1>0, <2>1, <2>6 DEF Govern, Goto, TypeOK
  <2>7. CASE Escalate(p)
    BY <1>0, <2>1, <2>7 DEF Escalate, Goto, TypeOK
  <2>8. CASE Finish(p) \/ Await(p) \/ FailTask(p) \/ Interrupt(p)
    BY <1>0, <2>1, <2>8 DEF Finish, Await, FailTask, Interrupt, Goto, TypeOK
  <2> QED
    BY <2>2, <2>3, <2>4, <2>5, <2>6, <2>7, <2>8 DEF QuietRun
<1>5. RecordedOnce'
  <2> SUFFICES ASSUME NEW q \in Runs
               PROVE  /\ run'[q] \in {"idle", "start", "plan", "vet", "govern", "operate"} =>
                           record[q] = "none"
                      /\ q \in escalated' => run'[q] \in {"await", "fail", "done", "interrupted"}
                      /\ human[q] # "none" => q \in escalated'
                      /\ q \in escalated' /\ human[q] \in {"none", "operate"} =>
                           record[q] = "none"
    BY <1>1 DEF RecordedOnce
  <2>1. CASE q # p
    BY <1>3, <1>4, <2>1 DEF Inv, RecordedOnce
  <2>2. CASE q = p
    BY <1>3, <1>4, <2>2 DEF Inv, RecordedOnce, Active
  <2> QED
    BY <2>1, <2>2
<1>6. FinishedActs'
  BY <1>1, <1>3, <1>4 DEF Inv, FinishedActs
<1>7. \A t \in Tasks : task'[t] = "absent" <=> task[t] = "absent"
  <2>1. \/ UNCHANGED task
        \/ /\ run[p] # "idle"
           /\ \E status \in {"PROCESSING", "COMPLETED", "AWAITING_HUMAN", "FAILED"} :
                task' = [task EXCEPT ![p[1]] = status]
    BY DEF QuietRun, Deliver, Start, Plan, Vet, Govern, Escalate, Finish, Await, FailTask,
           Interrupt, SetTask
  <2> QED
    BY <1>0, <2>1 DEF TypeOK, IntakeTypeOK, StoredFirst
<1>8. ASSUME NEW t \in Tasks, task'[t] = "COMPLETED", task[t] # "COMPLETED"
      PROVE  \E n \in 1..MaxRuns :
               record[<<t, n>>] \in {"COMPLETED", "RECONCILIATION_REQUIRED"}
  <2>1. run[p] = "finish" /\ p[1] = t
    BY <1>0, <1>8 DEF QuietRun, Deliver, Start, Plan, Vet, Govern, Escalate, Finish, Await,
                      FailTask, Interrupt, SetTask, TypeOK, IntakeTypeOK
  <2>2. p = <<t, p[2]>> /\ p[2] \in 1..MaxRuns
    BY <2>1 DEF Runs
  <2> QED
    BY <2>1, <2>2 DEF Inv, FinishedActs
<1> QED
  BY <1>0, <1>1, <1>5, <1>6, <1>7, <1>8, QuietStep

\* The loop calls the operator.
LEMMA OperateStep ==
  ASSUME Inv, StoredFirst, NEW p \in Runs, Operate(p)
  PROVE  Inv'
<1> USE WorkflowAssumption
<1>0. /\ TypeOK /\ record[p] = "none" /\ run[p] = "operate"
      /\ p[1] \in Tasks /\ task[p[1]] # "absent"
  BY DEF Inv, RecordedOnce, StoredFirst, Operate, Runs
<1>1. PICK o \in Outcomes :
        /\ Settle(p, o)
        /\ run' = [run EXCEPT ![p] = CASE o.call = "returns" -> "finish"
                                       [] o.call = "throws"  -> "fail"
                                       [] o.call = "dies"    -> "interrupted"]
        /\ UNCHANGED <<intakeVars, attempts, escalated, human, timeVars, sweep>>
  BY DEF Operate
<1>2. /\ o.record \in {"COMPLETED", "unfinished"} /\ o.acted \in {0, 1}
      /\ o.call \in {"returns", "throws", "dies"}
      /\ o.call = "returns" => o.record = "COMPLETED"
  BY DEF Outcomes
<1>3. PICK label \in {"finish", "fail", "interrupted"} :
        run' = [run EXCEPT ![p] = label] /\ (label = "finish" => o.record = "COMPLETED")
  BY <1>1, <1>2
<1>4. /\ \A q \in Runs : run'[q] = IF q = p THEN label ELSE run[q]
      /\ \A q \in Runs : record'[q] = IF q = p THEN o.record ELSE record[q]
  BY <1>0, <1>1, <1>3 DEF TypeOK, Settle
<1>5. TypeOK'
  <2>1. IntakeTypeOK'
    <3>1. task' \in [Tasks -> TaskStatus]
      BY <1>0, <1>1 DEF Settle, TypeOK, IntakeTypeOK, TaskStatus
    <3> QED
      BY <1>0, <1>1, <3>1, TasksTyped DEF TypeOK
  <2>2. run' \in [Runs -> {"idle", "done", "interrupted"} \cup Active]
    BY <1>0, <1>3 DEF TypeOK, Active
  <2>3. record' \in [Runs -> {"none", "COMPLETED", "RECONCILIATION_REQUIRED", "unfinished"}]
    BY <1>0, <1>1, <1>2 DEF TypeOK, Settle
  <2>4. executions' \in [Tasks -> Nat]
    BY <1>0, <1>1, <1>2 DEF TypeOK, Settle
  <2> QED
    BY <1>0, <1>1, <2>1, <2>2, <2>3, <2>4 DEF TypeOK, timeVars
<1>6. p \notin escalated /\ human[p] = "none"
  BY <1>0 DEF Inv, RecordedOnce, TypeOK
<1>7. RecordedOnce'
  <2> SUFFICES ASSUME NEW q \in Runs
               PROVE  /\ run'[q] \in {"idle", "start", "plan", "vet", "govern", "operate"} =>
                           record'[q] = "none"
                      /\ q \in escalated => run'[q] \in {"await", "fail", "done", "interrupted"}
                      /\ human[q] # "none" => q \in escalated
                      /\ q \in escalated /\ human[q] \in {"none", "operate"} =>
                           record'[q] = "none"
    BY <1>1 DEF RecordedOnce
  <2>1. CASE q # p
    BY <1>4, <2>1 DEF Inv, RecordedOnce
  <2>2. CASE q = p
    BY <1>4, <1>6, <2>2
  <2> QED
    BY <2>1, <2>2
<1>8. FinishedActs'
  BY <1>1, <1>3, <1>4, <1>6 DEF Inv, FinishedActs
<1> QED
  BY <1>0, <1>1, <1>5, <1>7, <1>8, SettleStep

\* The override of an escalated decision.
LEMMA OverrideStep ==
  ASSUME Inv, StoredFirst, NEW p \in Runs,
         OverrideRelease(p) \/ OverrideOperate(p) \/ OverrideResolve(p)
  PROVE  Inv'
<1> USE WorkflowAssumption
<1>0. TypeOK /\ p[1] \in Tasks /\ p[2] \in 1..MaxRuns /\ p = <<p[1], p[2]>>
  BY DEF Inv, Runs
<1>1. /\ UNCHANGED <<intakeVars, runVars, timeVars, sweep>>
      /\ task[p[1]] # "absent"
  BY DEF Inv, RecordedOnce, StoredFirst, OverrideRelease, OverrideOperate, OverrideResolve,
         Humanly
<1>2. CASE OverrideRelease(p)
  <2>1. /\ p \in escalated /\ human[p] = "none" /\ human' = [human EXCEPT ![p] = "operate"]
        /\ UNCHANGED <<task, record, executions>>
    BY <1>2 DEF OverrideRelease, Humanly
  <2>2. \A q \in Runs : human'[q] = IF q = p THEN "operate" ELSE human[q]
    BY <1>0, <2>1 DEF TypeOK
  <2>3. TypeOK'
    <3>1. IntakeTypeOK'
      BY <1>0, <1>1, <2>1, TasksTyped DEF TypeOK, IntakeTypeOK
    <3> QED
      BY <1>0, <1>1, <2>1, <3>1 DEF TypeOK, runVars, timeVars
  <2>4. RecordedOnce' /\ FinishedActs'
    BY <1>1, <2>1, <2>2 DEF Inv, RecordedOnce, FinishedActs, runVars
  <2> QED
    BY <1>1, <2>1, <2>3, <2>4, QuietStep
<1>3. CASE OverrideOperate(p)
  <2>1. PICK o \in Outcomes \cup TransferOutcomes :
          Settle(p, o) /\ Humanly(p, IF o.call = "returns" THEN "resolve" ELSE "ended")
    BY <1>3 DEF OverrideOperate
  <2>2. /\ o.record \in {"COMPLETED", "RECONCILIATION_REQUIRED", "unfinished"}
        /\ o.acted \in {0, 1}
        /\ o.call = "returns" => o.record # "unfinished"
    BY DEF Outcomes, TransferOutcomes
  <2>3. human[p] = "operate" /\ p \in escalated /\ record[p] = "none"
    BY <1>3 DEF OverrideOperate, Inv, RecordedOnce
  <2>4. PICK label \in {"resolve", "ended"} :
          /\ human' = [human EXCEPT ![p] = label]
          /\ label = "resolve" => o.record \in {"COMPLETED", "RECONCILIATION_REQUIRED"}
    BY <2>1, <2>2 DEF Humanly
  <2>5. /\ \A q \in Runs : human'[q] = IF q = p THEN label ELSE human[q]
        /\ \A q \in Runs : record'[q] = IF q = p THEN o.record ELSE record[q]
    BY <1>0, <2>1, <2>4 DEF TypeOK, Settle
  <2>6. TypeOK'
    <3>1. IntakeTypeOK'
      <4>1. task' \in [Tasks -> TaskStatus]
        BY <1>0, <2>1 DEF Settle, TypeOK, IntakeTypeOK, TaskStatus
      <4> QED
        BY <1>0, <1>1, <4>1, TasksTyped DEF TypeOK
    <3>2. human' \in [Runs -> {"none", "operate", "resolve", "ended"}]
      BY <1>0, <2>4 DEF TypeOK
    <3>3. record' \in [Runs -> {"none", "COMPLETED", "RECONCILIATION_REQUIRED", "unfinished"}]
      BY <1>0, <2>1, <2>2 DEF TypeOK, Settle
    <3>4. executions' \in [Tasks -> Nat]
      BY <1>0, <2>1, <2>2 DEF TypeOK, Settle
    <3> QED
      BY <1>0, <1>1, <3>1, <3>2, <3>3, <3>4 DEF TypeOK, runVars, timeVars
  <2>7. run[p] \in {"await", "fail", "done", "interrupted"}
    BY <2>3 DEF Inv, RecordedOnce
  <2>8. RecordedOnce'
    BY <1>1, <2>3, <2>5, <2>7 DEF Inv, RecordedOnce, runVars
  <2>9. FinishedActs'
    BY <1>1, <2>4, <2>5, <2>7 DEF Inv, FinishedActs, runVars
  <2> QED
    BY <1>1, <2>1, <2>3, <2>6, <2>8, <2>9, SettleStep
<1>4. CASE OverrideResolve(p)
  <2>1. /\ human[p] = "resolve" /\ human' = [human EXCEPT ![p] = "ended"]
        /\ task' \in {task, [task EXCEPT ![p[1]] = "COMPLETED"]}
        /\ UNCHANGED <<record, executions>>
    BY <1>4 DEF OverrideResolve, Humanly, SetTask
  <2>2. \A q \in Runs : human'[q] = IF q = p THEN "ended" ELSE human[q]
    BY <1>0, <2>1 DEF TypeOK
  <2>3. TypeOK'
    <3>1. task' \in [Tasks -> TaskStatus]
      BY <1>0, <2>1 DEF TypeOK, IntakeTypeOK, TaskStatus
    <3>2. IntakeTypeOK'
      BY <1>0, <1>1, <3>1, TasksTyped DEF TypeOK
    <3> QED
      BY <1>0, <1>1, <2>1, <3>2 DEF TypeOK, runVars, timeVars
  <2>4. RecordedOnce' /\ FinishedActs'
    BY <1>1, <2>1, <2>2 DEF Inv, RecordedOnce, FinishedActs, runVars
  <2>5. \A t \in Tasks : task'[t] = "absent" <=> task[t] = "absent"
    BY <1>0, <1>1, <2>1 DEF TypeOK, IntakeTypeOK
  <2>6. ASSUME NEW t \in Tasks, task'[t] = "COMPLETED", task[t] # "COMPLETED"
        PROVE  \E n \in 1..MaxRuns :
                 record[<<t, n>>] \in {"COMPLETED", "RECONCILIATION_REQUIRED"}
    <3>1. t = p[1]
      BY <1>0, <2>1, <2>6 DEF TypeOK, IntakeTypeOK
    <3> QED
      BY <1>0, <2>1, <3>1 DEF Inv, FinishedActs
  <2> QED
    BY <1>1, <2>1, <2>3, <2>4, <2>5, <2>6, QuietStep
<1> QED
  BY <1>2, <1>3, <1>4

\* Time, and the sweep, which expires tasks.
LEMMA SweepStep ==
  ASSUME Inv,
         \/ SweepScan
         \/ \E p \in Runs : Age(p)
         \/ \E t \in Tasks : PassDeadline(t) \/ SweepExpire(t)
  PROVE  Inv'
<1>0. TypeOK
  BY DEF Inv
<1>1. UNCHANGED <<intakeVars, runVars, human, record, deadline, executions>>
  BY DEF SweepScan, Age, PassDeadline, SweepExpire, timeVars
<1>2. \/ UNCHANGED task
      \/ \E t \in Tasks : task[t] = "AWAITING_HUMAN" /\ task' = [task EXCEPT ![t] = "EXPIRED"]
  BY DEF SweepScan, Age, PassDeadline, SweepExpire, Expirable
<1>3. TypeOK'
  <2>1. task' \in [Tasks -> TaskStatus]
    BY <1>0, <1>2 DEF TypeOK, IntakeTypeOK, TaskStatus
  <2>2. IntakeTypeOK'
    BY <1>0, <1>1, <2>1, TasksTyped DEF TypeOK
  <2>3. aged' \subseteq Runs /\ overdue' \subseteq Tasks /\ sweep' \subseteq Tasks
    BY <1>0 DEF SweepScan, Age, PassDeadline, SweepExpire, Due, TypeOK, timeVars
  <2> QED
    BY <1>0, <1>1, <2>2, <2>3 DEF TypeOK, runVars
<1>4. RecordedOnce' /\ FinishedActs'
  BY <1>1 DEF Inv, RecordedOnce, FinishedActs, runVars
<1>5. UNCHANGED <<intakeVars, record, executions>>
  BY <1>1
<1>6. \A t \in Tasks : task'[t] = "absent" <=> task[t] = "absent"
  BY <1>0, <1>2 DEF TypeOK, IntakeTypeOK
<1>7. \A t \in Tasks : task'[t] = "COMPLETED" => task[t] = "COMPLETED"
  BY <1>0, <1>2 DEF TypeOK, IntakeTypeOK
<1>8. \A t \in Tasks : task'[t] = "COMPLETED" /\ task[t] # "COMPLETED" =>
        \E n \in 1..MaxRuns : record[<<t, n>>] \in {"COMPLETED", "RECONCILIATION_REQUIRED"}
  BY <1>7
<1> QED
  BY <1>3, <1>4, <1>5, <1>6, <1>8, QuietStep

\* What the intake does to a task: it stores one that was not there.
LEMMA IntakeStores ==
  ASSUME Inv, IntakeNext
  PROVE  \/ UNCHANGED task
         \/ \E t \in Tasks : task[t] = "absent" /\ task' = [task EXCEPT ![t] = "PENDING"]
<1> USE IntakeAssumption
<1>1. ASSUME NEW r \in Requests, RequestStep(r)
      PROVE  \/ UNCHANGED task
             \/ \E t \in Tasks : task[t] = "absent" /\ task' = [task EXCEPT ![t] = "PENDING"]
  BY <1>1 DEF RequestStep, Find, Create, Enqueue, EnqueueLost, IntakeError
<1>2. ASSUME NEW h \in Deliveries,
             Receive(h) \/ Outdate(h) \/ SkipEvent(h) \/ EnqueueEvent(h) \/ DeliveryDies(h)
      PROVE  UNCHANGED task
  BY <1>2 DEF Receive, Outdate, SkipEvent, EnqueueEvent, DeliveryDies
<1>3. ASSUME NEW h \in Deliveries, StoreEvent(h)
      PROVE  \/ UNCHANGED task
             \/ \E t \in Tasks : task[t] = "absent" /\ task' = [task EXCEPT ![t] = "PENDING"]
  <2>1. position[h] \in 1..Len(KeysOf[h]) /\ ~ Skipped(h)
    BY <1>3 DEF StoreEvent, Inv, IntakeInv, AtEvent
  <2>2. KeysOf[h] \in Seq(Tasks \cup {NoObjective})
    OBVIOUS
  <2>3. KeysOf[h][position[h]] \in Tasks
    BY <2>1, <2>2 DEF Skipped
  <2> QED
    BY <1>3, <2>3 DEF StoreEvent
<1> QED
  BY <1>1, <1>2, <1>3 DEF IntakeNext, DeliveryStep

\* What all else does to it, by the update that ends the run, the override or the sweep.
LEMMA LoopReports ==
  ASSUME Inv, NEW p \in Runs, RunStep(p), ~ Operate(p), ~ OverrideOperate(p)
  PROVE  /\ UNCHANGED <<record, executions>>
         /\ \/ UNCHANGED task
            \/ /\ run[p] \in Active
               /\ \E s \in {"PROCESSING", "AWAITING_HUMAN", "FAILED"} :
                    task' = [task EXCEPT ![p[1]] = s]
            \/ /\ run[p] = "finish" \/ human[p] = "resolve"
               /\ task' = [task EXCEPT ![p[1]] = "COMPLETED"]
BY DEF RunStep, LoopStep, Deliver, Start, Plan, Vet, Govern, Escalate, Finish, Await, FailTask,
       Interrupt, OverrideRelease, OverrideResolve, Age, Goto, Humanly, SetTask, Active

LEMMA TaskStays ==
  ASSUME Inv, [Next]_vars
  PROVE  \A t \in Tasks : task'[t] = "absent" => task[t] = "absent"
<1>0. task \in [Tasks -> TaskStatus]
  BY DEF Inv, TypeOK, IntakeTypeOK
<1>1. CASE IntakeNext
  BY <1>0, <1>1, IntakeStores
<1>2. ASSUME NEW p \in Runs, RunStep(p)
      PROVE  \A t \in Tasks : task'[t] = "absent" => task[t] = "absent"
  <2>1. CASE Operate(p) \/ OverrideOperate(p)
    BY <1>0, <2>1 DEF Operate, OverrideOperate, Settle
  <2> QED
    BY <1>0, <1>2, <2>1, LoopReports
<1>3. ASSUME NEW t \in Tasks, PassDeadline(t) \/ SweepExpire(t)
      PROVE  \A u \in Tasks : task'[u] = "absent" => task[u] = "absent"
  BY <1>0, <1>3 DEF PassDeadline, SweepExpire
<1>4. CASE SweepScan \/ UNCHANGED vars
  BY <1>4 DEF SweepScan, vars
<1> QED
  BY <1>1, <1>2, <1>3, <1>4 DEF Next

LEMMA StoredStep == Inv /\ StoredFirst /\ [Next]_vars => StoredFirst'
<1> SUFFICES ASSUME Inv, StoredFirst, [Next]_vars, NEW p \in Runs,
                    run'[p] # "idle", task'[p[1]] = "absent"
             PROVE  FALSE
  BY DEF StoredFirst
<1> USE WorkflowAssumption
<1>1. p[1] \in Tasks /\ p[2] \in 1..MaxRuns /\ p = <<p[1], p[2]>>
  BY DEF Runs
<1>2. task[p[1]] = "absent"
  BY <1>1, TaskStays
<1>3. run[p] = "idle" /\ jobs[p[1]] = 0
  BY <1>1, <1>2 DEF StoredFirst, Inv, IntakeInv, EnqueuesOnce, Fate, TypeOK, IntakeTypeOK
<1>4. \A q \in Runs : q[1] = p[1] => run[q] = "idle"
  BY <1>2 DEF StoredFirst
<1>5. \A q \in Runs : q # p \/ ~ Deliver(p) => run'[p] = run[p] \/ ~ RunStep(q)
  <2> SUFFICES ASSUME NEW q \in Runs, q # p \/ ~ Deliver(p), RunStep(q)
               PROVE  run'[p] = run[p]
    OBVIOUS
  <2>1. PICK label : run' = [run EXCEPT ![q] = label] \/ UNCHANGED run
    BY DEF RunStep, LoopStep, Deliver, Start, Plan, Vet, Govern, Escalate, Operate, Finish,
           Await, FailTask, Interrupt, OverrideRelease, OverrideOperate, OverrideResolve, Age,
           Goto, Humanly, runVars
  <2>2. CASE q # p
    BY <2>1, <2>2 DEF Inv, TypeOK
  <2>3. CASE q = p
    <3>1. ~ Deliver(q) /\ run[q] = "idle" /\ q \notin escalated /\ human[q] = "none"
      BY <1>3, <2>2, <2>3 DEF Inv, RecordedOnce, TypeOK
    <3> QED
      BY <2>3, <3>1 DEF RunStep, LoopStep, Start, Plan, Vet, Govern, Escalate, Operate, Finish,
           Await, FailTask, Interrupt, OverrideRelease, OverrideOperate, OverrideResolve, Age,
           Active, Goto
  <2> QED
    BY <2>2, <2>3
<1>6. ~ Deliver(p)
  <2>1. ASSUME p[2] # 1 PROVE <<p[1], p[2] - 1>> \in Runs
    BY <1>1, <2>1 DEF Runs
  <2> QED
    BY <1>1, <1>3, <1>4, <2>1 DEF Deliver, Active
<1>7. run'[p] = run[p]
  <2>1. ASSUME NEW q \in Runs, RunStep(q) PROVE run'[p] = run[p]
    BY <1>5, <1>6, <2>1
  <2>2. CASE \A q \in Runs : ~ RunStep(q)
    BY <2>2 DEF Next, vars, loopVars, runVars, SweepScan, PassDeadline, SweepExpire
  <2> QED
    BY <2>1, <2>2
<1> QED
  BY <1>3, <1>7

LEMMA InvStep == Inv /\ StoredFirst /\ [Next]_vars => Inv'
<1> SUFFICES ASSUME Inv, StoredFirst, [Next]_vars PROVE Inv'
  OBVIOUS
<1>1. CASE UNCHANGED vars
  <2>1. UNCHANGED <<intakeVars, task, loopVars>>
    BY <1>1 DEF vars
  <2>2. UNCHANGED allIntakeVars
    BY <2>1 DEF allIntakeVars
  <2>3. IntakeInv'
    BY <2>2, IntakeInvStep DEF Inv
  <2>4. TypeOK'
    BY <2>1, <2>3 DEF Inv, TypeOK, IntakeInv, loopVars, runVars, timeVars
  <2> QED
    BY <2>1, <2>3, <2>4 DEF Inv, RecordedOnce, FinishedActs, ActionsRecorded, Acted,
                            CompletedWasExecuted, loopVars, runVars
<1>2. CASE IntakeNext /\ UNCHANGED loopVars
  BY <1>2, IntakeStepKeeps
<1>3. ASSUME NEW p \in Runs, RunStep(p) PROVE Inv'
  BY <1>3, QuietRunStep, OperateStep, OverrideStep, SweepStep
     DEF RunStep, LoopStep, QuietRun
<1>4. ASSUME NEW t \in Tasks, PassDeadline(t) \/ SweepExpire(t) PROVE Inv'
  BY <1>4, SweepStep
<1>5. CASE SweepScan
  BY <1>5, SweepStep
<1> QED
  BY <1>1, <1>2, <1>3, <1>4, <1>5 DEF Next

LEMMA InvAlways == Spec => [](Inv /\ StoredFirst)
<1>1. Init => StoredFirst
  BY DEF Init, StoredFirst
<1> QED
  BY <1>1, InitInv, InvStep, StoredStep, PTL DEF Spec

-----------------------------------------------------------------------------
(***************************************************************************)
(* The intake and the loop together implement TaskLifecycle.               *)
(***************************************************************************)

LEMMA InitLifecycle == Init => Lifecycle!Init
<1> SUFFICES ASSUME Init PROVE Lifecycle!Init
  OBVIOUS
<1>1. \A t \in Tasks, n \in 1..MaxRuns : record[<<t, n>>] = "none"
  BY DEF Init, Runs
<1> QED
  BY <1>1 DEF Init, IntakeInit, Lifecycle!Init, Answers

\* A call of the operator ends: the turn is taken, which it was not.
LEMMA SettleActs ==
  ASSUME Inv, NEW p \in Runs, NEW o \in Outcomes \cup TransferOutcomes, Settle(p, o),
         record[p] = "none", task[p[1]] # "absent"
  PROVE  Lifecycle!Act(p[1], p[2])
<1> USE WorkflowAssumption
<1> DEFINE t == p[1]
           n == p[2]
           taken == [u \in Tasks |-> {i \in 1..MaxRuns : record[<<u, i>>] # "none"}]
           answered == [u \in Tasks |-> {i \in 1..MaxRuns : record[<<u, i>>] \in Answers}]
<1>1. t \in Tasks /\ n \in 1..MaxRuns /\ p = <<t, n>>
  BY DEF Runs
<1>2. /\ o.record \in {"COMPLETED", "RECONCILIATION_REQUIRED", "unfinished"}
      /\ o.acted \in {0, 1}
  BY DEF Outcomes, TransferOutcomes
<1>3. \A u \in Tasks, i \in 1..MaxRuns :
        record'[<<u, i>>] = IF u = t /\ i = n THEN o.record ELSE record[<<u, i>>]
  <2>1. \A u \in Tasks, i \in 1..MaxRuns : <<u, i>> \in Runs /\ (<<u, i>> = p <=> u = t /\ i = n)
    BY <1>1 DEF Runs
  <2> QED
    BY <2>1 DEF Settle, Inv, TypeOK
<1>4. n \notin taken[t]
  BY <1>1
<1>5. taken' = [taken EXCEPT ![t] = @ \cup {n}]
  <2>1. \A u \in Tasks : {i \in 1..MaxRuns : record'[<<u, i>>] # "none"} =
          IF u = t THEN taken[u] \cup {n} ELSE taken[u]
    BY <1>1, <1>2, <1>3
  <2> QED
    BY <1>1, <2>1
<1>6. answered' \in {answered, [answered EXCEPT ![t] = @ \cup {n}]}
  <2>1. CASE o.record \in Answers
    <3>1. \A u \in Tasks : {i \in 1..MaxRuns : record'[<<u, i>>] \in Answers} =
            IF u = t THEN answered[u] \cup {n} ELSE answered[u]
      BY <1>1, <1>3, <2>1
    <3>2. answered' = [answered EXCEPT ![t] = @ \cup {n}]
      BY <1>1, <3>1
    <3> QED
      BY <3>2
  <2>2. CASE o.record \notin Answers
    <3>1. \A u \in Tasks : {i \in 1..MaxRuns : record'[<<u, i>>] \in Answers} = answered[u]
      BY <1>1, <1>3, <2>2 DEF Answers
    <3>2. answered' = answered
      BY <3>1
    <3> QED
      BY <3>2
  <2> QED
    BY <2>1, <2>2
<1>7. executions' \in {executions, [executions EXCEPT ![t] = @ + 1]}
  <2>1. executions' = [executions EXCEPT ![t] = @ + o.acted] /\ executions \in [Tasks -> Nat]
    BY DEF Settle, Inv, TypeOK
  <2>2. CASE o.acted = 0
    BY <1>1, <2>1, <2>2
  <2>3. CASE o.acted = 1
    BY <1>1, <2>1, <2>3
  <2> QED
    BY <1>2, <2>2, <2>3
<1>8. task' = [task EXCEPT ![t] = "FAILED"] \/ UNCHANGED task
  BY DEF Settle
<1> QED
  BY <1>4, <1>5, <1>6, <1>7, <1>8 DEF Lifecycle!Act, Lifecycle!Set

\* Each step is one of TaskLifecycle or changes nothing it tells.
LEMMA StepLifecycle == Inv /\ StoredFirst /\ [Next]_vars => [Lifecycle!Next]_(Lifecycle!vars)
<1> SUFFICES ASSUME Inv, StoredFirst, [Next]_vars PROVE [Lifecycle!Next]_(Lifecycle!vars)
  OBVIOUS
<1>0. ASSUME UNCHANGED <<task, record, executions>> PROVE UNCHANGED Lifecycle!vars
  BY <1>0 DEF Lifecycle!vars
<1>1. CASE IntakeNext /\ UNCHANGED loopVars
  <2>1. UNCHANGED <<record, executions>>
    BY <1>1 DEF loopVars
  <2>2. ASSUME NEW t \in Tasks, task[t] = "absent", task' = [task EXCEPT ![t] = "PENDING"]
        PROVE  Lifecycle!Store(t)
    BY <2>1, <2>2 DEF Lifecycle!Store, Lifecycle!Set
  <2> QED
    BY <1>0, <1>1, <2>1, <2>2, IntakeStores DEF Lifecycle!Next
<1>2. ASSUME NEW p \in Runs, RunStep(p) PROVE [Lifecycle!Next]_(Lifecycle!vars)
  <2>0. p[1] \in Tasks /\ p[2] \in 1..MaxRuns /\ p = <<p[1], p[2]>>
    BY DEF Runs
  <2>1. CASE Operate(p) \/ OverrideOperate(p)
    <3>1. record[p] = "none" /\ run[p] # "idle"
      BY <2>1 DEF Operate, OverrideOperate, Inv, RecordedOnce
    <3>2. \E o \in Outcomes \cup TransferOutcomes : Settle(p, o)
      BY <2>1 DEF Operate, OverrideOperate
    <3>3. Lifecycle!Act(p[1], p[2])
      BY <3>1, <3>2, SettleActs DEF StoredFirst
    <3> QED
      BY <2>0, <3>3 DEF Lifecycle!Next
  <2>2. CASE ~ Operate(p) /\ ~ OverrideOperate(p)
    <3>1. UNCHANGED <<record, executions>>
      BY <1>2, <2>2, LoopReports
    <3>2. CASE UNCHANGED task
      BY <1>0, <3>1, <3>2
    <3>3. CASE /\ run[p] \in Active
               /\ \E s \in {"PROCESSING", "AWAITING_HUMAN", "FAILED"} :
                    task' = [task EXCEPT ![p[1]] = s]
      <4>1. task[p[1]] # "absent"
        BY <3>3 DEF StoredFirst, Active
      <4>2. Lifecycle!Report(p[1])
        BY <3>1, <3>3, <4>1 DEF Lifecycle!Report, Lifecycle!Set
      <4> QED
        BY <2>0, <4>2 DEF Lifecycle!Next
    <3>4. CASE /\ run[p] = "finish" \/ human[p] = "resolve"
               /\ task' = [task EXCEPT ![p[1]] = "COMPLETED"]
      <4>1. record[<<p[1], p[2]>>] \in Answers
        BY <2>0, <3>4 DEF Inv, FinishedActs, Answers
      <4>2. {n \in 1..MaxRuns : record[<<p[1], n>>] \in Answers} # {}
        BY <2>0, <4>1
      <4>3. Lifecycle!Complete(p[1])
        BY <2>0, <3>1, <3>4, <4>2 DEF Lifecycle!Complete, Lifecycle!Set
      <4> QED
        BY <2>0, <4>3 DEF Lifecycle!Next
    <3> QED
      BY <1>2, <2>2, <3>2, <3>3, <3>4, LoopReports
  <2> QED
    BY <2>1, <2>2
<1>3. ASSUME NEW t \in Tasks, PassDeadline(t) \/ SweepExpire(t)
      PROVE  [Lifecycle!Next]_(Lifecycle!vars)
  <2>1. UNCHANGED <<record, executions>>
    BY <1>3 DEF PassDeadline, SweepExpire
  <2>2. CASE UNCHANGED task
    BY <1>0, <2>1, <2>2
  <2>3. CASE task[t] = "AWAITING_HUMAN" /\ task' = [task EXCEPT ![t] = "EXPIRED"]
    <3>1. Lifecycle!Expire(t)
      BY <2>1, <2>3 DEF Lifecycle!Expire, Lifecycle!Set
    <3> QED
      BY <3>1 DEF Lifecycle!Next
  <2> QED
    BY <1>3, <2>2, <2>3 DEF PassDeadline, SweepExpire, Expirable
<1>4. CASE SweepScan \/ UNCHANGED vars
  BY <1>0, <1>4 DEF SweepScan, vars, loopVars
<1> QED
  BY <1>1, <1>2, <1>3, <1>4 DEF Next

-----------------------------------------------------------------------------
(***************************************************************************)
(* Who writes over COMPLETED.                                              *)
(***************************************************************************)

\* The run that completed a task on its own has ended.
Settled ==
  \A t \in Tasks :
    task[t] = "COMPLETED" => Raced(t) \/ \E n \in 1..MaxRuns : run[<<t, n>>] = "done"

\* A run that has begun stays begun, one that is done stays done, and so does an override.
LEMMA RunsGoOn ==
  ASSUME Inv, [Next]_vars, NEW q \in Runs
  PROVE  /\ run[q] # "idle" => run'[q] # "idle"
         /\ run[q] = "done" => run'[q] = "done"
         /\ human[q] # "none" => human'[q] # "none"
<1> DEFINE Goal == /\ run[q] # "idle" => run'[q] # "idle"
                   /\ run[q] = "done" => run'[q] = "done"
                   /\ human[q] # "none" => human'[q] # "none"
<1>0. run \in [Runs -> {"idle", "done", "interrupted"} \cup Active]
      /\ human \in [Runs -> {"none", "operate", "resolve", "ended"}]
  BY DEF Inv, TypeOK
<1>1. ASSUME UNCHANGED <<run, human>> PROVE Goal
  BY <1>1
<1>2. ASSUME NEW p \in Runs, RunStep(p) PROVE Goal
  <2>1. CASE Deliver(p) \/ Start(p) \/ Plan(p) \/ Vet(p) \/ Govern(p) \/ Escalate(p)
    BY <1>0, <2>1 DEF Deliver, Start, Plan, Vet, Govern, Escalate, Goto
  <2>2. CASE Operate(p)
    BY <1>0, <2>2 DEF Operate, Outcomes
  <2>3. CASE Finish(p) \/ Await(p) \/ FailTask(p) \/ Interrupt(p)
    BY <1>0, <2>3 DEF Finish, Await, FailTask, Interrupt, Goto, Active
  <2>4. CASE OverrideRelease(p) \/ OverrideOperate(p) \/ OverrideResolve(p) \/ Age(p)
    BY <1>0, <2>4 DEF OverrideRelease, OverrideOperate, OverrideResolve, Age, Humanly, runVars
  <2> QED
    BY <1>2, <2>1, <2>2, <2>3, <2>4 DEF RunStep, LoopStep
<1>3. CASE \A p \in Runs : ~ RunStep(p)
  BY <1>1, <1>3 DEF Next, vars, loopVars, runVars, PassDeadline, SweepExpire, SweepScan
<1> QED
  BY <1>2, <1>3

LEMMA RacedGoesOn ==
  ASSUME Inv, [Next]_vars, NEW t \in Tasks
  PROVE  Raced(t) => Raced(t)'
<1>1. \A n \in 1..MaxRuns : <<t, n>> \in Runs
  BY DEF Runs
<1> QED
  BY <1>1, RunsGoOn DEF Raced

\* A task is COMPLETED by the update that ends its run, or by its override.
LEMMA SettledStep == Inv /\ StoredFirst /\ Settled /\ [Next]_vars => Settled'
<1> SUFFICES ASSUME Inv, StoredFirst, Settled, [Next]_vars,
                    NEW t \in Tasks, task'[t] = "COMPLETED"
             PROVE  Raced(t)' \/ \E n \in 1..MaxRuns : run'[<<t, n>>] = "done"
  BY DEF Settled
<1>0. \A n \in 1..MaxRuns : <<t, n>> \in Runs
  BY DEF Runs
<1>1. CASE task[t] = "COMPLETED"
  BY <1>0, <1>1, RacedGoesOn, RunsGoOn DEF Settled
<1>2. CASE task[t] # "COMPLETED"
  <2>1. task \in [Tasks -> TaskStatus]
    BY DEF Inv, TypeOK, IntakeTypeOK
  <2>2. ASSUME NEW p \in Runs, RunStep(p)
        PROVE  ((Finish(p) /\ run' = [run EXCEPT ![p] = "done"]) \/ OverrideResolve(p))
               /\ p[1] = t
    <3>1. ~ Operate(p) /\ ~ OverrideOperate(p)
      BY <1>2, <2>1 DEF Operate, OverrideOperate, Settle
    <3> QED
      BY <1>2, <2>1, <2>2, <3>1
         DEF RunStep, LoopStep, Deliver, Start, Plan, Vet, Govern, Escalate, Finish, Await,
             FailTask, Interrupt, OverrideRelease, OverrideResolve, Age, Goto, Humanly, SetTask
  <2>3. PICK p \in Runs : RunStep(p)
    <3>1. ~ IntakeNext
      BY <1>2, <2>1, IntakeStores
    <3> QED
      BY <1>2, <2>1, <3>1 DEF Next, vars, PassDeadline, SweepExpire, SweepScan
  <2>4. p[2] \in 1..MaxRuns /\ p = <<t, p[2]>>
    BY <2>2, <2>3 DEF Runs
  <2>5. CASE run' = [run EXCEPT ![p] = "done"]
    BY <2>4, <2>5 DEF Inv, TypeOK
  <2>6. CASE OverrideResolve(p)
    <3>1. human'[p] # "none"
      BY <2>6 DEF OverrideResolve, Humanly, Inv, TypeOK
    <3> QED
      BY <2>4, <3>1 DEF Raced
  <2> QED
    BY <2>2, <2>3, <2>5, <2>6
<1> QED
  BY <1>1, <1>2

\* To write over COMPLETED takes a run that has not ended, or an override.
LEMMA LeavingIsRaced ==
  ASSUME Inv, Settled, [Next]_vars, NEW t \in Tasks, LeavesCompleted(t)
  PROVE  Raced(t)
<1>0. task \in [Tasks -> TaskStatus] /\ task[t] = "COMPLETED" /\ task'[t] # "COMPLETED"
  BY DEF Inv, TypeOK, IntakeTypeOK, LeavesCompleted
<1>1. PICK p \in Runs : RunStep(p)
  <2>1. ~ IntakeNext
    BY <1>0, IntakeStores
  <2> QED
    BY <1>0, <2>1 DEF Next, vars, PassDeadline, SweepExpire, Expirable, SweepScan
<1>2. p[1] = t /\ (run[p] \in Active \/ human[p] # "none")
  <2>1. CASE Operate(p) \/ OverrideOperate(p)
    BY <1>0, <2>1 DEF Operate, OverrideOperate, Settle, Active
  <2> QED
    BY <1>0, <1>1, <2>1, LoopReports
<1>3. p[2] \in 1..MaxRuns /\ p = <<t, p[2]>>
  BY <1>2 DEF Runs
<1>4. CASE human[p] # "none"
  BY <1>3, <1>4 DEF Raced
<1>5. CASE run[p] \in Active
  BY <1>0, <1>3, <1>5 DEF Settled, Raced, Active
<1> QED
  BY <1>2, <1>4, <1>5

-----------------------------------------------------------------------------
(***************************************************************************)
(* The theorems.                                                           *)
(***************************************************************************)

\* Every variable of intake and loop keeps its type; no run exceeds its replan attempts.
THEOREM TypeCorrect == Spec => []TypeOK
  BY InvAlways, PTL DEF Inv

\* What the intake promises of a key holds in the whole system: the loop, the override and
\* the sweep, which write the same column, neither bring a task into being nor enqueue it.
THEOREM KeysStayOnce == Spec => []OneJobPerKey
<1>1. Inv => OneJobPerKey
  BY FateIsOneJob DEF Inv
<1> QED
  BY <1>1, InvAlways, PTL

\* However often a job is delivered again and runs overlap, and whatever becomes of the
\* operator's calls, a task has no more external actions than runs.
THEOREM RunsExecuteOnce == Spec => []OneExecutionPerRun
<1>1. Inv => OneExecutionPerRun
  <2> SUFFICES ASSUME Inv, NEW t \in Tasks
               PROVE  executions[t] <=
                        Cardinality({n \in 1..MaxRuns : run[<<t, n>>] # "idle"})
    BY DEF OneExecutionPerRun
  <2> DEFINE Begun == {n \in 1..MaxRuns : run[<<t, n>>] # "idle"}
  <2>1. \A n \in 1..MaxRuns : <<t, n>> \in Runs
    BY DEF Runs
  <2>2. Acted(t) \subseteq Begun
    BY <2>1 DEF Inv, RecordedOnce, Acted
  <2>3. IsFiniteSet(1..MaxRuns)
    BY WorkflowAssumption, FS_Interval
  <2>4. IsFiniteSet(Begun)
    BY <2>3, FS_Subset
  <2>5. Cardinality(Acted(t)) <= Cardinality(Begun) /\ Cardinality(Begun) \in Nat
    BY <2>2, <2>4, FS_Subset, FS_CardinalityType
  <2>6. executions[t] <= Cardinality(Acted(t)) /\ executions[t] \in Nat
        /\ Cardinality(Acted(t)) \in Nat
    BY ActedIsFinite DEF Inv, TypeOK, ActionsRecorded
  <2> HIDE DEF Begun
  <2>7. executions[t] <= Cardinality(Begun)
    BY <2>5, <2>6
  <2> QED
    BY <2>7 DEF Begun
<1> QED
  BY <1>1, InvAlways, PTL

\* No interleaving of runs, overrides and sweeps completes a task whose decision was not
\* executed.
THEOREM CompletedTasksWereExecuted == Spec => []CompletedWasExecuted
  BY InvAlways, PTL DEF Inv

\* However intakes, runs, overrides and sweeps interleave, what they make of a task is one
\* life of it: stored once, one action a turn, completed on a decision that was carried
\* out, expired only while it waits.
THEOREM ImplementsLifecycle == Spec => KeepsLifecycle
  BY InitLifecycle, StepLifecycle, InvAlways, PTL DEF Spec, KeepsLifecycle, Lifecycle!Spec

\* A run that completed its task writes it no more: only another run of the job, or an
\* override, makes anything else of a COMPLETED task.
THEOREM CompletedIsLeftByOthers == Spec => CompletedLeftByOthers
<1>1. Init => Settled
  BY DEF Init, IntakeInit, Settled
<1>2. Settled /\ Inv /\ [Next]_vars => [\A t \in Tasks : LeavesCompleted(t) => Raced(t)]_vars
  BY LeavingIsRaced
<1> QED
  BY <1>1, <1>2, SettledStep, InvAlways, PTL DEF Spec, CompletedLeftByOthers
=============================================================================
