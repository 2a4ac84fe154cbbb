------------------------------ MODULE Workflow ------------------------------
(***************************************************************************)
(* A task from intake (module Intake) to its last status: the BullMQ job   *)
(* and the replanning loop of WorkflowCoordinator                          *)
(* (core/workflow/coordinator.service.ts), the human override that may     *)
(* resume an escalated task, and HumanEscalationWorker, which expires it.  *)
(*                                                                         *)
(* BullMQ delivers a job at least once: a run that threw, died or lost its *)
(* lock is followed by another run of the same job, and a run that only    *)
(* lost its lock goes on beside its successor.  Each run is a process      *)
(* <<t, n>>.  The planner, the critic and the governor answer              *)
(* nondeterministically; executeDecision and the override are one step     *)
(* with the outcomes modules Operator and Override establish.              *)
(***************************************************************************)
EXTENDS Intake, FiniteSets

CONSTANTS
  MaxReplan,  \* MAX_REPLAN_ATTEMPTS
  MaxRuns     \* bound on the deliveries of one job

ASSUME WorkflowAssumption ==
  /\ MaxReplan \in Nat \ {0}
  /\ MaxRuns \in Nat \ {0}

Runs == Tasks \X (1..MaxRuns)

VARIABLES
  run,         \* next await of each run of the loop
  attempts,    \* replan attempts of each run
  escalated,   \* runs that created a BLOCK_AND_ESCALATE decision
  human,       \* the released override of each such decision
  record,      \* what the ExecutionRecord of the run's decision came to
  aged,        \* escalations more than four hours old
  deadline,    \* the run that last set Task.expiresAt, 0 when none
  overdue,     \* tasks past expiresAt
  sweep,       \* findMany result of a running escalation sweep
  executions   \* history: external actions taken for each task

runVars    == <<run, attempts, escalated>>
timeVars   == <<aged, deadline, overdue>>
loopVars   == <<runVars, human, record, timeVars, sweep, executions>>
vars == <<intakeVars, task, loopVars>>

\* Awaits of a run; the last three are the updates that end it.
Active == {"start", "plan", "vet", "govern", "operate", "finish", "await", "fail"}

TypeOK ==
  /\ IntakeTypeOK
  /\ run \in [Runs -> {"idle", "done", "interrupted"} \cup Active]
  /\ attempts \in [Runs -> 0..MaxReplan]
  /\ escalated \subseteq Runs
  /\ human \in [Runs -> {"none", "operate", "resolve", "ended"}]
  /\ record \in [Runs -> {"none", "COMPLETED", "RECONCILIATION_REQUIRED", "unfinished"}]
  /\ aged \subseteq Runs
  /\ deadline \in [Tasks -> 0..MaxRuns]
  /\ overdue \subseteq Tasks
  /\ sweep \subseteq Tasks
  /\ executions \in [Tasks -> Nat]

Init ==
  /\ IntakeInit
  /\ run = [p \in Runs |-> "idle"]
  /\ attempts = [p \in Runs |-> 0]
  /\ escalated = {}
  /\ human = [p \in Runs |-> "none"]
  /\ record = [p \in Runs |-> "none"]
  /\ aged = {}
  /\ deadline = [t \in Tasks |-> 0]
  /\ overdue = {}
  /\ sweep = {}
  /\ executions = [t \in Tasks |-> 0]

-----------------------------------------------------------------------------
(***************************************************************************)
(* _executeTaskLoop.  Every task update is by id alone.                    *)
(***************************************************************************)

Goto(p, label) ==
  /\ run' = [run EXCEPT ![p] = label]
  /\ UNCHANGED <<intakeVars, attempts, human, record, sweep, executions>>

SetTask(t, status) == task' = [task EXCEPT ![t] = status]

\* The first run follows the job, any other a run that threw, died or stalled.
Deliver(p) ==
  LET t == p[1]
      n == p[2] IN
  /\ run[p] = "idle"
  /\ IF n = 1 THEN jobs[t] > 0 ELSE run[<<t, n - 1>>] \in Active \cup {"interrupted"}
  /\ Goto(p, "start")
  /\ UNCHANGED <<task, escalated, timeVars>>

Start(p) ==
  /\ run[p] = "start"
  /\ SetTask(p[1], "PROCESSING")
  /\ Goto(p, "plan")
  /\ UNCHANGED <<escalated, timeVars>>

\* Wrong forms of Plan: no test of the counter; the counter restarts with each feedback.
PlanUnbounded(p) ==
  /\ run[p] = "plan"
  /\ run' = [run EXCEPT ![p] = "vet"]
  /\ attempts' = [attempts EXCEPT ![p] = @ + 1]
  /\ UNCHANGED <<intakeVars, task, escalated, human, record, timeVars, sweep, executions>>

PlanAgain(p) ==
  /\ run[p] = "plan"
  /\ run' = [run EXCEPT ![p] = "vet"]
  /\ attempts' = [attempts EXCEPT ![p] = 1]
  /\ UNCHANGED <<intakeVars, task, escalated, human, record, timeVars, sweep, executions>>

\* The loop's test, then minister.generateProposal.
Plan(p) ==
  /\ run[p] = "plan"
  /\ IF attempts[p] < MaxReplan
       THEN /\ run' = [run EXCEPT ![p] = "vet"]
            /\ attempts' = [attempts EXCEPT ![p] = @ + 1]
       ELSE /\ run' = [run EXCEPT ![p] = "fail"]
            /\ UNCHANGED attempts
  /\ UNCHANGED <<intakeVars, task, escalated, human, record, timeVars, sweep, executions>>

\* Zod and the critic: pass, feedback for the next attempt, or an error.
Vet(p) ==
  /\ run[p] = "vet"
  /\ \E next \in {"govern", "plan", "fail"} : Goto(p, next)
  /\ UNCHANGED <<task, escalated, timeVars>>

\* evaluateProposal approves, rejects or throws.
Govern(p) ==
  /\ run[p] = "govern"
  /\ \E next \in {"operate", "plan", "fail"} : Goto(p, next)
  /\ UNCHANGED <<task, escalated, timeVars>>

\* evaluateProposal escalates: the decision row is there before the exception, and
\* the exception may be another one (the audit row failed).
Escalate(p) ==
  /\ run[p] = "govern"
  /\ \E next \in {"await", "fail"} : Goto(p, next)
  /\ escalated' = escalated \cup {p}
  /\ UNCHANGED <<task, timeVars>>

\* What executeDecision can come to: the record it leaves, whether the external
\* action was taken, and whether the call returns, throws or dies with its process.
\* That it returns to one caller, and only with the action taken or uncertain, is
\* ReturnIsHonest of Operator.
Outcomes ==
  [record : {"COMPLETED"}, acted : {1}, call : {"returns", "throws", "dies"}]
    \cup [record : {"unfinished"}, acted : {0, 1}, call : {"throws", "dies"}]

\* Only TRANSFER_FUNDS classifies an outcome as unknown, and its capability requires
\* human review: only an override comes to this.
TransferOutcomes ==
  [record : {"RECONCILIATION_REQUIRED"}, acted : {0, 1}, call : {"returns", "throws", "dies"}]

\* The part of an outcome that falls on the stores; on a throw the operator's own
\* catch fails the task, unless that update throws too.
Settle(p, o) ==
  LET t == p[1] IN
  /\ record' = [record EXCEPT ![p] = o.record]
  /\ executions' = [executions EXCEPT ![t] = @ + o.acted]
  /\ IF o.call = "throws"
       THEN task' \in {task, [task EXCEPT ![t] = "FAILED"]}
       ELSE UNCHANGED task

\* A wrong form of Operate: an operator error is fed back to the planner.
OperateAgain(p) ==
  /\ run[p] = "operate"
  /\ \E o \in Outcomes :
       /\ Settle(p, o)
       /\ run' = [run EXCEPT ![p] = IF o.call = "returns" THEN "finish" ELSE "plan"]
  /\ UNCHANGED <<intakeVars, attempts, escalated, human, timeVars, sweep>>

\* A wrong form of Operate: what executeDecision throws is ignored.
OperateIgnored(p) ==
  /\ run[p] = "operate"
  /\ \E o \in Outcomes : Settle(p, o)
  /\ run' = [run EXCEPT ![p] = "finish"]
  /\ UNCHANGED <<intakeVars, attempts, escalated, human, timeVars, sweep>>

Operate(p) ==
  /\ run[p] = "operate"
  /\ \E o \in Outcomes :
       /\ Settle(p, o)
       /\ run' = [run EXCEPT ![p] = CASE o.call = "returns" -> "finish"
                                      [] o.call = "throws"  -> "fail"
                                      [] o.call = "dies"    -> "interrupted"]
  /\ UNCHANGED <<intakeVars, attempts, escalated, human, timeVars, sweep>>

\* A wrong form of Finish: what follows the update in the same try may still throw.
FinishThenReport(p) ==
  /\ run[p] = "finish"
  /\ SetTask(p[1], "COMPLETED")
  /\ \E next \in {"done", "fail"} : Goto(p, next)
  /\ UNCHANGED <<escalated, timeVars>>

\* An error of this update is caught as a systemic failure.
Finish(p) ==
  /\ run[p] = "finish"
  /\ \/ SetTask(p[1], "COMPLETED") /\ Goto(p, "done")
     \/ UNCHANGED task /\ Goto(p, "fail")
  /\ UNCHANGED <<escalated, timeVars>>

\* AWAITING_HUMAN with expiresAt a day ahead.
Await(p) ==
  /\ run[p] = "await"
  /\ SetTask(p[1], "AWAITING_HUMAN")
  /\ deadline' = [deadline EXCEPT ![p[1]] = p[2]]
  /\ overdue' = overdue \ {p[1]}
  /\ Goto(p, "done")
  /\ UNCHANGED <<escalated, aged>>

FailTask(p) ==
  /\ run[p] = "fail"
  /\ SetTask(p[1], "FAILED")
  /\ Goto(p, "done")
  /\ UNCHANGED <<escalated, timeVars>>

\* The process dies, or a statement outside the loop's try throws out of the job.
Interrupt(p) ==
  /\ run[p] \in Active
  /\ Goto(p, "interrupted")
  /\ UNCHANGED <<task, escalated, timeVars>>

-----------------------------------------------------------------------------
(***************************************************************************)
(* The override of an escalated decision, from the moment it is released   *)
(* (module Override): it never looks at the status of the task.            *)
(***************************************************************************)

Humanly(p, label) ==
  /\ human' = [human EXCEPT ![p] = label]
  /\ UNCHANGED <<intakeVars, runVars, timeVars, sweep>>

OverrideRelease(p) ==
  /\ p \in escalated
  /\ human[p] = "none"
  /\ p \notin aged
  /\ Humanly(p, "operate")
  /\ UNCHANGED <<task, record, executions>>

OverrideOperate(p) ==
  /\ human[p] = "operate"
  /\ \E o \in Outcomes \cup TransferOutcomes :
       /\ Settle(p, o)
       /\ Humanly(p, IF o.call = "returns" THEN "resolve" ELSE "ended")

\* The last update of the handler, unless it throws or its process dies first.
OverrideResolve(p) ==
  /\ human[p] = "resolve"
  /\ \/ SetTask(p[1], "COMPLETED")
     \/ UNCHANGED task
  /\ Humanly(p, "ended")
  /\ UNCHANGED <<record, executions>>

-----------------------------------------------------------------------------
(***************************************************************************)
(* Time, and HumanEscalationWorker.                                        *)
(***************************************************************************)

\* Four hours since the escalation.
Age(p) ==
  /\ p \in escalated \ aged
  /\ aged' = aged \cup {p}
  /\ UNCHANGED <<intakeVars, task, runVars, human, record, deadline, overdue, sweep,
                 executions>>

\* Twenty-four hours since AWAITING_HUMAN was written: the escalations made before
\* that are past their four hours, and no request released then is still running.
PassDeadline(t) ==
  /\ deadline[t] > 0
  /\ t \notin overdue
  /\ \A n \in 1..deadline[t] :
       <<t, n>> \in escalated => <<t, n>> \in aged /\ human[<<t, n>>] \in {"none", "ended"}
  /\ overdue' = overdue \cup {t}
  /\ UNCHANGED <<intakeVars, task, runVars, human, record, aged, deadline, sweep,
                 executions>>

\* A wrong form of Due: the filter names the status the loop sets.
DueProcessing == {t \in overdue : task[t] = "PROCESSING"}

Due == {t \in overdue : task[t] = "AWAITING_HUMAN"}

SweepScan ==
  /\ sweep = {}
  /\ Due # {}
  /\ sweep' = Due
  /\ UNCHANGED <<intakeVars, task, runVars, human, record, timeVars, executions>>

\* Wrong form of Expirable: an update by id alone.
ExpirableAlways(t) == TRUE

\* updateMany where id and status = AWAITING_HUMAN.
Expirable(t) == task[t] = "AWAITING_HUMAN"

\* After an audit failure the rest of the list is left to the next sweep.
SweepExpire(t) ==
  /\ t \in sweep
  /\ task' = IF Expirable(t) THEN [task EXCEPT ![t] = "EXPIRED"] ELSE task
  /\ sweep' \in {sweep \ {t}, {}}
  /\ UNCHANGED <<intakeVars, runVars, human, record, timeVars, executions>>

-----------------------------------------------------------------------------
LoopStep(p) ==
  \/ Start(p) \/ Plan(p) \/ Vet(p) \/ Govern(p) \/ Escalate(p) \/ Operate(p)
  \/ Finish(p) \/ Await(p) \/ FailTask(p)

RunStep(p) ==
  \/ Deliver(p) \/ LoopStep(p) \/ Interrupt(p)
  \/ OverrideRelease(p) \/ OverrideOperate(p) \/ OverrideResolve(p) \/ Age(p)

Next ==
  \/ IntakeNext /\ UNCHANGED loopVars
  \/ \E p \in Runs : RunStep(p)
  \/ \E t \in Tasks : PassDeadline(t) \/ SweepExpire(t)
  \/ SweepScan

Spec == Init /\ [][Next]_vars

\* The BullMQ worker takes what is queued and each await of a run returns or throws;
\* the sweep is re-armed for ever (server.ts starts it), requests end and time passes.
\* Nothing is assumed of people: an escalation may never be answered.
FairSpec ==
  /\ Spec
  /\ WF_vars(SweepScan)
  /\ \A t \in Tasks : WF_vars(PassDeadline(t)) /\ WF_vars(SweepExpire(t))
  /\ \A p \in Runs : /\ WF_vars(Deliver(p)) /\ WF_vars(LoopStep(p))
                     /\ WF_vars(OverrideOperate(p) \/ OverrideResolve(p))
                     /\ WF_vars(Age(p))

-----------------------------------------------------------------------------
(***************************************************************************)
(* Properties.                                                             *)
(***************************************************************************)

\* Each delivery of the job leads to one external action at most, counting the
\* override of the decision it escalated: replanning never follows an execution.
OneExecutionPerRun ==
  \A t \in Tasks :
    executions[t] <= Cardinality({n \in 1..MaxRuns : run[<<t, n>>] # "idle"})

\* A COMPLETED task has a decision whose execution returned normally.
CompletedWasExecuted ==
  \A t \in Tasks :
    task[t] = "COMPLETED" =>
      \E n \in 1..MaxRuns : record[<<t, n>>] \in {"COMPLETED", "RECONCILIATION_REQUIRED"}

\* Two runs of the task's job have begun, or an override of it was released.
Raced(t) ==
  \/ \E m, n \in 1..MaxRuns : m # n /\ run[<<t, m>>] # "idle" /\ run[<<t, n>>] # "idle"
  \/ \E n \in 1..MaxRuns : human[<<t, n>>] # "none"

LeavesCompleted(t) == task[t] = "COMPLETED" /\ task'[t] # "COMPLETED"

\* A status once COMPLETED is overwritten only by somebody else than the one who set it: by
\* another run of the job, or where an override and its run meet.  The run that completed
\* the task writes no more, on no error path, and no sweep does.  (Statuses are written
\* without a look at the version: a run beside another may well undo COMPLETED.)
CompletedLeftByOthers == [][\A t \in Tasks : LeavesCompleted(t) => Raced(t)]_vars

\* What the system tells of its tasks.  A turn is taken when its decision has a record.
Answers == {"COMPLETED", "RECONCILIATION_REQUIRED"}

Lifecycle == INSTANCE TaskLifecycle WITH
               Turns    <- 1..MaxRuns,
               status   <- task,
               taken    <- [t \in Tasks |-> {n \in 1..MaxRuns : record[<<t, n>>] # "none"}],
               answered <- [t \in Tasks |-> {n \in 1..MaxRuns : record[<<t, n>>] \in Answers}],
               actions  <- executions

\* Intakes that are repeated, runs of one job beside each other, overrides that come late
\* and sweeps that work through stale lists write one status field, by id alone; what
\* they come to together is the life of one task: no row is stored again over one that is
\* there, no turn acts twice, and a task that a run or an override has moved on does not
\* expire.
KeepsLifecycle == Lifecycle!Spec

\* Every run of the loop comes to an end (docs/rules.md, Max Replan Attempts).
LoopEnds ==
  \A p \in Runs : run[p] \in Active ~> run[p] \in {"done", "interrupted"}

\* No task awaits a human for ever.
WaitingEnds ==
  \A t \in Tasks : task[t] = "AWAITING_HUMAN" ~> task[t] # "AWAITING_HUMAN"

\* prisma/schema.prisma:25 "Prevents duplicate execution of the same webhook payload":
\* the external action of one task is taken at most once.
OneExecutionPerTask == \A t \in Tasks : executions[t] <= 1
=============================================================================
