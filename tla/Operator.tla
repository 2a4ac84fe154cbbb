------------------------------ MODULE Operator ------------------------------
(***************************************************************************)
(* The Operator: OperatorService.executeDecision and executeRollback       *)
(* (core/operator/operator.service.ts), the single-use approval token      *)
(* (core/crypto/kms.service.ts) and the two workers that rewrite execution *)
(* records behind it (workers/execution-reconciliation.worker.ts and       *)
(* workers/reconciliation.worker.ts).                                      *)
(*                                                                         *)
(* A caller is one invocation of executeDecision: the coordinator, the     *)
(* override endpoint and the idempotency script all call it, from one      *)
(* process or several, so calls for one decision may overlap.  Every await *)
(* of the method is a step of its caller.  Redis, the database clock and   *)
(* the outside provider answer nondeterministically.                       *)
(***************************************************************************)
EXTENDS Integers, FiniteSets

CONSTANTS
  Decisions,    \* rows of the Decision table
  Approved,     \* those of type APPROVE, APPROVE_WITH_CONSTRAINTS or HUMAN_OVERRIDE_APPROVED
  Transfers,    \* those whose tool reports a transactionId (TRANSFER_FUNDS)
  Callers,      \* invocations of executeDecision
  DecisionOf,   \* the decision each invocation is given
  Rollbacks,    \* invocations of executeRollback
  RollbackOf,   \* the decision whose record each of those is given
  SlowCallers   \* those that may stay EXECUTING past the 5 minute ghost threshold, or hang

ASSUME OperatorAssumption ==
  /\ Approved \subseteq Decisions
  /\ Transfers \subseteq Decisions
  /\ DecisionOf \in [Callers -> Decisions]
  /\ RollbackOf \in [Rollbacks -> Decisions]
  /\ SlowCallers \subseteq Callers

VARIABLES
  token,        \* ApprovalToken row of each decision: absent, live or used
  expired,      \* decisions whose token is past expiresAt
  signed,       \* decisions whose token verifies under the key now loaded
  pc,           \* next await of each caller
  result,       \* toolResult of each caller
  status,       \* ExecutionRecord.status of each decision, absent when no row
  txn,          \* decisions whose record has a providerTransactionId
  stale,        \* decisions whose record's startedAt is past the threshold
  taskFailed,   \* decisions whose task the operator has set to FAILED
  inflight,     \* callers whose request may still take effect at the provider
  ghosts,       \* findMany result of a running ghost sweep
  fixes,        \* rows a running reconciliation sweep is to set COMPLETED
  rpc,          \* next await of each rollback
  invocations,  \* history: times the tool was started for each decision
  effects       \* history: times the provider acted on each decision

tokenVars   == <<token, expired, signed>>
workerVars  == <<ghosts, fixes>>
historyVars == <<invocations, effects>>
recordVars  == <<status, txn, stale>>
vars == <<tokenVars, pc, result, recordVars, taskFailed, inflight, workerVars,
          rpc, historyVars>>

RecordStatus == {"absent", "PENDING", "EXECUTING", "COMPLETED", "FAILED",
                 "UNKNOWN", "RECONCILIATION_REQUIRED"}

\* Steps of a caller that holds the consumed token.
Holding == {"lookup", "create", "acquire", "limit", "mark", "await", "finalize", "audit"}
Active  == {"validate", "consume", "abort"} \cup Holding
CallerPc == {"idle", "returned", "threw", "crashed"} \cup Active

TypeOK ==
  /\ token \in [Decisions -> {"absent", "live", "used"}]
  /\ expired \subseteq Decisions
  /\ signed \subseteq Decisions
  /\ pc \in [Callers -> CallerPc]
  /\ result \in [Callers -> {"none", "SUCCESS", "FAILED", "UNKNOWN"}]
  /\ status \in [Decisions -> RecordStatus]
  /\ txn \subseteq Decisions
  /\ stale \subseteq Decisions
  /\ taskFailed \subseteq Decisions
  /\ inflight \subseteq Callers
  /\ ghosts \subseteq Decisions
  /\ fixes \subseteq Decisions
  /\ rpc \in [Rollbacks -> {"idle", "undo", "undone", "kept", "ended"}]
  /\ invocations \in [Decisions -> Nat]
  /\ effects \in [Decisions -> Nat]

Init ==
  /\ token = [d \in Decisions |-> "absent"]
  /\ expired = {}
  /\ signed = {}
  /\ pc = [c \in Callers |-> "idle"]
  /\ result = [c \in Callers |-> "none"]
  /\ status = [d \in Decisions |-> "absent"]
  /\ txn = {}
  /\ stale = {}
  /\ taskFailed = {}
  /\ inflight = {}
  /\ ghosts = {}
  /\ fixes = {}
  /\ rpc = [r \in Rollbacks |-> "idle"]
  /\ invocations = [d \in Decisions |-> 0]
  /\ effects = [d \in Decisions |-> 0]

-----------------------------------------------------------------------------
(***************************************************************************)
(* The approval token.                                                     *)
(***************************************************************************)

\* The governor or the override endpoint inserts the token after the decision row.
MintToken(d) ==
  /\ d \in Approved
  /\ token[d] = "absent"
  /\ token' = [token EXCEPT ![d] = "live"]
  /\ signed' = signed \cup {d}
  /\ UNCHANGED <<expired, pc, result, recordVars, taskFailed, inflight,
                 workerVars, rpc, historyVars>>

\* Fifteen minutes pass.
ExpireToken(d) ==
  /\ token[d] # "absent"
  /\ d \notin expired
  /\ expired' = expired \cup {d}
  /\ UNCHANGED <<token, signed, pc, result, recordVars, taskFailed, inflight,
                 workerVars, rpc, historyVars>>

\* Wrong forms of Consumable: the update without used = false, and without expiresAt.
ConsumableUsed(d)    == token[d] # "absent" /\ d \notin expired
ConsumableExpired(d) == token[d] = "live"

\* updateMany where nonce, used = false, expiresAt >= now: true when a row matched.
Consumable(d) == token[d] = "live" /\ d \notin expired

-----------------------------------------------------------------------------
(***************************************************************************)
(* executeDecision.                                                        *)
(***************************************************************************)

\* A caller moves to its next await and touches nothing else.
Goto(c, label) ==
  /\ pc' = [pc EXCEPT ![c] = label]
  /\ UNCHANGED <<tokenVars, result, recordVars, taskFailed, inflight,
                 workerVars, rpc, historyVars>>

Call(c) ==
  /\ pc[c] = "idle"
  /\ Goto(c, "validate")

\* Type, token presence, expiry, signature: the checks before consumption.
Acceptable(d) ==
  /\ d \in Approved
  /\ token[d] # "absent"
  /\ d \notin expired
  /\ d \in signed

Validate(c) ==
  /\ pc[c] = "validate"
  /\ Goto(c, IF Acceptable(DecisionOf[c]) THEN "consume" ELSE "abort")

Consume(c) ==
  LET d == DecisionOf[c] IN
  /\ pc[c] = "consume"
  /\ IF Consumable(d)
       THEN /\ token' = [token EXCEPT ![d] = "used"]
            /\ pc' = [pc EXCEPT ![c] = "lookup"]
       ELSE /\ pc' = [pc EXCEPT ![c] = "abort"]
            /\ UNCHANGED token
  /\ UNCHANGED <<expired, signed, result, recordVars, taskFailed, inflight,
                 workerVars, rpc, historyVars>>

\* Where the status found in the record sends the caller.
AfterRead(s) ==
  CASE s = "absent"                     -> "create"
    [] s = "COMPLETED"                  -> "returned"
    [] s \in {"EXECUTING", "UNKNOWN"}   -> "abort"
    [] OTHER                            -> "acquire"

Lookup(c) ==
  /\ pc[c] = "lookup"
  /\ Goto(c, AfterRead(status[DecisionOf[c]]))

\* Insert the PENDING row; on the unique violation the row is read again.
Create(c) ==
  LET d == DecisionOf[c] IN
  /\ pc[c] = "create"
  /\ IF status[d] = "absent"
       THEN /\ status' = [status EXCEPT ![d] = "PENDING"]
            /\ pc' = [pc EXCEPT ![c] = "acquire"]
       ELSE /\ pc' = [pc EXCEPT ![c] = "lookup"]
            /\ UNCHANGED status
  /\ UNCHANGED <<tokenVars, result, txn, stale, taskFailed, inflight,
                 workerVars, rpc, historyVars>>

\* A wrong form of Acquire: the tool is reached with the row still PENDING.
AcquireUnrecorded(c) ==
  /\ pc[c] = "acquire"
  /\ Goto(c, IF status[DecisionOf[c]] \in {"PENDING", "FAILED"} THEN "limit" ELSE "abort")

\* Compare-and-set PENDING or FAILED -> EXECUTING, startedAt = now.
Acquire(c) ==
  LET d == DecisionOf[c] IN
  /\ pc[c] = "acquire"
  /\ IF status[d] \in {"PENDING", "FAILED"}
       THEN /\ status' = [status EXCEPT ![d] = "EXECUTING"]
            /\ stale' = stale \ {d}
            /\ pc' = [pc EXCEPT ![c] = "limit"]
       ELSE /\ pc' = [pc EXCEPT ![c] = "abort"]
            /\ UNCHANGED <<status, stale>>
  /\ UNCHANGED <<tokenVars, result, txn, taskFailed, inflight,
                 workerVars, rpc, historyVars>>

\* The rate limiter refuses, or Redis fails: fail closed.
RefuseRate(c) ==
  /\ pc[c] = "limit"
  /\ Goto(c, "mark")

\* The rate limiter admits the call and the tool starts in the same turn.
StartTool(c) ==
  LET d == DecisionOf[c] IN
  /\ pc[c] = "limit"
  /\ pc' = [pc EXCEPT ![c] = "await"]
  /\ inflight' = inflight \cup {c}
  /\ invocations' = [invocations EXCEPT ![d] = @ + 1]
  /\ UNCHANGED <<tokenVars, result, recordVars, taskFailed, workerVars, rpc,
                 effects>>

\* Step 4a: the hard-crash branch.
MarkUnknown(c) ==
  LET d == DecisionOf[c] IN
  /\ pc[c] = "mark"
  /\ status' = [status EXCEPT ![d] = "UNKNOWN"]
  /\ pc' = [pc EXCEPT ![c] = "abort"]
  /\ UNCHANGED <<tokenVars, result, txn, stale, taskFailed, inflight,
                 workerVars, rpc, historyVars>>

\* The provider acts on a request, whether or not anyone still waits for it.
Land(c) ==
  LET d == DecisionOf[c] IN
  /\ c \in inflight
  /\ inflight' = inflight \ {c}
  /\ effects' = [effects EXCEPT ![d] = @ + 1]
  /\ UNCHANGED <<tokenVars, pc, result, recordVars, taskFailed, workerVars,
                 rpc, invocations>>

\* The race is won by the tool: SUCCESS only once the effect has landed; a
\* failure may be reported before, after or instead of it, and a money transfer
\* may classify its failure UNKNOWN.
ToolAnswers(c) ==
  LET d == DecisionOf[c] IN
  /\ pc[c] = "await"
  /\ pc' = [pc EXCEPT ![c] = "finalize"]
  /\ \/ /\ c \notin inflight
        /\ result' = [result EXCEPT ![c] = "SUCCESS"]
        /\ UNCHANGED inflight
     \/ \E class \in {"FAILED"} \cup (IF d \in Transfers THEN {"UNKNOWN"} ELSE {}) :
          /\ result' = [result EXCEPT ![c] = class]
          /\ inflight' \in {inflight, inflight \ {c}}
  /\ UNCHANGED <<tokenVars, recordVars, taskFailed, workerVars, rpc, historyVars>>

\* The race is won by maxExecutionTimeMs: FAILED / CONTRACT_VIOLATION, unclassified.
Timeout(c) ==
  /\ pc[c] = "await"
  /\ pc' = [pc EXCEPT ![c] = "finalize"]
  /\ result' = [result EXCEPT ![c] = "FAILED"]
  /\ UNCHANGED <<tokenVars, recordVars, taskFailed, inflight, workerVars, rpc,
                 historyVars>>

\* A wrong form of FinalStatus: the tool's own word is stored.
FinalStatusRaw(res) == res

FinalStatus(res) ==
  CASE res = "SUCCESS" -> "COMPLETED"
    [] res = "UNKNOWN" -> "RECONCILIATION_REQUIRED"
    [] OTHER           -> "FAILED"

\* Step 4b: an update by decisionId alone, whatever the record says by now.
Finalize(c) ==
  LET d == DecisionOf[c] IN
  /\ pc[c] = "finalize"
  /\ status' = [status EXCEPT ![d] = FinalStatus(result[c])]
  /\ txn' = IF result[c] = "SUCCESS" /\ d \in Transfers
              THEN txn \cup {d} ELSE txn \ {d}
  /\ pc' = [pc EXCEPT ![c] = "audit"]
  /\ UNCHANGED <<tokenVars, result, stale, taskFailed, inflight, workerVars,
                 rpc, historyVars>>

\* A wrong form of AuditReport: a FAILED result is returned like any other.
AuditReportAlways(c) ==
  /\ pc[c] = "audit"
  /\ Goto(c, "returned")

\* The audit row is in; a FAILED result is thrown, any other returned.
AuditReport(c) ==
  /\ pc[c] = "audit"
  /\ Goto(c, IF result[c] = "FAILED" THEN "abort" ELSE "returned")

\* Any database statement may throw, the audit transaction's included.
DatabaseError(c) ==
  /\ pc[c] \in {"validate", "consume", "lookup", "create", "acquire", "mark",
                "finalize", "audit"}
  /\ Goto(c, "abort")

\* The outer catch: the task is set FAILED by id, then the error is rethrown.
Abort(c) ==
  LET d == DecisionOf[c] IN
  /\ pc[c] = "abort"
  /\ pc' = [pc EXCEPT ![c] = "threw"]
  /\ taskFailed' \in {taskFailed \cup {d}, taskFailed}  \* that update may throw too
  /\ UNCHANGED <<tokenVars, result, recordVars, inflight, workerVars, rpc,
                 historyVars>>

\* The process running the call dies; a request already sent is not recalled.
Crash(c) ==
  /\ pc[c] \in Active
  /\ Goto(c, "crashed")

\* A restart without GOVERNOR_PRIVATE_KEY generates a fresh key pair.
RestartWithNewKeys ==
  /\ signed # {}
  /\ signed' = {}
  /\ pc' = [c \in Callers |-> IF pc[c] \in Active THEN "crashed" ELSE pc[c]]
  /\ UNCHANGED <<token, expired, result, recordVars, taskFailed, inflight,
                 workerVars, rpc, historyVars>>

-----------------------------------------------------------------------------
(***************************************************************************)
(* ExecutionReconciliationWorker: EXECUTING for five minutes -> UNKNOWN.   *)
(***************************************************************************)

\* Live callers that are to write the final status of d.
LiveHolders(d) ==
  {c \in Callers : DecisionOf[c] = d /\ pc[c] \in {"limit", "mark", "await", "finalize"}}

\* startedAt falls behind the threshold.
GoStale(d) ==
  /\ status[d] = "EXECUTING"
  /\ d \notin stale
  /\ LiveHolders(d) \subseteq SlowCallers
  /\ stale' = stale \cup {d}
  /\ UNCHANGED <<tokenVars, pc, result, status, txn, taskFailed, inflight,
                 workerVars, rpc, historyVars>>

\* Wrong forms of Stuck: no age threshold, and the wrong status.
StuckAny     == {d \in Decisions : status[d] \in {"EXECUTING", "COMPLETED"}}
StuckPending == {d \in stale : status[d] = "PENDING"}

Stuck == {d \in stale : status[d] = "EXECUTING"}

\* findMany: the list the sweep works through.
GhostScan ==
  /\ ghosts = {}
  /\ Stuck # {}
  /\ ghosts' = Stuck
  /\ UNCHANGED <<tokenVars, pc, result, recordVars, taskFailed, inflight, fixes,
                 rpc, historyVars>>

\* Update by id alone; when the audit row then fails the rest is left to the next sweep.
GhostForce(d) ==
  /\ d \in ghosts
  /\ status' = [status EXCEPT ![d] = "UNKNOWN"]
  /\ ghosts' \in {ghosts \ {d}, {}}
  /\ UNCHANGED <<tokenVars, pc, result, txn, stale, taskFailed, inflight, fixes,
                 rpc, historyVars>>

-----------------------------------------------------------------------------
(***************************************************************************)
(* ReconciliationWorker.runSweep.  The provider poll reports SUCCESS for   *)
(* exactly the rows that carry a transaction id; a COMPLETED or FAILED     *)
(* verdict only stamps reconciledAt, which nothing reads.                  *)
(***************************************************************************)

\* A wrong form of Fixable: the provider is not asked for a transaction.
FixableUnasked == {d \in Decisions : status[d] \in {"UNKNOWN", "RECONCILIATION_REQUIRED"}}

Fixable == {d \in txn : status[d] \in {"UNKNOWN", "RECONCILIATION_REQUIRED"}}

ReconcileScan ==
  /\ fixes = {}
  /\ Fixable # {}
  /\ fixes' = Fixable
  /\ UNCHANGED <<tokenVars, pc, result, recordVars, taskFailed, inflight, ghosts,
                 rpc, historyVars>>

ReconcileFix(d) ==
  /\ d \in fixes
  /\ status' = [status EXCEPT ![d] = "COMPLETED"]
  /\ fixes' = fixes \ {d}
  /\ UNCHANGED <<tokenVars, pc, result, txn, stale, taskFailed, inflight, ghosts,
                 rpc, historyVars>>

\* An audit failure in markReconciled ends the sweep.
ReconcileFail ==
  /\ fixes # {}
  /\ fixes' = {}
  /\ UNCHANGED <<tokenVars, pc, result, recordVars, taskFailed, inflight, ghosts,
                 rpc, historyVars>>

-----------------------------------------------------------------------------
(***************************************************************************)
(* executeRollback: read COMPLETED, run tool.rollback, update by id alone. *)
(***************************************************************************)

RollbackStart(r) ==
  /\ rpc[r] = "idle"
  /\ status[RollbackOf[r]] = "COMPLETED"
  /\ rpc' = [rpc EXCEPT ![r] = "undo"]
  /\ UNCHANGED <<tokenVars, pc, result, recordVars, taskFailed, inflight,
                 workerVars, historyVars>>

RollbackTool(r) ==
  /\ rpc[r] = "undo"
  /\ \E answer \in {"undone", "kept"} : rpc' = [rpc EXCEPT ![r] = answer]
  /\ UNCHANGED <<tokenVars, pc, result, recordVars, taskFailed, inflight,
                 workerVars, historyVars>>

RollbackRecord(r) ==
  LET d == RollbackOf[r] IN
  /\ rpc[r] \in {"undone", "kept"}
  /\ status' = [status EXCEPT ![d] = IF rpc[r] = "undone" THEN "UNKNOWN" ELSE "FAILED"]
  /\ rpc' = [rpc EXCEPT ![r] = "ended"]
  /\ UNCHANGED <<tokenVars, pc, result, txn, stale, taskFailed, inflight,
                 workerVars, historyVars>>

\* The tool or the database throws, or the process dies.
RollbackFail(r) ==
  /\ rpc[r] \in {"undo", "undone", "kept"}
  /\ rpc' = [rpc EXCEPT ![r] = "ended"]
  /\ UNCHANGED <<tokenVars, pc, result, recordVars, taskFailed, inflight,
                 workerVars, historyVars>>

-----------------------------------------------------------------------------
CallerStep(c) ==
  \/ Call(c) \/ Validate(c) \/ Consume(c) \/ Lookup(c) \/ Create(c)
  \/ Acquire(c) \/ RefuseRate(c) \/ StartTool(c) \/ MarkUnknown(c)
  \/ Land(c) \/ ToolAnswers(c) \/ Timeout(c) \/ Finalize(c) \/ AuditReport(c)
  \/ DatabaseError(c) \/ Abort(c) \/ Crash(c)

DecisionStep(d) ==
  MintToken(d) \/ ExpireToken(d) \/ GoStale(d) \/ GhostForce(d) \/ ReconcileFix(d)

RollbackStep(r) ==
  RollbackStart(r) \/ RollbackTool(r) \/ RollbackRecord(r) \/ RollbackFail(r)

Next ==
  \/ \E c \in Callers : CallerStep(c)
  \/ \E d \in Decisions : DecisionStep(d)
  \/ \E r \in Rollbacks : RollbackStep(r)
  \/ RestartWithNewKeys \/ GhostScan \/ ReconcileScan \/ ReconcileFail

Spec == Init /\ [][Next]_vars

\* The steps that take a call out of EXECUTING.
SettlingStep(c) ==
  \/ RefuseRate(c) \/ StartTool(c) \/ MarkUnknown(c) \/ ToolAnswers(c) \/ Timeout(c)
  \/ Finalize(c)

\* The ghost sweep is re-armed by setTimeout for ever (server.ts starts it), and clock
\* time passes.
SweepFairness ==
  /\ WF_vars(GhostScan)
  /\ \A d \in Decisions : WF_vars(GoStale(d)) /\ WF_vars(GhostForce(d))

\* A call that is not slow ends within the threshold, unless its process dies.  Nothing
\* is assumed of slow calls, of reconciliation and of rollbacks.
CallerFairness == \A c \in Callers \ SlowCallers : WF_vars(SettlingStep(c))

FairSpec == Spec /\ SweepFairness /\ CallerFairness

-----------------------------------------------------------------------------
(***************************************************************************)
(* Properties.                                                             *)
(***************************************************************************)

\* However calls overlap, crash or repeat, the tool is started at most once for a
\* decision, and the provider acts at most once on its behalf.
AtMostOnce == \A d \in Decisions : invocations[d] <= 1 /\ effects[d] <= invocations[d]

\* The operator implements the abstract promise of single use: a token is claimed
\* before it expires, and each claim leads to one start and one external change at most.
Promise == INSTANCE SingleUseExecution WITH
             claimed <- {d \in Decisions : token[d] = "used"},
             starts  <- invocations,
             changes <- effects

SingleUse == Promise!Spec

\* A record that says COMPLETED stands for an action the provider really took,
\* whichever of the operator and the reconciliation sweep wrote it.
CompletedMeansExecuted ==
  \A d \in Decisions : status[d] = "COMPLETED" => effects[d] = 1

\* Before the tool is started a row says so durably: whatever crash follows, the
\* record of a started execution is never absent or PENDING.
IntentRecorded ==
  \A d \in Decisions : invocations[d] > 0 => status[d] \notin {"absent", "PENDING"}

\* What the coordinator and the override endpoint build on when they complete a task: of
\* all the calls made for a decision at most one returns, every other throws; and it
\* returns after its own start of the tool, with the effect taken, or with the
\* uncertainty that only a transfer may report.
ReturnIsHonest ==
  \A c \in {b \in Callers : pc[b] = "returned"} :
    LET d == DecisionOf[c] IN
    /\ invocations[d] = 1
    /\ \/ result[c] = "SUCCESS" /\ effects[d] = 1
       \/ result[c] = "UNKNOWN" /\ d \in Transfers
    /\ \A b \in Callers : pc[b] = "returned" /\ DecisionOf[b] = d => b = c

\* A call that has consumed its token meets no record but its own: that a record is
\* found COMPLETED, EXECUTING or UNKNOWN, that the insert hits the unique index, and that
\* a FAILED record is acquired again, are branches no execution takes.
FreshClaim ==
  \A c \in Callers :
    /\ pc[c] \in {"lookup", "create"} => status[DecisionOf[c]] = "absent"
    /\ pc[c] = "acquire" => status[DecisionOf[c]] = "PENDING"

\* When no live call for a decision outlasts the ghost threshold, only a rollback takes
\* its COMPLETED record to another status: the sweeps never overwrite it.
CompletedLeftOnlyByRollback ==
  [][\A d \in {DecisionOf[c] : c \in Callers} \ {DecisionOf[c] : c \in SlowCallers} :
       status[d] = "COMPLETED" /\ status'[d] # "COMPLETED"
         => \E r \in Rollbacks : RollbackOf[r] = d /\ RollbackRecord(r)]_vars

\* Every EXECUTING record is eventually settled or forced to UNKNOWN, whatever
\* happened to the process that owned it.
NoGhostForever ==
  \A d \in Decisions : status[d] = "EXECUTING" ~> status[d] # "EXECUTING"

\* operator.service.ts:286 "If we crash and don't know the external state, force
\* manual review!": a record closed as FAILED is one whose action did not happen.
UncertainOutcomeIsReviewed ==
  \A d \in Decisions : status[d] = "FAILED" => effects[d] = 0
=============================================================================
