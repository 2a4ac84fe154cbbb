# The covernor platform in TLA+

The covernor platform puts a language-model planner ("Minister") behind a policy
governor ("Covernor"), a human override, and an operator that runs tools against
outside systems. This directory holds specifications of its protocols, TLC
configurations that check them on small instances, and theorems about them that
TLAPS checks for every instance. Paths below are relative to `src/src/` unless they
start with `docs/` or `prisma/`.

## 1. The system

One Node process (or several behind a load balancer) serves an Express API, runs a
BullMQ worker and three sweeps; PostgreSQL (Prisma, READ COMMITTED unless a
transaction says otherwise) holds the state, Redis the queue and the counters.

    client ── createTask ──> Task row ──> BullMQ job ──> replanning loop
                                                           │ planner, schema, critic
                                                           v
                                    governor (policy engine, velocity counters)
                          reject │        escalate │            │ approve: token
                      replan <───┘                 v            v
                                     AWAITING_HUMAN task     operator ──> tool ──> provider
                                           │  K-of-N override ──┘  │
                                           v                       v
                                   escalation sweep          ExecutionRecord
                                     (EXPIRED)          ghost sweep, reconciliation

Every component appends to the audit ledger, which a sweep copies to files.

### Inventory

| Component (source) | State it keeps | Operations | What makes it correct |
|---|---|---|---|
| Operator (`core/operator/operator.service.ts`) | `ExecutionRecord` per decision | `executeDecision`, `executeRollback` | one external action per decision however often it is called; a record that says COMPLETED is true; the intent to act is durable before the act |
| Approval tokens (`core/crypto/kms.service.ts`) | `ApprovalToken` row; key pair in memory | sign, verify, `consumeToken` | used once, before expiry, for an approved decision |
| Ghost sweep (`workers/execution-reconciliation.worker.ts`) | none | EXECUTING for 5 minutes → UNKNOWN | nothing stays EXECUTING; nothing settled is overwritten |
| Reconciliation (`workers/reconciliation.worker.ts`) | `reconciledAt`, attempts | UNKNOWN / RECONCILIATION_REQUIRED → COMPLETED when the provider confirms | never COMPLETED without an action |
| Human override (`api/controllers.ts` `overrideDecision`) | approval count, identities, lock in `decisionType` | one POST per administrator | K distinct administrators, one release, no lost signature, none after four hours |
| Task intake (`createTask`, `api/webhooks/meta.controller.ts`) | `Task` row | insert under an idempotency key, enqueue; a webhook delivery does so for each of its events | one job per key; a stored task has its job unless its own enqueue failed |
| Coordinator (`core/workflow/coordinator.service.ts`) | `Task.status`, `expiresAt`; job in Redis | the replanning loop; redelivery | it ends; one action per task; COMPLETED only after an execution |
| Escalation sweep (`workers/human-escalation.worker.ts`) | none | AWAITING_HUMAN past `expiresAt` → EXPIRED | nobody waits for ever; nothing settled is expired |
| Governor and policy engine (`core/governor/`) | `Decision`, `ApprovalToken`, `Proposal.status` | `evaluateProposal` | the verdict depends on the set of policies, not on their order; the rows agree wherever it stops |
| Audit ledger (`db/audit.logger.ts`) | `AuditLog` rows chained by `previousHash` | `logAction` | one chain per tenant, to which whole rows are appended |
| Snapshot worker (`workers/audit-snapshot.worker.ts`) | `.cursor` file, `.jsonl` files | one page per sweep | every row is exported; repeats only for a failure, an unread cursor or a second worker |
| Policy registry (`rollbackPolicy`, seeding in `policies/engine.ts`) | `GovernorPolicy.isActive` | fetch, seed, swap | never without an active version; the one a rollback names is alone when nothing crosses it |
| Counters (API rate, velocity, operator rate, tenant quota) | Redis keys | INCR with EXPIRE; DECR for the quota | the bound holds; a full counter opens again |
| Capability registry, schema validator, critic, transfer tool's checks | none | pure checks of one option | together they leave no transfer beyond its limits |
| Planner and model providers, other tools, auth, settings, read endpoints, console | — | I/O | — |

### How they interact, and what is hard

* Calls: the coordinator and the override endpoint both call `executeDecision`
  (`scripts/test-operator-idempotency.ts` calls it twice on purpose), from different
  requests or processes. Only the conditional update of the token row separates them.
* Shared rows: `Task` is updated by id alone by the intake, the loop, the operator,
  the override and the escalation sweep; `ExecutionRecord` by the operator, two
  sweeps and the rollback. `version` is incremented and never compared.
* Delivery: a BullMQ job runs at least once; a run that lost its lock may go on
  beside its successor; the enqueue itself is not awaited.
* Time: a tool call races `maxExecutionTimeMs`; tokens live 15 minutes, escalations
  four hours for signatures and 24 hours for the task, executions five minutes.
* Failure: the process may die at every await, every statement may throw, and an
  aborted serializable audit transaction throws into whoever was logging.

`PROJECT.json` lists the single hazards with their lines.

## 2. Modules

| Module | What it is |
|---|---|
| `Operator` | `executeDecision`, `executeRollback`, the token, the two record sweeps |
| `SingleUseExecution` | abstract: one claim, one start, one change per approved decision |
| `Override` | `overrideDecision` under concurrent requests |
| `KofNRelease` | abstract: released at most once, by a quorum of distinct signers |
| `Intake` | `createTask` and `receiveMetaWebhook`, up to the job |
| `Workflow` | extends `Intake`: the queue, the replanning loop, the override's effect on the task, the escalation sweep |
| `TaskLifecycle` | abstract: a task is stored once, acted on once per turn, completed on an answer, expired only while it waits |
| `AuditChain` | `logAction` and the snapshot workers of one directory |
| `AtomicLedger` | abstract: a row is appended in one step, behind the latest of its tenant |
| `Vetting` | pure: schema, critic, capability registry, boundary checks, the transfer tool's checks |
| `Governor` | extends `Vetting`: one `evaluateProposal` with the policy engine |
| `PolicyRegistry` | the versions of one tenant: fetching, seeding, `rollbackPolicy` |
| `Counters` | the four Redis counters |
| `OperatorProofs`, `OverrideProofs`, `IntakeProofs`, `WorkflowProofs`, `AuditChainProofs`, `GovernorProofs`, `PolicyRegistryProofs`, `CountersProofs` | theorems |
| `MC...` | instances for TLC, one for each of the modules with behaviour |

Conventions. A process (a call, a request, a run, a row being logged) has an entry in
a `pc`-like function that names the await it is at; every action is the code between
two awaits. A crash ends a process anywhere and leaves the rows. Variables marked
*history* record what happened and guard nothing.

**Operator.** `token`, `status`, `txn`, `stale` and `taskFailed` are columns
(`ApprovalToken.used`, `ExecutionRecord.status`, `.providerTransactionId`,
`.startedAt` past the threshold, `Task.status` = FAILED); `ghosts` and `fixes` are the
lists the sweeps hold in memory. `Validate`, `Consume`, `Lookup`, `Create`,
`Acquire`, `RefuseRate`/`StartTool`, `MarkUnknown`, `ToolAnswers`/`Timeout`,
`Finalize`, `AuditReport`, `Abort` are the statements of `executeDecision` in order.
A started request is `inflight` until the provider acts (`Land`) or never does: the
race against the timeout is decided apart from what the provider does, because
aborting the wait does not recall the request. The reconciliation sweep's provider
is a mock that answers SUCCESS exactly for rows with a transaction id
(`reconciliation.worker.ts:100-105`), so its backoff branch never runs and is not
modelled. `RestartWithNewKeys` is a restart without a configured key:
tokens signed before no longer verify. Nothing in the repository starts the
reconciliation sweep or calls `executeRollback` by itself; both are modelled as
calls that may come at any time.

**Override.** A request reads the row (`Read`), checks for an earlier release
(`CheckPrior`), signs by compare-and-set on `approvalsCount` (`Sign`), locks
(`Lock`), then inserts the override decision and token, updates the proposal, logs,
executes, resolves the task. `snapCount` and `snapApprovers` are what it read at the
top. The execution is one step with the outcomes of module `Operator`.

**Intake.** A member of `Tasks` is a pair of tenant and idempotency key together with
the task stored under it, so two requests collide exactly when `TaskOf` maps them to
one member; a request without a key has a member of its own. `request` and `delivery`
name the await each handler is at. A delivery is answered 200 before its first event
(`meta.controller.ts:87`), so a process that dies leaves events nobody sends again.
`lost` remembers the tasks whose own enqueue failed or died with its process, so that
`OneJobPerKey` can give each stored row exactly one fate: a handler is about to enqueue it,
it was enqueued once, or it is lost. The
signature is taken to hold; whether an event has an objective (`meta.parser.ts`) is in
the key, `NoObjective` for none.

**Workflow.** A run is `<<task, n>>`, the n-th delivery of the task's job. The
planner, validators, critic and governor answer anything; a decision is identified
with the run that made it, since a run executes at most once (`OneExecutionPerRun`).
Redis's refusal of a run over the tenant quota is the `Interrupt` of that run, and is
looked at in `Counters`.

**AuditChain.** Each call of `logAction` owns one row id. `Serializable` is what
PostgreSQL grants: a transaction commits only if no row that its read would have
returned was committed meanwhile. It may also abort for any other reason (`Throw`).
The previous hash is the row it was computed from. There is no clock in the module:
`timestamp @default(now())` (`prisma/schema.prisma:104`) is filled by the process that
writes the row or, as the column's default, is the start of its transaction, so rows are
not inserted in the order of their stamps. A stamp may lie behind one given before by up to
`Skew`, a parameter of the deployment for which the code gives no bound; every statement
holds for each `Skew`, and with `Skew = MaxTime` stamps are arbitrary. Each process has a
snapshot worker; `isRunning` keeps one worker from sweeping twice at a time, and the
`Workers` of the module are those that share a directory. `ReadCursor`, `QueryNothing` or
`QueryPage`, `AppendDay` and `WriteCursor` are the awaits of `runSweep`; `MisreadCursor` is
`getLastCursor` turning an error, or what another worker has half written, into "no
cursor". As *history*, `overtook` holds for each row the places sweeps had reached when it
was committed and that lie behind it, `beside` and `overlaps` the sweeps that began beside another's
and took a page, `faults` those that failed or could not read the cursor.

**Vetting.** An option is what its tool, its numbers and the patterns found in its
texts make of it; values are numbers, something else or absent, as the parameters are
untyped until the tool reads them. Limits and bindings are those of
`capability.registry.ts`.

**Governor.** The proposal is one of `Options`, as the critic let it through. A policy
is its rule, its risk, whether it targets the action, whether its condition is met and
the `maxAmount` it injects. The engine's loop (`Match`), the governor's fold with
its early exit (`Fold`), the review upgrade, the velocity guard and the four writes
are steps; `Fail` may strike at every await.

**PolicyRegistry.** An evaluation is `Fetch`, or `FallBack`, `CountRows` and `Seed`; what it
makes of the rules, and the token, are `Governor`'s. A rollback is a transaction at READ
COMMITTED: its first statement works on the rows that were active when it started (`found`), waits for those another
transaction holds (`held`) and looks at them again, but does not notice a row that
became active meanwhile. `Commit` makes both updates visible at once. As *history*,
`crossed` holds the rollbacks in whose transaction another version became active, and
`inForce` the version last activated, unless that activation was crossed.

**Counters.** `Windows` are the keys of the three rate limits, `Quotas` those of
`active_jobs`. `Script` is the Lua script, INCR and EXPIRE at 1, `Tick` the passing of
time that ends keys. A run that throws decrements and goes back to the queue; one whose
process dies goes back without. Values over the limit are not told apart. `recent` is a *history*:
the calls each window admitted, numbered, with their ages up to the length of a window.

## 3. What TLC checks

`CHECK_DEADLOCK FALSE` is set everywhere: the instances have finitely many
calls, requests, deliveries and rows, and stop when they are used up.

| Run | Bounds | Distinct states | Checks |
|---|---|---|---|
| `MCOperator_safety` | 2 decisions (one never approved), 3 calls, 2 for one decision, 2 rollbacks, symmetry | 123 360 | `TypeOK`, `AtMostOnce`, `CompletedMeansExecuted`, `IntentRecorded`, `ReturnIsHonest`, `FreshClaim`, refinement `SingleUse` |
| `MCOperator_sweeps` | 2 decisions with a call each, one of them slow, 1 rollback, fairness | 578 748 | `CompletedLeftOnlyByRollback`, `NoGhostForever` |
| `MCOperator_uncertain` | 1 call | violated | `UncertainOutcomeIsReviewed` |
| `MCOverride_quorum` | dual approval, 3 administrators, 5 requests (one repeated, one of another tenant) | 911 206 | `SignaturesKept`, `ExpiredIsClosed`, `CompletedByOverride`, refinement `KofN` |
| `MCOverride_stuck` | 1 approver, 1 request, fairness | violated | `LockedIsResolved` |
| `MCIntake_replays` | 2 calls with one key, 2 deliveries of 2 and 3 events over the same keys, fairness | 48 180 | `OneJobPerKey`, `StoredIsQueued`, `DeliveryEnds` |
| `MCWorkflow_progress` | 1 request, 2 deliveries of its job, 3 replans, fairness | 345 433 | `TypeOK`, `OneExecutionPerRun`, `CompletedWasExecuted`, `CompletedLeftByOthers`, `LoopEnds`, `WaitingEnds`, refinement `KeepsLifecycle` |
| `MCWorkflow_redelivered` | 1 request, 2 deliveries, 1 replan | violated | `OneExecutionPerTask` |
| `MCAuditChain_ledger` | 3 rows, 2 tenants, stamps to 2 with a skew of 1, 2 workers, pages of 2, days of 2, 1 fault, 1 overlap, fairness | 679 367 | `NoFork`, `NoGap`, `RepeatsAccountedFor`, `EveryRowCopied`, refinement `AtomicAppends` |
| `MCGovernor_safety` | 34 options on both sides of each limit, all lists of up to 3 policies out of 9 | 285 984 | `RowIsVerdict`, `EveryPolicyCounts`, `LimitsBind`, `StoresAgree` |
| `MCCounters_limits` | 1 window of limit 2, 1 quota of 2 with 3 jobs, keys of 2 ticks, 2 faults, fairness | 126 504 | `PositiveRunsOut`, `SlidingBound`, `QuotaHeld`, `Reopens`, `EveryJobEnds` |
| `MCPolicyRegistry_swap` | 3 versions, 3 evaluations with 2 files, 3 rollbacks to 2 targets, every initial registry | 78 994 | `NeverBare`, `SoleActive`, `OnlyNamed` |

The type invariants that are in no run's list (`Override`, `Intake`, `AuditChain`,
`Governor`, `Counters`, `PolicyRegistry`) are proved, see section 4.

Why the bounds are enough. Decisions do not share rows in `Operator`, so two
overlapping calls on one decision and a third elsewhere show every conflict
(a call does nothing to another decision's row; `Operator` and `Override` are
also proved for all instances). A release needs two signatures, and a third
administrator and a repeated request add every kind of latecomer. Two deliveries
give one run that died or lost its lock and one that follows or overlaps;
`MaxReplan` is the value of the code. Two overlapping deliveries with the events in
another order, and two calls, meet at every step of the insert and the enqueue, and an
event without an objective in the middle shows that the later ones are reached. Three
rows are the fewest for a row of the same tenant or of another one that becomes visible behind
the cursor, and with pages of two they make the sweep stop inside the ledger and inside a
day; without the serializable transaction two of them fork. (A fork behind a backdated row
takes three rows of one tenant: that it is the only one is proved for any number of rows.)
A skew of 1 against stamps from 0 to 2 gives rows that are backdated within it and
predecessors that it forbids; two workers, one fault and one overlap give a cursor that is
set back, lost or unread. Three policies give every order of one
that rejects, one that escalates and one that constrains, and of two injected limits.
Three rollbacks are the fewest for two to overlap and a third to follow; three
evaluations let one seed, one join it and one read. One window suffices since keys do
not touch each other; three jobs are one more than the quota, and two faults let a
place be lost and a run throw. `MaxTime`, `MaxFaults`, `MaxOverlaps`, `MaxRuns` and
`MaxPolicies` are bounds of the models; the code's are 50 deliveries and none.

### Fairness

* `Operator!FairSpec`: the ghost sweep is started by `server.ts` and re-armed by
  `setTimeout` after each sweep, failed or not, and the clock advances. A call that
  is not in `SlowCallers` gets from EXECUTING to its final update: every tool has a
  `maxExecutionTimeMs` of at most 15 s against a threshold of five minutes, and an
  await of the database returns or throws. Slow callers stand for a process that is
  suspended or a statement that hangs; nothing is assumed of them. A crash ends a
  call whatever its fairness. Nothing is assumed of providers, rollbacks and the
  reconciliation sweep.
* `Override!FairSpec`: a request that is being handled is run to its answer.
* `Workflow!FairSpec`: the queue delivers, each await returns or throws, the
  escalation sweep is re-armed, deadlines pass. Nothing is assumed of people.
* `Intake!FairIntakeSpec`: the awaits of a handler return or throw; a process may die
  at each of them. Senders owe nothing.
* `AuditChain!FairSpec`: `setInterval` runs each worker's sweep again and its awaits return
  or throw; at most `MaxFaults` sweeps fail or misread the cursor. Writers owe nothing.
* `Counters!FairSpec`: time passes, the loop of a job ends (`LoopEnds`) and BullMQ tries
  a refused job again: fifty attempts with exponential backoff from two seconds outlast
  the 300 seconds of a key many times over. Callers of a rate limit owe nothing:
  `Reopens` is about the counter.

### Where the code departs from what it says

Three runs end in a violation, each of a sentence of the repository:

1. `MCOperator_uncertain`. The catch around the race with the timeout
   (`operator.service.ts:251`) makes a timeout an unclassified FAILED, so the record is
   closed as FAILED though the tool may have acted or may still act;
   `operator.service.ts:286` says of such cases "force manual review!".
2. `MCOverride_stuck`. After `OVERRIDE_IN_PROGRESS` is set, an exception or a crash
   leaves it there: no path resets it, and no later request can release the decision. One
   that has signed before is told to "Please wait" (`controllers.ts:213`), one that comes
   later is refused at 145 or 190.
3. `MCWorkflow_redelivered`. A job delivered again starts the loop afresh, with a new
   decision, token and idempotency key, and acts a second time;
   `prisma/schema.prisma:25` says "Prevents duplicate execution of the same webhook
   payload".

Deviations that were met while modelling and have no run of their own:

* The outer catch of `executeDecision` (323-330) fails the task also when the record
  is already COMPLETED and only the audit transaction after it failed; its comment
  says "prior to DB recording".
* "If the same Token is somehow re-submitted, the database unique constraint blocks
  execution" (`docs/FINAL_HARDENING_REVIEW.md:63`). What blocks it is the conditional update of the
  token row: `FreshClaim` says that a call that has consumed its token never finds a record,
  so the unique constraint, the idempotent answer and the retry of a FAILED record
  (`operator.service.ts:144-185`) are branches no call takes.
* `executeRollback` parks an undone execution in UNKNOWN, "implying a human needs to
  verify external state" (355-356), but keeps its transaction id; the reconciliation
  sweep then sets it COMPLETED.
* A task whose override was executed while the last task update was lost still reads
  AWAITING_HUMAN and is expired; `docs/architecture.md:61` speaks of "untouched"
  decisions.
* `createTask` does not await the enqueue (`controllers.ts:44`) and answers "workflow
  started"; if the enqueue fails the task stays PENDING, and a retry with the same
  key is answered as a replay.
* A row that is committed when a sweep has already read past its timestamp is never
  exported (`docs/architecture.md:62`): behind a row of another tenant always possible,
  behind one of its own tenant when that row is stamped later by the skew of the clocks or
  in the same millisecond. `NoGap` says that there is no other gap, for any skew.
* The latest row of a chain is chosen by its timestamp. A row stamped in the millisecond of
  the row it follows, or before it, because two processes' clocks are apart or its
  transaction began earlier, leaves that row the latest or one of two, and the next row
  forks the chain, against `audit.logger.ts:25` "prevent Hash Chain Forks". `NoFork` says
  that nothing else forks it.
* The cursor file is read with every error taken for its absence
  (`audit-snapshot.worker.ts:47`), and `isRunning` (58) is a flag of one process: a sweep
  that succeeds may export the ledger again from its first row, and two processes that
  share a directory export rows twice. `RepeatsAccountedFor` counts these.
* Two policy rollbacks that cross each other may leave both targets active, and two
  processes with different files that seed one registry both versions
  (`controllers.ts:455` "safely swap"); the engine's `findFirst` then takes either.
  `SoleActive` says that this lasts no longer than to the end of the next rollback that
  nothing crosses.
* "Every `ApprovalToken` and `AuditLog` indelibly records the exact `policyVersionHash`"
  (`docs/FINAL_HARDENING_REVIEW.md:78`). The token of an override
  (`controllers.ts:261-272`), which every transfer needs, records none.
* "Pending decisions also enforce a strict 4-hour `expiresAt` TTL"
  (`docs/FINAL_HARDENING_REVIEW.md:76`). The age is tested once at the top of the request
  (`controllers.ts:169`): one that arrived in time may sign, and release, after it.
  `ExpiredIsClosed` says that one that arrived later never does.
* A call of `executeDecision` that is suspended for more than five minutes between its tool
  and its final update and then goes on may have its COMPLETED record overwritten with
  UNKNOWN by a ghost sweep working from its list
  (`execution-reconciliation.worker.ts:61`). `CompletedLeftOnlyByRollback` is about calls
  that end within the threshold.
* A process that dies after the token was consumed and before the record says EXECUTING
  (`operator.service.ts:122-196`) loses the execution: no sweep looks for it and the token
  is spent. Nothing promises otherwise.
* Task statuses are written by id alone, so a run beside another, or beside an override, may
  overwrite COMPLETED with PROCESSING, AWAITING_HUMAN or FAILED
  (`coordinator.service.ts:104`, `:200`, `:210-221`). `CompletedLeftByOthers` says that no run
  does it to itself, and no sweep.
* The windows are fixed ones from their first call, so up to twice the limit passes
  within one window's length (`SlidingBound`), where `governor.service.ts:168` and
  `docs/FINAL_HARDENING_REVIEW.md:64` speak of sliding ones.
* A run that outlives the 300 seconds of the quota key is no longer counted, and its
  DECR lowers the count of those that came later (`coordinator.service.ts:69`, `:83`);
  `QuotaHeld` excludes such keys (`outlived`).
* The API's rate limiter is "Per-tenant" (`rate-limiter.middleware.ts:38`) but runs
  before the authentication of the routes (`server.ts:69-70`), so its tenant is always
  `anon`.
* The webhook stores its task for `meta_page_<id>` and calls `processTask` without a
  tenant (`meta.controller.ts:132`), so the job runs as `default_tenant`
  (`docs/FINAL_HARDENING_REVIEW.md:32` wants every model scoped).
* The webhook's key is made of the entry's time and `post_id || comment_id`
  (`meta.controller.ts:117`): two comments on one post in one entry have one key, and
  the second is dropped as a duplicate.
* Injected constraints are merged by spread (`governor.service.ts:156`): a later policy's
  weaker `maxAmount` replaces an earlier, stricter one. `LimitsBind` names this.
* A transfer without a currency passes the currency check of the capability, which
  compares only what is given.
* Requests that are still served during a graceful shutdown find the queue closed
  (`server.ts:127-135`): their tasks are stored and not queued, as in `EnqueueLost`.
* `Task.version` is "Optimistic locking" (`prisma/schema.prisma:29`) and is never
  compared.
* The governor's early rejections (capability, contract, scope) write neither a
  decision nor an audit row (`docs/system_prompt.md:28` wants all logged).

## 4. What TLAPS proves

All theorems are of the form `Spec => []P` or `Spec => AbstractSpec`, for every value
of the constants that satisfies the module's `ASSUME`; these hold of any instance
the code can have (finitely many administrators, a positive quorum, every call with one
decision, policies of the declared shape).

**OperatorProofs** (`TypeCorrect`, `ExecutesAtMostOnce`, `CompletedIsHonest`,
`IntentIsDurable`, `ImplementsSingleUse`, `ClaimFindsNoRecord`, `OneHonestReturn`,
`OnlyRollbackUndoes`). `AtMostOnce` is not inductive: it needs to
know that the consumed token is the right to execute. The invariant adds that only
approved decisions have tokens, that at most one caller is past consumption
(`SoleHolder`), that nothing was started before its claim or before the holder's own
step (`StartedOnlyByHolder`), that a request on its way belongs to a start and is the
only one (`OneRequest`), that a SUCCESS is answered only after the effect
(`AwaitedLanded`), and that a COMPLETED status, a transaction id and a
reconciliation list are evidence of an effect (`EvidenceOfEffect`). The ghost and
reconciliation sweeps write by id alone and are harmless to all of these because none
of them lets a tool start. Each step then maps to a step of
`SingleUseExecution` or to a stutter.

Three more invariants rest on this one. `FreshRecord`: while the holder has not yet
created the record there is none, and none was ever there for a token not consumed; so
`Lookup` finds nothing and `Create` never collides (`ClaimFindsNoRecord`). `Reported`:
what the holder of the claim has seen of its tool fits what it has counted, and only it
counts (`SoleKeeper`); so one call at most of a decision returns normally, after one start, and
a SUCCESS is returned only for an effect (`OneHonestReturn`). This is the contract of
`executeDecision` that `Workflow` (`Outcomes`) and `Override` (`Execute`) take for their
single step. `PromptInv`, for
`OnlyRollbackUndoes`: a prompt call that executes is on no sweep's list, a list names
what still executes, and once a decision was settled nobody is going to execute it again.

**OverrideProofs** (`TypeCorrect`, `NoSignatureLost`, `ExpiryCloses`,
`ImplementsKofN`, `CompletionIsTheHolders`). Signing is a compare-and-set on the count
alone while the
identities are written from the snapshot. It is safe because a snapshot is never
ahead of the row and one with the same count is the same row (`SnapshotInv`):
every accepted signature raises the count. `QuorumBehind` says that a request past
the quorum test has the quorum in the row; `SoleRelease` that the lock admits one
request and is never undone. A second invariant (`ReleaseInv`) follows the holder of the
lock from the release to the task's COMPLETED: nobody else is in those steps
(`SoleReleaser`), it has done what comes before (`ReleaseProgress`), and after it
there is no holder any more (`CompletedIsOver`).

**IntakeProofs** (`IntakeTypeCorrect`, `JobEnqueuedOnce`). Jobs are counted, so that one
per key is not inductive: a second handler might hold the row. The invariant (`Fate`)
lists what a key can be: nothing stored, and nobody enqueuing it, no job and no loss;
or stored, with one handler at its enqueue, or one job, or a loss, each of which excludes
the others. The insert under the unique key is the only way from the first to the
second. A delivery at work is at one of its events (`AtEvent`).

**WorkflowProofs** (`TypeCorrect`, `KeysStayOnce`, `RunsExecuteOnce`,
`CompletedTasksWereExecuted`, `CompletedIsLeftByOthers`, `ImplementsLifecycle`). A run
that has a record is past its call of the operator, one that
escalated never comes to it and the override calls once (`RecordedOnce`); who is about to
complete a task has seen the call return (`FinishedActs`); actions are counted by records
(`ActionsRecorded`). The steps of `Intake` keep its invariant and none of these;
conversely the queue and the loop touch only tasks that are stored (`StoredFirst`), which
keeps the fates of `Intake` in the whole system. Each step then maps to one of
`TaskLifecycle`: an insert stores the task, a return of the operator is an action of its
turn, a completion follows an answer, and the escalation sweep expires what waits.
A COMPLETED task is one whose run has ended, or one that others meet at (`Settled`): who
writes over it is a run that has not ended, hence another, or an override.

**AuditChainProofs** (`TypeCorrect`, `ChainIsAnchored`, `ImplementsAtomicLedger`,
`ChainForksOnlyBehindBackdated`, `SnapshotHasNoGap`, `RepeatsAreAccountedFor`). For any
skew. An open transaction follows the latest row it has seen (`OpenInv`), and no row it has
seen is stamped later than its own by more than the skew (`StampInv`). When it commits,
what it saw is the whole ledger of its tenant: a row that already followed the same
predecessor was seen too, and was not taken, so it is stamped no later than that
predecessor, and by no more than the skew (`Backdated`, `Anchored`). Reading, linking and
committing take three steps of the code and one of `AtomicLedger`: the commit appends
behind the latest row of the tenant as the ledger is then, and all else is a stutter. For
the snapshots, what each worker has read is in the ledger, and its page is what lies between the cursor it read
and the page's last row (`SweepInv`). What lies behind a place some sweep has reached is
copied, in a batch of that sweep, or was overtaken at its commit (`CopiedInv`); and a row
of the same tenant it was overtaken by is stamped later by the skew at most, since a
transaction that has seen the sweep's row takes no stamp further behind, and one that has
not cannot commit (`OvertookInv`). For the repeats (`CopyInv`), the copies of a
row and the sweeps begun alone that may still copy it, or set the cursor before it, are
together no more than one for each fault and overlap and one to begin with; and while the
cursor lies before the row, and no worker is about to set it behind, the copies alone are no
more than faults and overlaps.

**GovernorProofs** (`TypeCorrect`, `DecisionIsVerdict`, `PoliciesCount`, `RowsAgree`,
`TransfersAreBounded`). For all options and every list of policies of any length. The
invariant has one conjunct per phase
(`Loading` ... `Deciding`): after n iterations the results mirror the policies that
fired among the first n (`MatchedUpTo`), and the accumulators are a function of the
set of actions among the results read so far (`FoldedUpTo`); the verdict of the list as a
set follows when the loops end (`Concluded`), and `Recorded`, `Stored` carry it into
the rows. For the limits: past the boundary checks the option is within them
(`Bounded`), and the merged constraints are policies that fired (`Merged`).

**PolicyRegistryProofs** (`TypeCorrect`, `RegistryIsNeverBare`, `SwapLeavesOneActive`,
`OnlyNamedBecomeActive`). A rollback past its lookup has a row to activate, and both updates
commit together. Of a transaction that no activation has crossed, what is active now was
active when it took its snapshot, and it holds all of that when it comes to activate; so
its commit leaves the target alone.

**CountersProofs** (`TypeCorrect`, `CountedKeysRunOut`, `QuotaIsHeld`,
`SlidingBoundHolds`). On keys that did not
run out under a run the count is no less than the places held, and no more than the quota
are running (`QuotaInv`); DECR may push it lower only for places that were given up. For
the windows (`WindowInv`), the calls the present key admitted have a number each, up to
the limit, and so have those remembered from before it, which one key admitted: together
never more than twice the limit within one window's length.

Only model-checked: the liveness properties (`NoGhostForever`, `DeliveryEnds`,
`StoredIsQueued`, `LoopEnds`, `WaitingEnds`, `EveryRowCopied`, `Reopens`, `EveryJobEnds`),
which are beyond the prover as is anything about ENABLED. The three runs that end in a
violation have no theorem, of course.

## 5. Not modelled, and why

* Hashing, signatures, canonical JSON, encryption at rest: taken as injective, and as
  "verifies or not".
* The patterns and normalisation of the critic, the comparison operators of a policy's
  condition and a contract's parameter schema: predicates of the option or the policy.
* The text of a webhook's objective, and the signature in front of it.
* Planner, model adapters, tools other than the outcome of a call, authentication and
  roles, settings, read endpoints, the console: I/O or sequential.
* The failures of a task left PROCESSING by the last attempt of its job: nothing in the
  code looks for it, so there is no promise to check.

The registry of capabilities is built in; the policies are not: the modules allow every
policy list, also where today's `policies.json` makes a branch unreachable (a transfer
over the capability's amount is rejected before the policy on larger amounts is asked,
and transfers always need human review).

## 6. Plan

1. *(done)* `Operator`, `Override`, `Workflow`, `AuditChain`, `Governor` and their proofs.
2. *(done)* `PolicyRegistry` and `Counters`, in place of abstractions in `Governor`,
   `Operator` and `Workflow`.
3. *(done)* `Intake` with the webhook, `WorkflowProofs`; `Vetting` with the limits of a
   transfer across governor and tool.
4. *(done)* The promises by which modules stand for one another: what a call of
   `executeDecision` returns (`ReturnIsHonest`), one fate per stored task (`OneJobPerKey`),
   `TaskLifecycle` and `AtomicLedger` as abstractions of the loop and of the ledger.
5. *(open)* One instance that puts `Counters`' quota in place of `Interrupt` in
   `Workflow`, and `Operator`'s calls in place of its `Settle`; the states multiply, and
   the interfaces are covered by `EveryJobEnds`, `LoopEnds` and `SingleUse` one by one.
