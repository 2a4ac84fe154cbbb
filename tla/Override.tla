------------------------------ MODULE Override ------------------------------
(***************************************************************************)
(* The human override endpoint: overrideDecision (api/controllers.ts).     *)
(*                                                                         *)
(* A request is one POST to /decisions/:id/override by an administrator.   *)
(* Requests run concurrently; each await of the handler is one step.  What *)
(* the handler read from the decision row at the top is kept in snapCount  *)
(* and snapApprovers until the compare-and-set.  The call into the         *)
(* operator is one step with the outcomes module Operator allows.          *)
(***************************************************************************)
EXTENDS Integers, FiniteSets

CONSTANTS
  Escalations,  \* decisions the governor created as BLOCK_AND_ESCALATE
  Required,     \* requiredApprovers of each
  Admins,       \* administrator ids
  Requests,     \* override requests
  AdminOf,      \* who makes each request
  TargetOf,     \* the escalation each request names
  Foreign       \* requests whose tenant is not the decision's

ASSUME OverrideAssumption ==
  /\ Required \in [Escalations -> Nat \ {0}]
  /\ IsFiniteSet(Admins)
  /\ AdminOf \in [Requests -> Admins]
  /\ TargetOf \in [Requests -> Escalations]
  /\ Foreign \subseteq Requests

VARIABLES
  decisionType,   \* Decision.decisionType of each escalation
  approvals,      \* Decision.approvalsCount
  approvers,      \* Decision.approverIdentities
  aged,           \* escalations more than four hours old
  pc,             \* next await, or the response, of each request
  snapCount,      \* decision.approvalsCount as the request read it
  snapApprovers,  \* decision.approverIdentities as the request read it
  override,       \* the HUMAN_OVERRIDE_APPROVED decision of each escalation
  proposal,       \* Proposal.status behind each escalation
  task,           \* Task.status as far as override and operator set it
  signed,         \* history: requests whose compare-and-set succeeded
  releases,       \* history: override decisions created for each escalation
  lateRequests    \* history: requests that arrived after the four hours

rowVars     == <<decisionType, approvals, approvers>>
snapVars    == <<snapCount, snapApprovers>>
outcomeVars == <<override, proposal, task>>
historyVars == <<signed, releases, lateRequests>>
vars == <<rowVars, aged, pc, snapVars, outcomeVars, historyVars>>

\* Awaits of the handler, in order, and the responses it can end with.
Working == {"prior", "sign", "lock", "create", "token", "propose", "audit",
            "execute", "resolve"}
Answered == {"notFound404", "notEscalated400", "replayed403", "duplicate403",
             "expired403", "conflict409", "pending200", "busy409", "executed200",
             "error500"}

\* What the execution of an override can come to: its ExecutionRecord COMPLETED, in
\* RECONCILIATION_REQUIRED, or neither.
Outcomes == {"COMPLETED", "UNSETTLED", "unfinished"}

TypeOK ==
  /\ decisionType \in [Escalations -> {"BLOCK_AND_ESCALATE", "OVERRIDE_IN_PROGRESS"}]
  /\ approvals \in [Escalations -> Nat]
  /\ approvers \in [Escalations -> SUBSET Admins]
  /\ aged \subseteq Escalations
  /\ pc \in [Requests -> {"idle", "crashed"} \cup Working \cup Answered]
  /\ snapCount \in [Requests -> Nat]
  /\ snapApprovers \in [Requests -> SUBSET Admins]
  /\ override \in [Escalations ->
                    {"none", "created", "tokened"} \cup Outcomes]
  /\ proposal \in [Escalations -> {"PENDING_REVIEW", "APPROVED"}]
  /\ task \in [Escalations -> {"AWAITING_HUMAN", "FAILED", "COMPLETED"}]
  /\ signed \subseteq Requests
  /\ releases \in [Escalations -> Nat]
  /\ lateRequests \subseteq Requests

Init ==
  /\ decisionType = [e \in Escalations |-> "BLOCK_AND_ESCALATE"]
  /\ approvals = [e \in Escalations |-> 0]
  /\ approvers = [e \in Escalations |-> {}]
  /\ aged = {}
  /\ pc = [r \in Requests |-> "idle"]
  /\ snapCount = [r \in Requests |-> 0]
  /\ snapApprovers = [r \in Requests |-> {}]
  /\ override = [e \in Escalations |-> "none"]
  /\ proposal = [e \in Escalations |-> "PENDING_REVIEW"]
  /\ task = [e \in Escalations |-> "AWAITING_HUMAN"]
  /\ signed = {}
  /\ releases = [e \in Escalations |-> 0]
  /\ lateRequests = {}

-----------------------------------------------------------------------------
\* A request moves on, or answers, and touches nothing else.
Goto(r, label) ==
  /\ pc' = [pc EXCEPT ![r] = label]
  /\ UNCHANGED <<rowVars, aged, snapVars, outcomeVars, historyVars>>

\* findFirst by id and tenant finds nothing.
NotFound(r) ==
  /\ pc[r] = "idle"
  /\ r \in Foreign
  /\ Goto(r, "notFound404")

\* findFirst by id and tenant, then the state check.
Read(r) ==
  LET e == TargetOf[r] IN
  /\ pc[r] = "idle"
  /\ r \notin Foreign
  /\ pc' = [pc EXCEPT ![r] = IF decisionType[e] = "BLOCK_AND_ESCALATE"
                             THEN "prior" ELSE "notEscalated400"]
  /\ snapCount' = [snapCount EXCEPT ![r] = approvals[e]]
  /\ snapApprovers' = [snapApprovers EXCEPT ![r] = approvers[e]]
  /\ lateRequests' = IF e \in aged THEN lateRequests \cup {r} ELSE lateRequests
  /\ UNCHANGED <<rowVars, aged, outcomeVars, signed, releases>>

\* A wrong form of Verdict: the age is not tested.
VerdictAgeless(r) ==
  IF override[TargetOf[r]] = "COMPLETED" THEN "replayed403"
  ELSE IF AdminOf[r] \in snapApprovers[r] THEN "duplicate403"
  ELSE "sign"

\* The first of the early returns that applies after the anti-replay query, else "sign".
Verdict(r) ==
  LET e == TargetOf[r] IN
  IF override[e] = "COMPLETED" THEN "replayed403"
  ELSE IF AdminOf[r] \in snapApprovers[r] THEN "duplicate403"
  ELSE IF e \in aged THEN "expired403"
  ELSE "sign"

CheckPrior(r) ==
  /\ pc[r] = "prior"
  /\ Goto(r, Verdict(r))

\* A wrong form of Unchanged: the update is not conditioned on the count that was read.
UnchangedUncounted(r) == decisionType[TargetOf[r]] = "BLOCK_AND_ESCALATE"

\* where: { id, decisionType: BLOCK_AND_ESCALATE, approvalsCount: as read }
Unchanged(r) ==
  LET e == TargetOf[r] IN
  decisionType[e] = "BLOCK_AND_ESCALATE" /\ approvals[e] = snapCount[r]

Sign(r) ==
  LET e == TargetOf[r] IN
  /\ pc[r] = "sign"
  /\ IF Unchanged(r)
       THEN /\ approvals' = [approvals EXCEPT ![e] = @ + 1]
            /\ approvers' = [approvers EXCEPT ![e] = snapApprovers[r] \cup {AdminOf[r]}]
            /\ signed' = signed \cup {r}
            /\ pc' = [pc EXCEPT ![r] =
                        IF snapCount[r] + 1 < Required[e] THEN "pending200" ELSE "lock"]
       ELSE /\ pc' = [pc EXCEPT ![r] = "conflict409"]
            /\ UNCHANGED <<approvals, approvers, signed>>
  /\ UNCHANGED <<decisionType, aged, snapVars, outcomeVars, releases, lateRequests>>

\* A wrong form of Lockable: the lock is an unconditional update.
LockableAlways(r) == TRUE

Lockable(r) == decisionType[TargetOf[r]] = "BLOCK_AND_ESCALATE"

Lock(r) ==
  LET e == TargetOf[r] IN
  /\ pc[r] = "lock"
  /\ IF Lockable(r)
       THEN /\ decisionType' = [decisionType EXCEPT ![e] = "OVERRIDE_IN_PROGRESS"]
            /\ pc' = [pc EXCEPT ![r] = "create"]
       ELSE /\ pc' = [pc EXCEPT ![r] = "busy409"]
            /\ UNCHANGED decisionType
  /\ UNCHANGED <<approvals, approvers, aged, snapVars, outcomeVars, historyVars>>

\* The append-only override: a new decision row.
CreateOverride(r) ==
  LET e == TargetOf[r] IN
  /\ pc[r] = "create"
  /\ override' = [override EXCEPT ![e] = "created"]
  /\ releases' = [releases EXCEPT ![e] = @ + 1]
  /\ pc' = [pc EXCEPT ![r] = "token"]
  /\ UNCHANGED <<rowVars, aged, snapVars, proposal, task, signed, lateRequests>>

CreateToken(r) ==
  LET e == TargetOf[r] IN
  /\ pc[r] = "token"
  /\ override' = [override EXCEPT ![e] = "tokened"]
  /\ pc' = [pc EXCEPT ![r] = "propose"]
  /\ UNCHANGED <<rowVars, aged, snapVars, proposal, task, historyVars>>

ApproveProposal(r) ==
  LET e == TargetOf[r] IN
  /\ pc[r] = "propose"
  /\ proposal' = [proposal EXCEPT ![e] = "APPROVED"]
  /\ pc' = [pc EXCEPT ![r] = "audit"]
  /\ UNCHANGED <<rowVars, aged, snapVars, override, task, historyVars>>

Audit(r) ==
  /\ pc[r] = "audit"
  /\ Goto(r, "execute")

\* A wrong form of Execute: what the operator throws is swallowed.
ExecuteSwallowed(r) ==
  LET e == TargetOf[r] IN
  /\ pc[r] = "execute"
  /\ \E s \in Outcomes : override' = [override EXCEPT ![e] = s]
  /\ pc' = [pc EXCEPT ![r] = "resolve"]
  /\ UNCHANGED <<rowVars, aged, snapVars, proposal, task, historyVars>>

\* operator.executeDecision(override): it returns with the record COMPLETED or
\* RECONCILIATION_REQUIRED, as it wrote it (ReturnIsHonest of Operator); or it throws,
\* whatever the record, after its own catch has failed the task or failed to; or the
\* process dies in it.
Execute(r) ==
  LET e == TargetOf[r] IN
  /\ pc[r] = "execute"
  /\ \/ /\ \E s \in {"COMPLETED", "UNSETTLED"} : override' = [override EXCEPT ![e] = s]
        /\ pc' = [pc EXCEPT ![r] = "resolve"]
        /\ UNCHANGED task
     \/ /\ \E s \in Outcomes : override' = [override EXCEPT ![e] = s]
        /\ \/ /\ pc' = [pc EXCEPT ![r] = "error500"]
              /\ task' \in {[task EXCEPT ![e] = "FAILED"], task}
           \/ /\ pc' = [pc EXCEPT ![r] = "crashed"]
              /\ UNCHANGED task
  /\ UNCHANGED <<rowVars, aged, snapVars, proposal, historyVars>>

Resolve(r) ==
  LET e == TargetOf[r] IN
  /\ pc[r] = "resolve"
  /\ task' = [task EXCEPT ![e] = "COMPLETED"]
  /\ pc' = [pc EXCEPT ![r] = "executed200"]
  /\ UNCHANGED <<rowVars, aged, snapVars, override, proposal, historyVars>>

\* Any statement may throw; the catch answers 500 and undoes nothing.
Fail(r) ==
  /\ pc[r] \in Working
  /\ Goto(r, "error500")

\* The process dies; nothing resumes the request.
Crash(r) ==
  /\ pc[r] \in Working
  /\ Goto(r, "crashed")

\* Four hours pass since createdAt.
Age(e) ==
  /\ e \notin aged
  /\ aged' = aged \cup {e}
  /\ UNCHANGED <<rowVars, pc, snapVars, outcomeVars, historyVars>>

HandlerStep(r) ==
  \/ CheckPrior(r) \/ Sign(r) \/ Lock(r) \/ CreateOverride(r) \/ CreateToken(r)
  \/ ApproveProposal(r) \/ Audit(r) \/ Execute(r) \/ Resolve(r)

RequestStep(r) == NotFound(r) \/ Read(r) \/ HandlerStep(r) \/ Fail(r) \/ Crash(r)

Next ==
  \/ \E r \in Requests : RequestStep(r)
  \/ \E e \in Escalations : Age(e)

Spec == Init /\ [][Next]_vars

\* A request in progress is run to its answer unless it fails or its process dies.
FairSpec == Spec /\ \A r \in Requests : WF_vars(HandlerStep(r))

-----------------------------------------------------------------------------
(***************************************************************************)
(* Properties.                                                             *)
(***************************************************************************)

SignersOf(e) == {AdminOf[r] : r \in {q \in signed : TargetOf[q] = e}}

\* However requests interleave, the row's identities are exactly the administrators
\* whose approval was accepted and its count is their number: no accepted signature is
\* lost to a concurrent one and none counts twice.
SignaturesKept ==
  \A e \in Escalations :
    approvers[e] = SignersOf(e) /\ approvals[e] = Cardinality(approvers[e])

\* The endpoint implements K-of-N release: one override decision per escalation at
\* most, created after K distinct administrators were counted.
Quorums == [e \in Escalations |-> {Q \in SUBSET Admins : Cardinality(Q) >= Required[e]}]
Release == INSTANCE KofNRelease WITH
             signatures <- [e \in Escalations |-> SignersOf(e)]

KofN == Release!Spec

\* A decision older than four hours collects no signature from a request that came
\* after the deadline (docs/rules.md, Decision Expiry).
ExpiredIsClosed == signed \cap lateRequests = {}

\* A task the override resolved as COMPLETED had its override decision created,
\* tokened and executed, in that order, by one request: no other request's step, and
\* no answer given to another administrator, completes it.
CompletedByOverride ==
  \A e \in Escalations :
    task[e] = "COMPLETED" =>
      /\ override[e] \in {"COMPLETED", "UNSETTLED"}
      /\ proposal[e] = "APPROVED"
      /\ decisionType[e] = "OVERRIDE_IN_PROGRESS"

\* controllers.ts:213 "Override already in progress by another approver. Please wait.", which
\* a request hears that signed before the lock was taken (one that reads the row later is
\* refused at 145 or 190): a locked escalation is eventually executed or failed, or open
\* to approval again.
LockedIsResolved ==
  \A e \in Escalations :
    decisionType[e] = "OVERRIDE_IN_PROGRESS" ~>
      task[e] # "AWAITING_HUMAN" \/ decisionType[e] = "BLOCK_AND_ESCALATE"
=============================================================================
