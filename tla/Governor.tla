------------------------------ MODULE Governor ------------------------------
(***************************************************************************)
(* One evaluation of a proposal: GovernorService.evaluateProposal          *)
(* (core/governor/governor.service.ts) with PolicyEngine.evaluateOptions   *)
(* (core/governor/policies/engine.ts) and the boundary checks of module    *)
(* Vetting.                                                                *)
(*                                                                         *)
(* A policy is reduced to what the evaluation asks of it: its rule, its    *)
(* risk, whether it targets the proposed action, whether its condition is  *)
(* met (no condition counts as met) and the maxAmount it injects, 0 for    *)
(* none.  Each iteration of the engine's loop and of the governor's fold   *)
(* is a step, and so is each await.                                        *)
(***************************************************************************)
EXTENDS Vetting, Sequences

CONSTANTS
  Options,     \* what may be recommended
  Policies,    \* what a policy can be
  MaxPolicies  \* bound on the length of the list a tenant has loaded

RuleTypes == {"DENY", "CONSTRAINT", "ESCALATE", "DUAL_APPROVAL"}
Risks == 0..3  \* LOW, MEDIUM, HIGH, CRITICAL
HIGH == 2
CRITICAL == 3

Policy == [rule : RuleTypes, risk : Risks, covers : BOOLEAN, met : BOOLEAN, cap : Nat]

ASSUME GovernorAssumption ==
  /\ Options \subseteq Option
  /\ Policies \subseteq Policy
  /\ MaxPolicies \in Nat

Lists == UNION {[1..n -> Policies] : n \in 0..MaxPolicies}

VARIABLES
  proposal,      \* recommendedOption, as the critic let it through
  pc,            \* next step, or how the evaluation ended
  readable,      \* could a list of policies be loaded?
  loaded,        \* that list
  next,          \* the loops' index
  results,       \* policyResults
  decisionType, risk, approvers,  \* the fold's accumulators
  constraints,   \* the policies merged into combinedConstraints
  tripped,       \* a velocity limit was exceeded, or Redis was down
  row,           \* Decision.decisionType, none when there is no row
  token,         \* is there an ApprovalToken row?
  status,        \* Proposal.status
  audited        \* is there an AuditLog row of the evaluation?

foldVars == <<decisionType, risk, constraints, approvers>>
rowVars  == <<row, token, status, audited>>
vars == <<proposal, pc, readable, loaded, next, results, foldVars, tripped, rowVars>>

Approving == {"APPROVE", "APPROVE_WITH_CONSTRAINTS"}
DecisionTypes == Approving \cup {"REJECT_AND_REPLAN", "BLOCK_AND_ESCALATE"}
Actions == {"REJECT", "ESCALATE", "INJECT_CONSTRAINT", "REQUIRE_DUAL_APPROVAL"}

Working == {"admit", "load", "match", "fold", "review", "velocity",
            "decide", "mint", "propose", "audit"}
Ended == {"approved", "rejected", "escalated", "threw"}

\* The policy a result comes from is its place in the list, 0 for the engine's own.
Result == [action : Actions, risk : Risks, policy : Nat]

TypeOK ==
  /\ proposal \in Options
  /\ pc \in Working \cup Ended
  /\ readable \in BOOLEAN
  /\ loaded \in Seq(Policies)
  /\ next \in Nat \ {0}
  /\ results \in Seq(Result)
  /\ decisionType \in DecisionTypes
  /\ risk \in Risks
  /\ constraints \subseteq Nat
  /\ approvers \in {1, 2}
  /\ tripped \in BOOLEAN
  /\ row \in DecisionTypes \cup {"none"}
  /\ token \in BOOLEAN
  /\ status \in {"PENDING", "APPROVED", "REJECTED", "PENDING_REVIEW"}
  /\ audited \in BOOLEAN

Init ==
  /\ proposal \in {o \in Options : ~ Criticised(o)}
  /\ pc = "admit"
  /\ readable = TRUE
  /\ loaded = <<>>
  /\ next = 1
  /\ results = <<>>
  /\ decisionType = "APPROVE"
  /\ risk = 0
  /\ constraints = {}
  /\ approvers = 1
  /\ tripped = FALSE
  /\ row = "none"
  /\ token = FALSE
  /\ status = "PENDING"
  /\ audited = FALSE

-----------------------------------------------------------------------------
\* Capability, contract, parameters, row and amount limits, currency.
Admit ==
  /\ pc = "admit"
  /\ pc' = IF OutOfBounds(proposal) THEN "rejected" ELSE "load"
  /\ UNCHANGED <<proposal, readable, loaded, next, results, foldVars, tripped, rowVars>>

-----------------------------------------------------------------------------
(***************************************************************************)
(* evaluateOptions.                                                        *)
(***************************************************************************)

Covering(list) == {i \in 1..Len(list) : list[i].covers}

\* A result of the engine's own, which ends its work.
Own(action, level) == [action |-> action, risk |-> level, policy |-> 0]

\* A wrong form of EngineResults: a list that targets nothing lets everything pass.
EngineResultsOpen(list) == IF list = <<>> THEN <<Own("REJECT", CRITICAL)>> ELSE <<>>

\* What the engine answers before it looks at single policies.
EngineResults(list) ==
  IF list = <<>> THEN <<Own("REJECT", CRITICAL)>>            \* NO_POLICIES_LOADED
  ELSE IF Covering(list) = {} THEN <<Own("ESCALATE", HIGH)>>  \* DEFAULT_DENY
  ELSE <<>>

\* The tenant's active policy, or the file when it has none.
Load ==
  /\ pc = "load"
  /\ \E list \in Lists :
       /\ loaded' = list
       /\ results' = EngineResults(list)
       /\ pc' = IF EngineResults(list) = <<>> THEN "match" ELSE "fold"
  /\ UNCHANGED <<proposal, readable, next, foldVars, tripped, rowVars>>

\* POLICY_LOAD_FAILURE: no active policy, and the file cannot be read or parsed.
LoadFails ==
  /\ pc = "load"
  /\ readable' = FALSE
  /\ results' = <<Own("REJECT", CRITICAL)>>
  /\ pc' = "fold"
  /\ UNCHANGED <<proposal, loaded, next, foldVars, tripped, rowVars>>

ActionOf(rule) ==
  CASE rule = "DENY"          -> "REJECT"
    [] rule = "ESCALATE"      -> "ESCALATE"
    [] rule = "CONSTRAINT"    -> "INJECT_CONSTRAINT"
    [] rule = "DUAL_APPROVAL" -> "REQUIRE_DUAL_APPROVAL"

Fires(policy) == policy.covers /\ policy.met

\* One iteration over the policies; the filter on targetActionTypes is part of Fires.
Match ==
  /\ pc = "match"
  /\ IF next > Len(loaded)
       THEN /\ pc' = "fold"
            /\ next' = 1
            /\ UNCHANGED results
       ELSE /\ next' = next + 1
            /\ results' = IF Fires(loaded[next])
                          THEN Append(results, [action |-> ActionOf(loaded[next].rule),
                                                risk   |-> loaded[next].risk,
                                                policy |-> next])
                          ELSE results
            /\ UNCHANGED pc
  /\ UNCHANGED <<proposal, readable, loaded, foldVars, tripped, rowVars>>

-----------------------------------------------------------------------------
(***************************************************************************)
(* evaluateProposal, from the fold over the results.                       *)
(***************************************************************************)

Larger(a, b) == IF a > b THEN a ELSE b

\* decisionType after one more result.
Decide(type, action) ==
  CASE action = "REJECT" -> "REJECT_AND_REPLAN"
    [] action = "INJECT_CONSTRAINT" ->
         IF type = "APPROVE" THEN "APPROVE_WITH_CONSTRAINTS" ELSE type
    [] OTHER -> "BLOCK_AND_ESCALATE"

\* A wrong form of Fold: an escalation ends the loop as a rejection does.
FoldShort ==
  /\ pc = "fold"
  /\ IF next > Len(results)
       THEN pc' = "review" /\ UNCHANGED <<next, foldVars>>
       ELSE LET res == results[next] IN
            /\ risk' = Larger(risk, res.risk)
            /\ decisionType' = Decide(decisionType, res.action)
            /\ constraints' = IF res.action = "INJECT_CONSTRAINT"
                                THEN constraints \cup {res.policy} ELSE constraints
            /\ approvers' = IF res.action = "REQUIRE_DUAL_APPROVAL" THEN 2 ELSE approvers
            /\ next' = next + 1
            /\ pc' = IF res.action \in {"REJECT", "ESCALATE"} THEN "review" ELSE "fold"
  /\ UNCHANGED <<proposal, readable, loaded, results, tripped, rowVars>>

\* One iteration over the results; the first REJECT ends the loop.
Fold ==
  /\ pc = "fold"
  /\ IF next > Len(results)
       THEN pc' = "review" /\ UNCHANGED <<next, foldVars>>
       ELSE LET res == results[next] IN
            /\ risk' = Larger(risk, res.risk)
            /\ decisionType' = Decide(decisionType, res.action)
            /\ constraints' = IF res.action = "INJECT_CONSTRAINT"
                                THEN constraints \cup {res.policy} ELSE constraints
            /\ approvers' = IF res.action = "REQUIRE_DUAL_APPROVAL" THEN 2 ELSE approvers
            /\ next' = next + 1
            /\ pc' = IF res.action = "REJECT" THEN "review" ELSE "fold"
  /\ UNCHANGED <<proposal, readable, loaded, results, tripped, rowVars>>

\* The capability's requiresHumanReview upgrades an approval, and nothing else.
Review ==
  /\ pc = "review"
  /\ decisionType' = IF decisionType \in Approving /\ NeedsReview(proposal)
                     THEN "BLOCK_AND_ESCALATE" ELSE decisionType
  /\ pc' = "velocity"
  /\ UNCHANGED <<proposal, readable, loaded, next, results, risk, constraints, approvers,
                 tripped, rowVars>>

\* A transfer that is not rejected is counted for its tenant and its recipient: within
\* both limits, or over one, or Redis is down (fail closed).
Velocity ==
  /\ pc = "velocity"
  /\ \/ UNCHANGED <<decisionType, risk, tripped>>
     \/ /\ IsTransfer(proposal) /\ decisionType # "REJECT_AND_REPLAN"
        /\ decisionType' = "BLOCK_AND_ESCALATE"
        /\ risk' = CRITICAL
        /\ tripped' = TRUE
  /\ pc' = "decide"
  /\ UNCHANGED <<proposal, readable, loaded, next, results, constraints, approvers, rowVars>>

\* decision.create, after the token was signed in memory.
RecordDecision ==
  /\ pc = "decide"
  /\ row' = decisionType
  /\ pc' = IF decisionType \in Approving THEN "mint" ELSE "propose"
  /\ UNCHANGED <<proposal, readable, loaded, next, results, foldVars, tripped, token, status,
                 audited>>

MintToken ==
  /\ pc = "mint"
  /\ token' = TRUE
  /\ pc' = "propose"
  /\ UNCHANGED <<proposal, readable, loaded, next, results, foldVars, tripped, row, status,
                 audited>>

\* A wrong form of StatusFor: whatever is not rejected is approved.
StatusForAny(type) == IF type = "REJECT_AND_REPLAN" THEN "REJECTED" ELSE "APPROVED"

StatusFor(type) ==
  CASE type \in Approving           -> "APPROVED"
    [] type = "REJECT_AND_REPLAN"   -> "REJECTED"
    [] type = "BLOCK_AND_ESCALATE"  -> "PENDING_REVIEW"

UpdateProposal ==
  /\ pc = "propose"
  /\ status' = StatusFor(decisionType)
  /\ pc' = "audit"
  /\ UNCHANGED <<proposal, readable, loaded, next, results, foldVars, tripped, row, token,
                 audited>>

\* The audit row, then the decision is returned or its exception thrown.
AuditAndAnswer ==
  /\ pc = "audit"
  /\ audited' = TRUE
  /\ pc' = CASE decisionType \in Approving          -> "approved"
             [] decisionType = "REJECT_AND_REPLAN"  -> "rejected"
             [] decisionType = "BLOCK_AND_ESCALATE" -> "escalated"
  /\ UNCHANGED <<proposal, readable, loaded, next, results, foldVars, tripped, row, token,
                 status>>

\* A statement throws, signing throws, or the process dies; nothing is undone.
Fail ==
  /\ pc \in Working
  /\ pc' = "threw"
  /\ UNCHANGED <<proposal, readable, loaded, next, results, foldVars, tripped, rowVars>>

Next ==
  \/ Admit \/ Load \/ LoadFails \/ Match \/ Fold \/ Review \/ Velocity
  \/ RecordDecision \/ MintToken \/ UpdateProposal \/ AuditAndAnswer \/ Fail

Spec == Init /\ [][Next]_vars

-----------------------------------------------------------------------------
(***************************************************************************)
(* Properties.                                                             *)
(***************************************************************************)

Fired == {i \in 1..Len(loaded) : Fires(loaded[i])}
FiredAs(rules) == {i \in Fired : loaded[i].rule \in rules}

\* What the policies as a set demand, whatever their order in the list.
Verdict ==
  IF ~ readable \/ loaded = <<>> \/ FiredAs({"DENY"}) # {}
    THEN "REJECT_AND_REPLAN"
  ELSE IF \/ Covering(loaded) = {}
          \/ FiredAs({"ESCALATE", "DUAL_APPROVAL"}) # {}
          \/ NeedsReview(proposal)
          \/ tripped
    THEN "BLOCK_AND_ESCALATE"
  ELSE IF FiredAs({"CONSTRAINT"}) # {} THEN "APPROVE_WITH_CONSTRAINTS"
  ELSE "APPROVE"

\* The recorded decision is the verdict of the whole list: the two loops, with their
\* early exit, the review upgrade and the velocity guard lose nothing and depend on no
\* order, and with no policy to read everything is rejected.
RowIsVerdict == row # "none" => row = Verdict

\* Unless one rejects, each fired policy leaves its mark on the decision, whatever came
\* after it: the risk is no lower than its own, its constraint is among those merged,
\* and a dual-approval rule leaves an escalation that needs two approvers.
EveryPolicyCounts ==
  row \notin {"none", "REJECT_AND_REPLAN"} =>
    \A i \in Fired :
      /\ risk >= loaded[i].risk
      /\ loaded[i].rule = "CONSTRAINT" => i \in constraints
      /\ loaded[i].rule = "DUAL_APPROVAL" => approvers = 2 /\ row = "BLOCK_AND_ESCALATE"

\* combinedConstraints.maxAmount: of the merged policies that set it, the last one's.
Binding(i) == loaded[i].cap > 0 /\ \A j \in constraints : j > i => loaded[j].cap = 0

\* The transfer tool would act on this option under these constraints.
MoneyMoves ==
  /\ Transferable(proposal)
  /\ \A i \in constraints : Binding(i) => proposal.amount.n <= loaded[i].cap

\* docs/architecture.md:21 "Injects hard bounds into the execution context": whatever
\* decision is stored, and whoever lets it be executed, money moves only within the
\* registry's limits and each injected maxAmount that no later policy set anew.  The
\* evaluation compares numbers only and lets anything else pass; the tool tests the
\* type but knows no registry.
LimitsBind ==
  row \notin {"none", "REJECT_AND_REPLAN"} /\ MoneyMoves =>
    /\ proposal.amount.kind = "number"
    /\ proposal.amount.n \in 1..CapabilityOf(proposal.tool).maxAmount
    /\ proposal.currency # "foreign"
    /\ \A i \in FiredAs({"CONSTRAINT"}) :
         \/ loaded[i].cap = 0
         \/ proposal.amount.n <= loaded[i].cap
         \/ \E j \in FiredAs({"CONSTRAINT"}) : j > i /\ loaded[j].cap > 0

\* Wherever the evaluation stops, there is a token only behind an approving decision
\* row, the proposal has the status its decision gives it and is APPROVED only with the
\* token in place, and the audit row comes last.
StoresAgree ==
  /\ token => row \in Approving
  /\ status = "APPROVED" => token
  /\ status = "REJECTED" => row = "REJECT_AND_REPLAN"
  /\ status = "PENDING_REVIEW" => row = "BLOCK_AND_ESCALATE"
  /\ audited => status # "PENDING"
=============================================================================
