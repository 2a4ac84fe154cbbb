--------------------------- MODULE GovernorProofs ---------------------------
(***************************************************************************)
(* Proofs about Governor: for every set of policies and every length of    *)
(* the list, the recorded decision is the verdict of the list.             *)
(*                                                                         *)
(* The engine's loop is described by MatchedUpTo (the results so far are   *)
(* those of the policies seen so far), the governor's by FoldedUpTo (the   *)
(* accumulators are those of the results seen so far).  Lemmas Mirrored    *)
(* and Concluded carry both over to the list itself when the loops end.    *)
(***************************************************************************)
EXTENDS Governor, TLAPS

-----------------------------------------------------------------------------
(***************************************************************************)
(* The inductive invariant.                                                *)
(***************************************************************************)

\* result k is what the engine says of the policy it names
FromPolicy(k) ==
  LET i == results[k].policy IN
  /\ Fires(loaded[i])
  /\ results[k].action = ActionOf(loaded[i].rule)
  /\ results[k].risk = loaded[i].risk

MatchedUpTo(n) ==
  /\ \A k \in 1..Len(results) : results[k].policy \in 1..(n - 1) /\ FromPolicy(k)
  /\ \A i \in 1..(n - 1) :
       Fires(loaded[i]) => \E k \in 1..Len(results) : results[k].policy = i

\* what evaluateOptions returns
Returned ==
  IF ~ readable THEN results = <<Own("REJECT", CRITICAL)>>
  ELSE IF EngineResults(loaded) # <<>> THEN results = EngineResults(loaded)
  ELSE MatchedUpTo(Len(loaded) + 1)

\* some result among the first n - 1 asks for one of these actions
Asked(n, actions) == \E k \in 1..(n - 1) : results[k].action \in actions

FoldedUpTo(n) ==
  /\ decisionType =
       IF Asked(n, {"REJECT"}) THEN "REJECT_AND_REPLAN"
       ELSE IF Asked(n, {"ESCALATE", "REQUIRE_DUAL_APPROVAL"}) THEN "BLOCK_AND_ESCALATE"
       ELSE IF Asked(n, {"INJECT_CONSTRAINT"}) THEN "APPROVE_WITH_CONSTRAINTS"
       ELSE "APPROVE"
  /\ \A k \in 1..(n - 1) :
       /\ risk >= results[k].risk
       /\ results[k].action = "INJECT_CONSTRAINT" => results[k].policy \in constraints
       /\ results[k].action = "REQUIRE_DUAL_APPROVAL" => approvers = 2

\* Verdict before the review upgrade and the velocity guard
ListVerdict ==
  IF ~ readable \/ loaded = <<>> \/ FiredAs({"DENY"}) # {}
    THEN "REJECT_AND_REPLAN"
  ELSE IF Covering(loaded) = {} \/ FiredAs({"ESCALATE", "DUAL_APPROVAL"}) # {}
    THEN "BLOCK_AND_ESCALATE"
  ELSE IF FiredAs({"CONSTRAINT"}) # {} THEN "APPROVE_WITH_CONSTRAINTS"
  ELSE "APPROVE"

\* every fired policy has left its mark
Marked ==
  \A i \in Fired :
    /\ risk >= loaded[i].risk
    /\ loaded[i].rule = "CONSTRAINT" => i \in constraints
    /\ loaded[i].rule = "DUAL_APPROVAL" => approvers = 2

Unrecorded == row = "none" /\ ~ token /\ status = "PENDING" /\ ~ audited
Decided == decisionType = Verdict /\ (decisionType # "REJECT_AND_REPLAN" => Marked)

Loading == pc \in {"admit", "load"} => decisionType = "APPROVE" /\ next = 1 /\ readable
Matching ==
  pc = "match" =>
    /\ readable
    /\ next \in 1..(Len(loaded) + 1)
    /\ EngineResults(loaded) = <<>>
    /\ MatchedUpTo(next)
    /\ decisionType = "APPROVE"
Folding ==
  pc = "fold" =>
    /\ Returned
    /\ next \in 1..(Len(results) + 1)
    /\ ~ Asked(next, {"REJECT"})
    /\ FoldedUpTo(next)
Reviewing ==
  pc = "review" =>
    decisionType = ListVerdict /\ (decisionType # "REJECT_AND_REPLAN" => Marked)
Guarding == pc = "velocity" => Decided
Deciding == pc \in {"decide", "mint", "propose", "audit"} => Decided
Recorded == row # "none" => row = decisionType /\ Decided
NotTripped == pc \in {"admit", "load", "match", "fold", "review", "velocity"} => ~ tripped

Stored ==
  /\ pc \in {"admit", "load", "match", "fold", "review", "velocity", "decide"} => Unrecorded
  /\ pc = "mint" =>
       row = decisionType /\ row \in Approving /\ status = "PENDING" /\ ~ audited
  /\ pc = "propose" =>
       /\ row = decisionType
       /\ token <=> row \in Approving
       /\ status = "PENDING"
       /\ ~ audited
  /\ pc = "audit" => row = decisionType /\ status = StatusFor(row)

Inv ==
  /\ TypeOK
  /\ Loading /\ Matching /\ Folding /\ Reviewing /\ Guarding /\ Deciding
  /\ Recorded /\ NotTripped /\ Stored /\ StoresAgree

-----------------------------------------------------------------------------
(***************************************************************************)
(* What the engine returns mirrors the list.                               *)
(***************************************************************************)

\* Once the engine has returned, an action is among its results exactly when a fired
\* policy, or the engine itself, asks for it.
LEMMA Mirrored ==
  ASSUME TypeOK, Returned, NEW n \in Nat, n = Len(results) + 1
  PROVE  /\ Asked(n, {"REJECT"}) <=>
              ~ readable \/ loaded = <<>> \/ FiredAs({"DENY"}) # {}
         /\ ~ Asked(n, {"REJECT"}) =>
              (Asked(n, {"ESCALATE", "REQUIRE_DUAL_APPROVAL"}) <=>
                 Covering(loaded) = {} \/ FiredAs({"ESCALATE", "DUAL_APPROVAL"}) # {})
         /\ ~ Asked(n, {"REJECT"}) /\ Covering(loaded) # {} =>
              (Asked(n, {"INJECT_CONSTRAINT"}) <=> FiredAs({"CONSTRAINT"}) # {})
<1> DEFINE Own1 == Own("REJECT", CRITICAL)
           Own2 == Own("ESCALATE", HIGH)
<1>1. Own1.action = "REJECT" /\ Own2.action = "ESCALATE"
  BY DEF Own
<1>2. CASE ~ readable \/ loaded = <<>>
  <2>1. results = <<Own1>>
    BY <1>2 DEF Returned, EngineResults
  <2>2. Len(results) = 1 /\ results[1] = Own1
    BY <2>1
  <2>3. Asked(n, {"REJECT"})
    BY <2>2, <1>1 DEF Asked
  <2> QED
    BY <1>2, <2>3
<1>3. CASE readable /\ loaded # <<>> /\ Covering(loaded) = {}
  <2>1. results = <<Own2>>
    BY <1>3 DEF Returned, EngineResults
  <2>2. Len(results) = 1 /\ results[1] = Own2
    BY <2>1
  <2>3. ~ Asked(n, {"REJECT"}) /\ Asked(n, {"ESCALATE", "REQUIRE_DUAL_APPROVAL"})
    BY <2>2, <1>1 DEF Asked
  <2>4. FiredAs({"DENY"}) = {}
    BY <1>3 DEF FiredAs, Fired, Fires, Covering
  <2> QED
    BY <1>3, <2>3, <2>4
<1>4. CASE readable /\ loaded # <<>> /\ Covering(loaded) # {}
  <2>1. MatchedUpTo(Len(loaded) + 1)
    BY <1>4 DEF Returned, EngineResults
  <2>2. Len(loaded) \in Nat /\ Len(results) \in Nat
    BY DEF TypeOK
  <2>3. \A k \in 1..Len(results) :
          results[k].policy \in Fired
                /\ results[k].action = ActionOf(loaded[results[k].policy].rule)
    BY <2>1, <2>2 DEF MatchedUpTo, FromPolicy, Fired
  <2>4. \A i \in Fired : \E k \in 1..Len(results) : results[k].policy = i
    BY <2>1, <2>2 DEF MatchedUpTo, Fired
  <2>5. \A i \in Fired : loaded[i].rule \in RuleTypes
    BY GovernorAssumption DEF Fired, TypeOK, Policy
  <2>6. n - 1 = Len(results)
    BY <2>2
  <2>7. ASSUME NEW actions, NEW rules,
               \A rule \in RuleTypes : ActionOf(rule) \in actions <=> rule \in rules
        PROVE  Asked(n, actions) <=> FiredAs(rules) # {}
    <3>1. ASSUME Asked(n, actions) PROVE FiredAs(rules) # {}
      <4>1. PICK k \in 1..Len(results) : results[k].action \in actions
        BY <3>1, <2>6 DEF Asked
      <4>2. results[k].policy \in FiredAs(rules)
        BY <4>1, <2>3, <2>5, <2>7 DEF FiredAs
      <4> QED
        BY <4>2
    <3>2. ASSUME NEW i \in FiredAs(rules) PROVE Asked(n, actions)
      <4>1. i \in Fired /\ loaded[i].rule \in rules
        BY DEF FiredAs
      <4>2. PICK k \in 1..Len(results) : results[k].policy = i
        BY <4>1, <2>4
      <4>3. results[k].action \in actions
        BY <4>1, <4>2, <2>3, <2>5, <2>7
      <4> QED
        BY <4>3, <2>6 DEF Asked
    <3> QED
      BY <3>1, <3>2
  <2>8. Asked(n, {"REJECT"}) <=> FiredAs({"DENY"}) # {}
    <3>1. \A rule \in RuleTypes : ActionOf(rule) \in {"REJECT"} <=> rule \in {"DENY"}
      BY DEF ActionOf, RuleTypes
    <3> QED
      BY <2>7, <3>1
  <2>9. Asked(n, {"ESCALATE", "REQUIRE_DUAL_APPROVAL"})
          <=> FiredAs({"ESCALATE", "DUAL_APPROVAL"}) # {}
    <3>1. \A rule \in RuleTypes : ActionOf(rule) \in {"ESCALATE", "REQUIRE_DUAL_APPROVAL"}
                                    <=> rule \in {"ESCALATE", "DUAL_APPROVAL"}
      BY DEF ActionOf, RuleTypes
    <3> QED
      BY <2>7, <3>1
  <2>10. Asked(n, {"INJECT_CONSTRAINT"}) <=> FiredAs({"CONSTRAINT"}) # {}
    <3>1. \A rule \in RuleTypes :
            ActionOf(rule) \in {"INJECT_CONSTRAINT"} <=> rule \in {"CONSTRAINT"}
      BY DEF ActionOf, RuleTypes
    <3> QED
      BY <2>7, <3>1
  <2> QED
    BY <1>4, <2>8, <2>9, <2>10
<1> QED
  BY <1>2, <1>3, <1>4

\* When the fold ends, its accumulators are the verdict of the list.
LEMMA Concluded ==
  ASSUME TypeOK, Returned, NEW n \in Nat, n = Len(results) + 1, FoldedUpTo(n)
  PROVE  decisionType = ListVerdict /\ (decisionType # "REJECT_AND_REPLAN" => Marked)
<1>1. decisionType = ListVerdict
  BY Mirrored, Zenon DEF FoldedUpTo, ListVerdict
<1>2. ASSUME decisionType # "REJECT_AND_REPLAN", NEW i \in Fired
      PROVE  /\ risk >= loaded[i].risk
             /\ loaded[i].rule = "CONSTRAINT" => i \in constraints
             /\ loaded[i].rule = "DUAL_APPROVAL" => approvers = 2
  <2>1. i \in 1..Len(loaded) /\ Fires(loaded[i])
    BY DEF Fired
  <2>2. readable /\ loaded # <<>>
    BY <1>1, <1>2 DEF ListVerdict
  <2>3. Covering(loaded) # {}
    BY <2>1 DEF Covering, Fires
  <2>4. MatchedUpTo(Len(loaded) + 1)
    BY <2>2, <2>3 DEF Returned, EngineResults
  <2>5. Len(loaded) \in Nat /\ Len(results) \in Nat
    BY DEF TypeOK
  <2>6. PICK k \in 1..Len(results) : results[k].policy = i
    BY <2>1, <2>4, <2>5 DEF MatchedUpTo
  <2>7. results[k].action = ActionOf(loaded[i].rule) /\ results[k].risk = loaded[i].risk
    BY <2>4, <2>6 DEF MatchedUpTo, FromPolicy
  <2>8. k \in 1..(n - 1)
    BY <2>5
  <2>9. /\ loaded[i].rule = "CONSTRAINT" => results[k].action = "INJECT_CONSTRAINT"
        /\ loaded[i].rule = "DUAL_APPROVAL" => results[k].action = "REQUIRE_DUAL_APPROVAL"
    BY <2>7 DEF ActionOf
  <2> QED
    BY <2>6, <2>7, <2>8, <2>9 DEF FoldedUpTo
<1> QED
  BY <1>1, <1>2 DEF Marked

-----------------------------------------------------------------------------
(***************************************************************************)
(* Initial states.                                                         *)
(***************************************************************************)

LEMMA InitInv == Init => Inv
<1> SUFFICES ASSUME Init PROVE Inv
  OBVIOUS
<1>1. TypeOK
  <2>1. <<>> \in Seq(Policies) /\ <<>> \in Seq(Result)
    OBVIOUS
  <2>2. decisionType \in DecisionTypes /\ risk \in Risks /\ pc \in Working
    BY DEF Init, DecisionTypes, Approving, Risks, Working
  <2>3. /\ proposal \in Options
        /\ readable \in BOOLEAN /\ tripped \in BOOLEAN /\ token \in BOOLEAN
        /\ audited \in BOOLEAN
    BY Zenon DEF Init
  <2>4. /\ loaded \in Seq(Policies) /\ next \in Nat \ {0} /\ results \in Seq(Result)
        /\ constraints \subseteq Nat /\ approvers \in {1, 2}
        /\ row \in DecisionTypes \cup {"none"}
        /\ status \in {"PENDING", "APPROVED", "REJECTED", "PENDING_REVIEW"}
    BY <2>1 DEF Init
  <2> QED
    BY <2>2, <2>3, <2>4, Zenon DEF TypeOK
<1> QED
  BY <1>1 DEF Init, Inv, Loading, Matching, Folding, Reviewing, Guarding, Deciding,
     Recorded, NotTripped, Stored, Unrecorded, StoresAgree

-----------------------------------------------------------------------------
(***************************************************************************)
(* Type correctness is inductive.                                          *)
(***************************************************************************)

LEMMA ListsTyped == \A list \in Lists : list \in Seq(Policies)
BY GovernorAssumption DEF Lists

LEMMA EngineTyped == \A list \in Seq(Policies) : EngineResults(list) \in Seq(Result)
<1>1. Own("REJECT", CRITICAL) \in Result /\ Own("ESCALATE", HIGH) \in Result
  BY DEF Own, Result, Actions, Risks, HIGH, CRITICAL
<1>2. \A res \in Result : <<res>> \in Seq(Result)
  OBVIOUS
<1>3. <<>> \in Seq(Result)
  OBVIOUS
<1> QED
  BY <1>1, <1>2, <1>3 DEF EngineResults

LEMMA ActionTyped == \A rule \in RuleTypes : ActionOf(rule) \in Actions
BY DEF RuleTypes, ActionOf, Actions

LEMMA DecideTyped ==
  \A type \in DecisionTypes, action \in Actions : Decide(type, action) \in DecisionTypes
BY DEF DecisionTypes, Approving, Actions, Decide

LEMMA TypeStep == TypeOK /\ [Next]_vars => TypeOK'
<1> SUFFICES ASSUME TypeOK, [Next]_vars PROVE TypeOK'
  OBVIOUS
<1> USE GovernorAssumption
<1> USE DEF TypeOK, Working, Ended, foldVars, rowVars
<1>1. CASE Admit
  BY <1>1 DEF Admit
<1>2. CASE Load
  <2>1. PICK list \in Lists :
          /\ loaded' = list
          /\ results' = EngineResults(list)
          /\ pc' = IF EngineResults(list) = <<>> THEN "match" ELSE "fold"
    BY <1>2 DEF Load
  <2>2. loaded' \in Seq(Policies) /\ results' \in Seq(Result)
    BY <2>1, ListsTyped, EngineTyped
  <2> QED
    BY <1>2, <2>1, <2>2 DEF Load
<1>3. CASE LoadFails
  <2>1. results' \in Seq(Result)
    BY <1>3 DEF LoadFails, Own, Result, Actions, Risks, CRITICAL
  <2>2. pc' = "fold" /\ readable' = FALSE
    BY <1>3 DEF LoadFails
  <2>3. UNCHANGED <<proposal, loaded, next, decisionType, risk, constraints, approvers,
                    tripped, row, token, status, audited>>
    BY <1>3 DEF LoadFails
  <2> QED
    BY <2>1, <2>2, <2>3
<1>4. CASE Match
  <2>1. ASSUME next <= Len(loaded)
        PROVE  [action |-> ActionOf(loaded[next].rule), risk |-> loaded[next].risk,
                policy |-> next] \in Result
    <3>1. loaded[next] \in Policy
      BY <2>1
    <3> QED
      BY <3>1, ActionTyped DEF Policy, Result
  <2>2. results' \in Seq(Result)
    <3>1. CASE next > Len(loaded)
      BY <1>4, <3>1 DEF Match
    <3>2. CASE next <= Len(loaded)
      <4> DEFINE new == [action |-> ActionOf(loaded[next].rule), risk |-> loaded[next].risk,
                         policy |-> next]
      <4>1. results' = Append(results, new) \/ results' = results
        BY <1>4, <3>2 DEF Match
      <4>2. new \in Result
        BY ONLY <2>1, <3>2
      <4>3. results \in Seq(Result)
        OBVIOUS
      <4> HIDE DEF new
      <4> QED
        BY ONLY <4>1, <4>2, <4>3
    <3> QED
      BY <3>1, <3>2
  <2>3. next' \in Nat \ {0}
    BY <1>4 DEF Match
  <2> QED
    BY <1>4, <2>2, <2>3 DEF Match
<1>5. CASE Fold
  <2>1. CASE next > Len(results)
    <3>1. pc' = "review" /\ UNCHANGED <<next, foldVars>>
      BY <1>5, <2>1 DEF Fold
    <3>2. UNCHANGED <<proposal, readable, loaded, results, tripped, rowVars>>
      BY <1>5 DEF Fold
    <3> QED
      BY <3>1, <3>2
  <2>2. CASE next <= Len(results)
    <3>1. results[next] \in Result
      BY <2>2
    <3>2. results[next].action \in Actions /\ results[next].risk \in Risks
            /\ results[next].policy \in Nat
      BY <3>1 DEF Result
    <3>3. decisionType' \in DecisionTypes
      BY <1>5, <2>2, <3>2, DecideTyped DEF Fold
    <3>4. risk' \in Risks
      BY <1>5, <2>2, <3>2 DEF Fold, Larger
    <3>5. constraints' \subseteq Nat /\ approvers' \in {1, 2}
      BY <1>5, <2>2, <3>2 DEF Fold
    <3>6. next' \in Nat \ {0} /\ pc' \in Working
      BY <1>5, <2>2 DEF Fold
    <3> QED
      BY <1>5, <3>3, <3>4, <3>5, <3>6 DEF Fold
  <2> QED
    BY <2>1, <2>2
<1>6. CASE Review
  BY <1>6 DEF Review, DecisionTypes
<1>7. CASE Velocity
  <2>1. decisionType' \in DecisionTypes
    BY <1>7 DEF Velocity, DecisionTypes
  <2>2. risk' \in Risks
    BY <1>7 DEF Velocity, Risks, CRITICAL
  <2>3. tripped' \in BOOLEAN
    BY <1>7, Zenon DEF Velocity
  <2> QED
    BY <1>7, <2>1, <2>2, <2>3 DEF Velocity
<1>8. CASE RecordDecision
  BY <1>8 DEF RecordDecision
<1>9. CASE MintToken
  BY <1>9 DEF MintToken
<1>10. CASE UpdateProposal
  BY <1>10 DEF UpdateProposal, StatusFor, DecisionTypes
<1>11. CASE AuditAndAnswer
  BY <1>11 DEF AuditAndAnswer, DecisionTypes
<1>12. CASE Fail
  BY <1>12 DEF Fail
<1>13. CASE UNCHANGED vars
  BY <1>13 DEF vars
<1> QED
  BY <1>1, <1>2, <1>3, <1>4, <1>5, <1>6, <1>7, <1>8, <1>9, <1>10, <1>11, <1>12, <1>13
     DEF Next

-----------------------------------------------------------------------------
(***************************************************************************)
(* The rest of the invariant, one lemma for each step of the evaluation    *)
(* that reaches a new phase.                                               *)
(***************************************************************************)

\* entering the fold
FoldBegun == Returned /\ next = 1 /\ decisionType = "APPROVE"

LEMMA FoldStarts ==
  ASSUME TypeOK', FoldBegun'
  PROVE  /\ next' \in 1..(Len(results') + 1)
         /\ ~ Asked(next, {"REJECT"})'
         /\ FoldedUpTo(next)'
<1>1. Len(results') \in Nat
  BY DEF TypeOK
<1>2. 1..(next' - 1) = {}
  BY DEF FoldBegun
<1> QED
  BY <1>1, <1>2 DEF FoldBegun, FoldedUpTo, Asked

LEMMA MatchStep ==
  ASSUME TypeOK, TypeOK', Matching, Match
  PROVE  Matching' /\ (pc' = "fold" => FoldBegun')
<1>1. Len(loaded) \in Nat /\ Len(results) \in Nat /\ next \in Nat
  BY DEF TypeOK
<1>2. pc = "match" /\ readable /\ next \in 1..(Len(loaded) + 1)
        /\ EngineResults(loaded) = <<>> /\ MatchedUpTo(next) /\ decisionType = "APPROVE"
  BY DEF Match, Matching
<1>3. loaded' = loaded /\ readable' = readable /\ decisionType' = decisionType
  BY DEF Match, foldVars
<1>4. CASE next > Len(loaded)
  <2>1. next = Len(loaded) + 1 /\ results' = results /\ next' = 1 /\ pc' = "fold"
    BY <1>1, <1>2, <1>4 DEF Match
  <2>2. MatchedUpTo(Len(loaded) + 1)'
    BY <1>2, <1>3, <2>1 DEF MatchedUpTo, FromPolicy
  <2> QED
    BY <1>2, <1>3, <2>1, <2>2 DEF Matching, FoldBegun, Returned
<1>5. CASE next <= Len(loaded)
  <2>1. next' = next + 1 /\ pc' = "match" /\ next' - 1 = next
    BY <1>1, <1>2, <1>5 DEF Match
  <2>2. MatchedUpTo(next)'
    <3>1. CASE ~ Fires(loaded[next])
      <4>1. results' = results
        BY <1>1, <1>5, <3>1 DEF Match
      <4>2. \A k \in 1..Len(results) :
              results[k].policy \in 1..next /\ FromPolicy(k)
        BY <1>1, <1>2 DEF MatchedUpTo
      <4>3. ASSUME NEW i \in 1..next, Fires(loaded[i])
            PROVE  \E k \in 1..Len(results) : results[k].policy = i
        <5>1. i \in 1..(next - 1)
          BY <1>1, <3>1, <4>3
        <5> QED
          BY <1>2, <4>3, <5>1 DEF MatchedUpTo
      <4> QED
        BY <1>1, <1>3, <2>1, <4>1, <4>2, <4>3 DEF MatchedUpTo, FromPolicy
    <3>2. CASE Fires(loaded[next])
      <4> DEFINE res == [action |-> ActionOf(loaded[next].rule), risk |-> loaded[next].risk,
                         policy |-> next]
      <4>1. results' = Append(results, res)
        BY <1>1, <1>5, <3>2 DEF Match
      <4>2. /\ Len(results') = Len(results) + 1
            /\ results'[Len(results) + 1] = res
            /\ \A k \in 1..Len(results) : results'[k] = results[k]
        BY <4>1, <1>1 DEF TypeOK
      <4>3. ASSUME NEW k \in 1..Len(results')
            PROVE  results'[k].policy \in 1..next /\ FromPolicy(k)'
        <5>1. CASE k \in 1..Len(results)
          <6>1. results'[k] = results[k] /\ results[k].policy \in 1..(next - 1) /\ FromPolicy(k)
            BY <1>2, <4>2, <5>1 DEF MatchedUpTo
          <6> QED
            BY <1>1, <1>3, <6>1 DEF FromPolicy
        <5>2. CASE k = Len(results) + 1
          <6>1. results'[k] = res
            BY <4>2, <5>2
          <6>2. /\ res.policy = next /\ res.action = ActionOf(loaded[next].rule)
                /\ res.risk = loaded[next].risk
            OBVIOUS
          <6>3. next \in 1..next
            BY <1>2
          <6> HIDE DEF res
          <6> QED
            BY <1>3, <3>2, <6>1, <6>2, <6>3 DEF FromPolicy
        <5> QED
          BY <1>1, <4>2, <5>1, <5>2
      <4>4. ASSUME NEW i \in 1..next, Fires(loaded[i])
            PROVE  \E k \in 1..Len(results') : results'[k].policy = i
        <5>1. CASE i = next
          BY <1>1, <4>2, <5>1
        <5>2. CASE i \in 1..(next - 1)
          <6>1. PICK k \in 1..Len(results) : results[k].policy = i
            BY <1>2, <4>4, <5>2 DEF MatchedUpTo
          <6> QED
            BY <1>1, <4>2, <6>1
        <5> QED
          BY <1>1, <5>1, <5>2
      <4> HIDE DEF res
      <4> QED
        BY <1>3, <2>1, <4>3, <4>4 DEF MatchedUpTo
    <3> QED
      BY <3>1, <3>2
  <2> QED
    BY <1>1, <1>2, <1>3, <1>5, <2>1, <2>2 DEF Matching
<1> QED
  BY <1>1, <1>4, <1>5

LEMMA FoldStep ==
  ASSUME TypeOK, TypeOK', Folding, Fold
  PROVE  Folding' /\ Reviewing'
<1>1. Len(results) \in Nat /\ next \in Nat
  BY DEF TypeOK
<1>2. pc = "fold" /\ Returned /\ next \in 1..(Len(results) + 1)
        /\ ~ Asked(next, {"REJECT"}) /\ FoldedUpTo(next)
  BY DEF Fold, Folding
<1>3. UNCHANGED <<readable, loaded, results>>
  BY DEF Fold
<1>4. Returned'
  BY <1>2, <1>3 DEF Returned, MatchedUpTo, FromPolicy
<1>5. CASE next > Len(results)
  <2>1. next = Len(results) + 1
    BY <1>1, <1>2, <1>5
  <2>2. decisionType = ListVerdict /\ (decisionType # "REJECT_AND_REPLAN" => Marked)
    BY <1>1, <1>2, <2>1, Concluded
  <2>3. pc' = "review" /\ UNCHANGED foldVars
    BY <1>5 DEF Fold
  <2> QED
    BY <1>3, <2>2, <2>3
       DEF Folding, Reviewing, ListVerdict, Marked, FiredAs, Fired, foldVars
<1>6. CASE next <= Len(results)
  <2> DEFINE res == results[next]
  <2>1. /\ res.action \in Actions /\ res.risk \in Risks
    <3>1. results[next] \in Result
      BY <1>1, <1>2, <1>6 DEF TypeOK
    <3> QED
      BY <3>1 DEF Result
  <2>2. /\ risk' = Larger(risk, res.risk)
        /\ decisionType' = Decide(decisionType, res.action)
        /\ constraints' = IF res.action = "INJECT_CONSTRAINT"
                            THEN constraints \cup {res.policy} ELSE constraints
        /\ approvers' = IF res.action = "REQUIRE_DUAL_APPROVAL" THEN 2 ELSE approvers
        /\ next' = next + 1
        /\ pc' = IF res.action = "REJECT" THEN "review" ELSE "fold"
    BY <1>1, <1>6 DEF Fold
  <2>3. next' - 1 = next
    BY <1>1, <2>2
  <2>4. \A k \in 1..next : k \in 1..(next - 1) \/ k = next
    BY <1>1
  <2>5. \A actions : Asked(next, actions)' <=> Asked(next, actions) \/ res.action \in actions
    BY <1>1, <1>2, <1>3, <2>3, <2>4 DEF Asked
  <2>6. CASE res.action = "REJECT"
    <3>1. pc' = "review" /\ decisionType' = "REJECT_AND_REPLAN"
      BY <2>2, <2>6 DEF Decide
    <3>2. Asked(Len(results) + 1, {"REJECT"})
      BY <1>1, <1>2, <1>6, <2>6 DEF Asked
    <3>3. ~ readable \/ loaded = <<>> \/ FiredAs({"DENY"}) # {}
      BY <1>1, <1>2, <3>2, Mirrored
    <3>4. ListVerdict' = "REJECT_AND_REPLAN"
      BY <1>3, <3>3 DEF ListVerdict, FiredAs, Fired
    <3> QED
      BY <3>1, <3>4 DEF Folding, Reviewing
  <2>7. CASE res.action # "REJECT"
    <3>1. pc' = "fold"
      BY <2>2, <2>7
    <3>2. ~ Asked(next, {"REJECT"})'
      BY <1>2, <2>5, <2>7
    <3>3. decisionType' =
            IF Asked(next, {"REJECT"})' THEN "REJECT_AND_REPLAN"
            ELSE IF Asked(next, {"ESCALATE", "REQUIRE_DUAL_APPROVAL"})'
              THEN "BLOCK_AND_ESCALATE"
            ELSE IF Asked(next, {"INJECT_CONSTRAINT"})' THEN "APPROVE_WITH_CONSTRAINTS"
            ELSE "APPROVE"
      BY <1>2, <2>1, <2>2, <2>5, <2>7, <3>2 DEF FoldedUpTo, Decide, Actions
    <3>4. ASSUME NEW k \in 1..next
          PROVE  /\ risk' >= results[k].risk
                 /\ results[k].action = "INJECT_CONSTRAINT" => results[k].policy \in constraints'
                 /\ results[k].action = "REQUIRE_DUAL_APPROVAL" => approvers' = 2
      <4>1. results[k] \in Result
        BY <1>1, <1>2, <1>6 DEF TypeOK
      <4>2. results[k].risk \in Risks
        BY ONLY <4>1 DEF Result
      <4>2a. risk \in Risks
        BY DEF TypeOK
      <4>2b. \A level \in Risks : level \in Int
        BY ONLY TRUE DEF Risks
      <4>2c. results[k].risk \in Int /\ risk \in Int /\ res.risk \in Int
        BY ONLY <2>1, <4>2, <4>2a, <4>2b
      <4>3. CASE k = next
        BY <2>2, <4>2c, <4>3 DEF Larger
      <4>4. CASE k \in 1..(next - 1)
        <5>1. /\ risk >= results[k].risk
              /\ results[k].action = "INJECT_CONSTRAINT" => results[k].policy \in constraints
              /\ results[k].action = "REQUIRE_DUAL_APPROVAL" => approvers = 2
          BY <1>2, <4>4 DEF FoldedUpTo
        <5> QED
          BY <2>2, <4>2c, <5>1 DEF Larger
      <4> QED
        BY <2>4, <4>3, <4>4
    <3>5. FoldedUpTo(next)'
      BY <1>3, <2>3, <3>3, <3>4 DEF FoldedUpTo
    <3>6. next' \in 1..(Len(results') + 1)
      BY <1>1, <1>2, <1>3, <1>6, <2>2
    <3> QED
      BY <1>4, <2>2, <3>1, <3>2, <3>5, <3>6 DEF Folding, Reviewing
  <2> QED
    BY <2>6, <2>7
<1> QED
  BY <1>1, <1>5, <1>6

\* The review upgrade and the velocity guard turn the verdict of the list into Verdict.
LEMMA ReviewStep ==
  ASSUME TypeOK, Reviewing, NotTripped, Review
  PROVE  Guarding'
<1>1. decisionType = ListVerdict /\ (decisionType # "REJECT_AND_REPLAN" => Marked) /\ ~ tripped
  BY DEF Review, Reviewing, NotTripped
<1>2. UNCHANGED <<proposal, readable, loaded, risk, constraints, approvers, tripped>>
  BY DEF Review
<1>3. decisionType' = IF decisionType \in Approving /\ NeedsReview(proposal)
                      THEN "BLOCK_AND_ESCALATE" ELSE decisionType
  BY DEF Review
<1>4. decisionType' = Verdict
  BY <1>1, <1>3 DEF ListVerdict, Verdict, Approving
<1>5. Verdict' = Verdict /\ Marked' = Marked
  BY <1>2 DEF Verdict, Marked, FiredAs, Fired
<1>6. decisionType' # "REJECT_AND_REPLAN" => decisionType # "REJECT_AND_REPLAN"
  BY <1>3 DEF Approving
<1> QED
  BY <1>1, <1>4, <1>5, <1>6 DEF Guarding, Decided

LEMMA VelocityStep ==
  ASSUME TypeOK, Guarding, NotTripped, Velocity
  PROVE  Deciding'
<1>1. decisionType = Verdict /\ (decisionType # "REJECT_AND_REPLAN" => Marked) /\ ~ tripped
  BY DEF Velocity, Guarding, Decided, NotTripped
<1>2. UNCHANGED <<proposal, readable, loaded, constraints, approvers>>
  BY DEF Velocity
<1>3. CASE UNCHANGED <<decisionType, risk, tripped>>
  BY <1>1, <1>2, <1>3 DEF Deciding, Decided, Verdict, Marked, FiredAs, Fired
<1>4. CASE /\ decisionType # "REJECT_AND_REPLAN"
           /\ decisionType' = "BLOCK_AND_ESCALATE"
           /\ risk' = CRITICAL
           /\ tripped' = TRUE
  <2>1. Verdict' = "BLOCK_AND_ESCALATE"
    BY <1>1, <1>2, <1>4 DEF Verdict, FiredAs, Fired
  <2>2. ASSUME NEW i \in Fired PROVE loaded[i].risk <= CRITICAL
    <3>1. loaded[i] \in Policies
      BY DEF TypeOK, Fired
    <3>2. loaded[i].risk \in Risks
      BY <3>1, GovernorAssumption DEF Policy
    <3> QED
      BY <3>2 DEF Risks, CRITICAL
  <2>3. Marked'
    BY <1>1, <1>2, <1>4, <2>2 DEF Marked, Fired, CRITICAL
  <2> QED
    BY <1>4, <2>1, <2>3 DEF Deciding, Decided
<1> QED
  BY <1>3, <1>4 DEF Velocity

LEMMA InvStep == Inv /\ [Next]_vars => Inv'
<1> SUFFICES ASSUME Inv, [Next]_vars PROVE Inv'
  OBVIOUS
<1>0. TypeOK'
  BY TypeStep DEF Inv
<1> DEFINE Context == <<proposal, readable, loaded, foldVars, tripped>>
<1>a. ASSUME UNCHANGED Context PROVE Decided' <=> Decided
  BY <1>a DEF foldVars, Decided, Verdict, Marked, FiredAs, Fired
<1> USE DEF Inv
<1>1. CASE Admit
  BY <1>0, <1>1 DEF Admit, Loading, Matching, Folding, Reviewing, Guarding, Deciding,
     Recorded, NotTripped, Stored, Unrecorded, StoresAgree, foldVars, rowVars
<1>2. CASE Load
  <2>1. pc = "load" /\ decisionType = "APPROVE" /\ next = 1 /\ readable /\ Unrecorded /\ ~ tripped
    BY <1>2 DEF Load, Loading, Stored, NotTripped
  <2>2. /\ UNCHANGED <<readable, next, decisionType, tripped, row, token, status, audited>>
        /\ results' = EngineResults(loaded')
        /\ pc' = IF results' = <<>> THEN "match" ELSE "fold"
    BY <1>2 DEF Load, foldVars, rowVars
  <2>3. Matching'
    <3>1. SUFFICES ASSUME pc' = "match" PROVE Matching'
      BY DEF Matching
    <3>2. results' = <<>> /\ Len(results') = 0
      BY <2>2, <3>1
    <3>3. Len(loaded') \in Nat
      BY <1>0 DEF TypeOK
    <3>4. 1..(next' - 1) = {} /\ 1..Len(results') = {}
      BY <2>1, <2>2, <3>2
    <3>5. MatchedUpTo(next)'
      BY <3>4 DEF MatchedUpTo
    <3> QED
      BY <2>1, <2>2, <3>2, <3>3, <3>5 DEF Matching
  <2>4. Folding'
    <3>1. SUFFICES ASSUME pc' = "fold" PROVE Folding'
      BY DEF Folding
    <3>2. FoldBegun'
      BY <2>1, <2>2, <3>1 DEF FoldBegun, Returned
    <3> QED
      BY <1>0, <3>2, FoldStarts DEF Folding, FoldBegun
  <2> QED
    BY <1>0, <2>1, <2>2, <2>3, <2>4 DEF Loading, Reviewing, Guarding, Deciding, Recorded,
       NotTripped, Stored, Unrecorded, StoresAgree
<1>3. CASE LoadFails
  <2>1. pc = "load" /\ decisionType = "APPROVE" /\ next = 1 /\ Unrecorded /\ ~ tripped
    BY <1>3 DEF LoadFails, Loading, Stored, NotTripped
  <2>2. /\ UNCHANGED <<next, decisionType, tripped, row, token, status, audited>>
        /\ ~ readable'
        /\ results' = <<Own("REJECT", CRITICAL)>>
        /\ pc' = "fold"
    BY <1>3 DEF LoadFails, foldVars, rowVars
  <2>3. FoldBegun'
    BY <2>1, <2>2 DEF FoldBegun, Returned
  <2>4. Folding'
    BY <1>0, <2>2, <2>3, FoldStarts DEF Folding, FoldBegun
  <2> QED
    BY <1>0, <2>1, <2>2, <2>4 DEF Loading, Matching, Reviewing, Guarding, Deciding, Recorded,
       NotTripped, Stored, Unrecorded, StoresAgree
<1>4. CASE Match
  <2>1. Matching' /\ (pc' = "fold" => FoldBegun')
    BY <1>0, <1>4, MatchStep
  <2>2. Folding'
    BY <1>0, <2>1, FoldStarts DEF Folding, FoldBegun
  <2>3. pc = "match" /\ pc' \in {"match", "fold"} /\ Unrecorded /\ ~ tripped
    BY <1>4 DEF Match, Stored, NotTripped
  <2>4. UNCHANGED <<tripped, row, token, status, audited>>
    BY <1>4 DEF Match, rowVars
  <2> QED
    BY <1>0, <2>1, <2>2, <2>3, <2>4 DEF Loading, Reviewing, Guarding, Deciding, Recorded,
       NotTripped, Stored, Unrecorded, StoresAgree
<1>5. CASE Fold
  <2>1. Folding' /\ Reviewing'
    BY <1>0, <1>5, FoldStep
  <2>2. pc = "fold" /\ pc' \in {"fold", "review"} /\ Unrecorded /\ ~ tripped
    BY <1>5 DEF Fold, Stored, NotTripped
  <2>3. UNCHANGED <<tripped, row, token, status, audited>>
    BY <1>5 DEF Fold, rowVars
  <2> QED
    BY <1>0, <2>1, <2>2, <2>3 DEF Loading, Matching, Guarding, Deciding, Recorded,
       NotTripped, Stored, Unrecorded, StoresAgree
<1>6. CASE Review
  <2>1. Guarding'
    BY <1>6, ReviewStep
  <2>2. pc = "review" /\ pc' = "velocity" /\ Unrecorded /\ ~ tripped
    BY <1>6 DEF Review, Stored, NotTripped
  <2>3. UNCHANGED <<tripped, row, token, status, audited>>
    BY <1>6 DEF Review, rowVars
  <2> QED
    BY <1>0, <2>1, <2>2, <2>3 DEF Loading, Matching, Folding, Reviewing, Deciding, Recorded,
       NotTripped, Stored, Unrecorded, StoresAgree
<1>7. CASE Velocity
  <2>1. Deciding'
    BY <1>7, VelocityStep
  <2>2. pc = "velocity" /\ pc' = "decide" /\ Unrecorded
    BY <1>7 DEF Velocity, Stored
  <2>3. UNCHANGED <<row, token, status, audited>>
    BY <1>7 DEF Velocity, rowVars
  <2> QED
    BY <1>0, <2>1, <2>2, <2>3 DEF Loading, Matching, Folding, Reviewing, Guarding, Recorded,
       NotTripped, Stored, Unrecorded, StoresAgree
<1>8. CASE RecordDecision
  <2>1. pc = "decide" /\ Decided /\ Unrecorded
    BY <1>8 DEF RecordDecision, Deciding, Stored
  <2>2. Decided'
    BY <1>a, <1>8, <2>1 DEF RecordDecision
  <2> QED
    BY <1>0, <1>8, <2>1, <2>2 DEF RecordDecision, Loading, Matching, Folding, Reviewing,
       Guarding, Deciding, Recorded, NotTripped, Stored, Unrecorded, StoresAgree, foldVars
<1>9. CASE MintToken
  <2>1. pc = "mint" /\ Decided
    BY <1>9 DEF MintToken, Deciding
  <2>2. Decided'
    BY <1>a, <1>9, <2>1 DEF MintToken
  <2> QED
    BY <1>0, <1>9, <2>1, <2>2 DEF MintToken, Loading, Matching, Folding, Reviewing,
       Guarding, Deciding, Recorded, NotTripped, Stored, StoresAgree, foldVars
<1>10. CASE UpdateProposal
  <2>1. /\ pc = "propose" /\ Decided /\ row = decisionType /\ ~ audited
        /\ token <=> row \in Approving
    BY <1>10 DEF UpdateProposal, Deciding, Stored
  <2>2. Decided'
    BY <1>a, <1>10, <2>1 DEF UpdateProposal
  <2>3. /\ pc' = "audit" /\ status' = StatusFor(decisionType)
        /\ UNCHANGED <<decisionType, row, token, audited>>
    BY <1>10 DEF UpdateProposal, foldVars
  <2>4. /\ status' = "APPROVED" => decisionType \in Approving
        /\ status' = "REJECTED" => decisionType = "REJECT_AND_REPLAN"
        /\ status' = "PENDING_REVIEW" => decisionType = "BLOCK_AND_ESCALATE"
    BY <2>3 DEF StatusFor, Approving, DecisionTypes, TypeOK
  <2>5. StoresAgree'
    BY <2>1, <2>3, <2>4 DEF StoresAgree
  <2> QED
    BY <1>0, <2>1, <2>2, <2>3, <2>5 DEF Loading, Matching, Folding, Reviewing, Guarding,
       Deciding, Recorded, NotTripped, Stored
<1>11. CASE AuditAndAnswer
  <2>1. pc = "audit" /\ Decided /\ row = decisionType /\ status = StatusFor(row)
    BY <1>11 DEF AuditAndAnswer, Deciding, Stored
  <2>2. Decided'
    BY <1>a, <1>11, <2>1 DEF AuditAndAnswer
  <2>3. /\ pc' \in {"approved", "rejected", "escalated"}
        /\ UNCHANGED <<decisionType, row, token, status>>
    BY <1>11 DEF AuditAndAnswer, foldVars, TypeOK, DecisionTypes
  <2>4. status # "PENDING"
    BY <2>1 DEF StatusFor, TypeOK, DecisionTypes
  <2>5. StoresAgree'
    BY <2>3, <2>4 DEF StoresAgree
  <2> QED
    BY <1>0, <2>1, <2>2, <2>3, <2>5 DEF Loading, Matching, Folding, Reviewing, Guarding,
       Deciding, Recorded, NotTripped, Stored
<1>12. CASE Fail
  <2>1. pc' = "threw" /\ UNCHANGED <<decisionType, row, token, status, audited>>
    BY <1>12 DEF Fail, foldVars, rowVars
  <2>2. Decided' <=> Decided
    BY <1>a, <1>12 DEF Fail
  <2> QED
    BY <1>0, <2>1, <2>2 DEF Loading, Matching, Folding, Reviewing, Guarding, Deciding,
       Recorded, NotTripped, Stored, StoresAgree
<1>13. CASE UNCHANGED vars
  <2>1. /\ UNCHANGED Context
        /\ UNCHANGED <<pc, next, results, row, token, status, audited, decisionType>>
        /\ UNCHANGED <<readable, loaded, tripped, risk, constraints, approvers>>
    BY <1>13 DEF vars, foldVars, rowVars
  <2>2. Decided' <=> Decided
    BY <1>a, <2>1
  <2>3. Matching' /\ Folding' /\ Reviewing'
    BY <2>1 DEF Matching, Folding, Reviewing, Returned, MatchedUpTo, FromPolicy, FoldedUpTo,
       Asked, ListVerdict, Marked, FiredAs, Fired
  <2> QED
    BY <1>0, <2>1, <2>2, <2>3 DEF Loading, Guarding, Deciding, Recorded, NotTripped,
       Stored, Unrecorded, StoresAgree
<1> QED
  BY <1>1, <1>2, <1>3, <1>4, <1>5, <1>6, <1>7, <1>8, <1>9, <1>10, <1>11, <1>12, <1>13
     DEF Next

-----------------------------------------------------------------------------
(***************************************************************************)
(* Limits: what reached the policies was within the registry's bounds, and *)
(* only constraints that fired were merged.                                *)
(***************************************************************************)

Bounded ==
  /\ pc \in Working \ {"admit"} => ~ OutOfBounds(proposal)
  /\ row # "none" => ~ OutOfBounds(proposal)

Merged ==
  /\ pc \in {"admit", "load"} => constraints = {}
  /\ constraints \subseteq FiredAs({"CONSTRAINT"})

LEMMA BoundedStep == Inv /\ Bounded /\ [Next]_vars => Bounded'
<1> SUFFICES ASSUME Inv, Bounded, [Next]_vars PROVE Bounded'
  OBVIOUS
<1>1. CASE Admit
  <2>1. UNCHANGED <<proposal, row>>
    BY <1>1 DEF Admit, rowVars
  <2>2. pc' = IF OutOfBounds(proposal) THEN "rejected" ELSE "load"
    BY <1>1 DEF Admit
  <2>3. OutOfBounds(proposal)' <=> OutOfBounds(proposal)
    BY <2>1
  <2> QED
    BY <2>1, <2>2, <2>3 DEF Bounded, Working
<1>2. CASE Fail \/ UNCHANGED vars
  <2>1. UNCHANGED <<proposal, row>> /\ pc' \in {pc, "threw"}
    BY <1>2 DEF Fail, vars, rowVars
  <2>2. OutOfBounds(proposal)' <=> OutOfBounds(proposal)
    BY <2>1
  <2> QED
    BY <2>1, <2>2 DEF Bounded, Working
<1>3. CASE \/ Load \/ LoadFails \/ Match \/ Fold \/ Review \/ Velocity
           \/ RecordDecision \/ MintToken \/ UpdateProposal \/ AuditAndAnswer
  <2>1. UNCHANGED proposal /\ pc \in Working \ {"admit"}
    BY <1>3 DEF Load, LoadFails, Match, Fold, Review, Velocity, RecordDecision, MintToken,
       UpdateProposal, AuditAndAnswer, Working
  <2>2. OutOfBounds(proposal)' <=> OutOfBounds(proposal)
    BY <2>1
  <2> QED
    BY <2>1, <2>2 DEF Bounded
<1> QED
  BY <1>1, <1>2, <1>3 DEF Next

\* A result that injects comes from a policy of that rule, which fired.
LEMMA Injecting ==
  ASSUME TypeOK, Returned, NEW k \in 1..Len(results), results[k].action = "INJECT_CONSTRAINT"
  PROVE  results[k].policy \in FiredAs({"CONSTRAINT"})
<1>1. Len(loaded) \in Nat /\ Len(results) \in Nat
  BY DEF TypeOK
<1>2. MatchedUpTo(Len(loaded) + 1)
  <2>1. \A action, level : results = <<Own(action, level)>> => action = "INJECT_CONSTRAINT"
    BY DEF Own
  <2>2. results # <<Own("REJECT", CRITICAL)>> /\ results # <<Own("ESCALATE", HIGH)>>
    BY <2>1
  <2> QED
    BY <2>2 DEF Returned, EngineResults
<1>3. results[k].policy \in 1..Len(loaded) /\ FromPolicy(k)
  BY <1>1, <1>2 DEF MatchedUpTo
<1>4. loaded[results[k].policy].rule \in RuleTypes
  BY <1>3, GovernorAssumption DEF TypeOK, Policy
<1>5. loaded[results[k].policy].rule = "CONSTRAINT"
  BY <1>3, <1>4 DEF FromPolicy, ActionOf, RuleTypes
<1> QED
  BY <1>3, <1>5 DEF FromPolicy, FiredAs, Fired

LEMMA MergedStep == Inv /\ Merged /\ [Next]_vars => Merged'
<1> SUFFICES ASSUME Inv, Merged, [Next]_vars PROVE Merged'
  OBVIOUS
<1>1. CASE Admit
  <2>1. UNCHANGED <<loaded, constraints>> /\ pc = "admit"
    BY <1>1 DEF Admit, foldVars
  <2> QED
    BY <2>1 DEF Merged, FiredAs, Fired
<1>2. CASE Load \/ LoadFails
  <2>1. UNCHANGED constraints /\ pc = "load"
    BY <1>2 DEF Load, LoadFails, foldVars
  <2> QED
    BY <2>1 DEF Merged
<1>3. CASE Fold
  <2>1. UNCHANGED loaded /\ pc' \notin {"admit", "load"}
    BY <1>3 DEF Fold
  <2>2. FiredAs({"CONSTRAINT"})' = FiredAs({"CONSTRAINT"})
    BY <2>1 DEF FiredAs, Fired
  <2>3. CASE next > Len(results)
    <3>1. UNCHANGED constraints
      BY <1>3, <2>3 DEF Fold, foldVars
    <3> QED
      BY <2>1, <2>2, <3>1 DEF Merged
  <2>4. CASE ~ (next > Len(results))
    <3>1. next \in 1..Len(results)
      BY <2>4 DEF Inv, TypeOK
    <3>2. constraints' = IF results[next].action = "INJECT_CONSTRAINT"
                         THEN constraints \cup {results[next].policy} ELSE constraints
      BY <1>3, <2>4 DEF Fold
    <3>3. TypeOK /\ Returned
      BY <1>3 DEF Inv, Folding, Fold
    <3>4. results[next].action = "INJECT_CONSTRAINT" =>
            results[next].policy \in FiredAs({"CONSTRAINT"})
      BY <3>1, <3>3, Injecting
    <3> QED
      BY <2>1, <2>2, <3>2, <3>4 DEF Merged
  <2> QED
    BY <2>3, <2>4
<1>4. CASE \/ Match \/ Review \/ Velocity \/ RecordDecision \/ MintToken \/ UpdateProposal
           \/ AuditAndAnswer \/ Fail \/ UNCHANGED vars
  <2>1. UNCHANGED <<loaded, constraints>>
    BY <1>4 DEF Match, Review, Velocity, RecordDecision, MintToken, UpdateProposal,
       AuditAndAnswer, Fail, vars, foldVars
  <2>2. decisionType \in DecisionTypes
    BY DEF Inv, TypeOK
  <2>3. CASE AuditAndAnswer
    <3>1. pc' \in {"approved", "rejected", "escalated"}
      BY <2>2, <2>3 DEF AuditAndAnswer, DecisionTypes, Approving
    <3>2. FiredAs({"CONSTRAINT"})' = FiredAs({"CONSTRAINT"})
      BY <2>1 DEF FiredAs, Fired
    <3> QED
      BY <2>1, <3>1, <3>2 DEF Merged
  <2>4. CASE ~ AuditAndAnswer
    <3>1. pc' \in {"admit", "load"} => pc' = pc
      BY <1>4, <2>4 DEF Match, Review, Velocity, RecordDecision, MintToken, UpdateProposal,
         Fail, vars
    <3>2. FiredAs({"CONSTRAINT"})' = FiredAs({"CONSTRAINT"})
      BY <2>1 DEF FiredAs, Fired
    <3> QED
      BY <2>1, <3>1, <3>2 DEF Merged
  <2> QED
    BY <2>3, <2>4
<1> QED
  BY <1>1, <1>2, <1>3, <1>4 DEF Next

-----------------------------------------------------------------------------
(***************************************************************************)
(* The theorems.                                                           *)
(***************************************************************************)

THEOREM Invariance == Spec => []Inv
<1> QED
  BY InitInv, InvStep, PTL DEF Spec

\* Every variable keeps its type in every evaluation, whatever the policies.
THEOREM TypeCorrect == Spec => []TypeOK
<1>1. Inv => TypeOK
  BY DEF Inv
<1> QED
  BY <1>1, Invariance, PTL

\* evaluateProposal records the verdict of the tenant's list, in whatever order the
\* policies stand in it.
THEOREM DecisionIsVerdict == Spec => []RowIsVerdict
<1>1. Inv => RowIsVerdict
  BY DEF Inv, Recorded, Decided, RowIsVerdict
<1> QED
  BY <1>1, Invariance, PTL

\* No fired policy is lost from a decision that is not a rejection.
THEOREM PoliciesCount == Spec => []EveryPolicyCounts
<1>1. Inv => EveryPolicyCounts
  <2> SUFFICES ASSUME Inv, row \notin {"none", "REJECT_AND_REPLAN"}, NEW i \in Fired
               PROVE  /\ risk >= loaded[i].risk
                      /\ loaded[i].rule = "CONSTRAINT" => i \in constraints
                      /\ loaded[i].rule = "DUAL_APPROVAL" =>
                           approvers = 2 /\ row = "BLOCK_AND_ESCALATE"
    BY DEF EveryPolicyCounts
  <2>1. row = Verdict /\ Marked
    BY DEF Inv, Recorded, Decided
  <2>2. ASSUME loaded[i].rule = "DUAL_APPROVAL" PROVE row = "BLOCK_AND_ESCALATE"
    <3>1. i \in FiredAs({"ESCALATE", "DUAL_APPROVAL"})
      BY <2>2 DEF FiredAs
    <3> QED
      BY <2>1, <3>1 DEF Verdict
  <2> QED
    BY <2>1, <2>2 DEF Marked
<1> QED
  BY <1>1, Invariance, PTL

\* What a transfer may move is bounded by the registry and by every injected limit that
\* was not set anew, for every option, every list of policies and every way an
\* evaluation ends.
THEOREM TransfersAreBounded == Spec => []LimitsBind
<1>1. Init => Bounded /\ Merged
  BY DEF Init, Bounded, Merged, Working
<1>2. Inv /\ Bounded /\ Merged => LimitsBind
  <2> SUFFICES ASSUME Inv, Bounded, Merged, row \notin {"none", "REJECT_AND_REPLAN"}, MoneyMoves
               PROVE  /\ proposal.amount.kind = "number"
                      /\ proposal.amount.n \in 1..CapabilityOf(proposal.tool).maxAmount
                      /\ proposal.currency # "foreign"
                      /\ \A i \in FiredAs({"CONSTRAINT"}) :
                           \/ loaded[i].cap = 0
                           \/ proposal.amount.n <= loaded[i].cap
                           \/ \E j \in FiredAs({"CONSTRAINT"}) : j > i /\ loaded[j].cap > 0
    BY DEF LimitsBind
  <2>1. /\ proposal.tool = "TRANSFER_FUNDS"
        /\ proposal.amount.kind = "number"
        /\ proposal.amount.n > 0
    BY DEF MoneyMoves, Transferable, IsTransfer
  <2>2. CapabilityOf(proposal.tool) = Moving
    BY <2>1 DEF CapabilityOf
  <2>3. ~ Misvalued(proposal) /\ proposal.currency # "foreign"
    BY <2>2 DEF Bounded, OutOfBounds, Moving, Capability
  <2>4. proposal.amount.n \in Int
    BY GovernorAssumption DEF Inv, TypeOK, Option, Value
  <2>5. proposal.amount.n \in 1..CapabilityOf(proposal.tool).maxAmount
    BY <2>1, <2>2, <2>3, <2>4 DEF Misvalued, Beyond, Moving, Capability
  <2>6. ASSUME NEW i \in FiredAs({"CONSTRAINT"}), loaded[i].cap # 0,
               ~ (proposal.amount.n <= loaded[i].cap)
        PROVE  \E j \in FiredAs({"CONSTRAINT"}) : j > i /\ loaded[j].cap > 0
    <3>1. \A j \in FiredAs({"CONSTRAINT"}) : loaded[j].cap \in Nat
      BY GovernorAssumption DEF Inv, TypeOK, FiredAs, Fired, Policy
    <3>2. i \in constraints
      BY DEF Inv, Recorded, Decided, Marked, FiredAs
    <3>3. ~ Binding(i)
      BY <2>6, <3>2 DEF MoneyMoves
    <3>4. PICK j \in constraints : j > i /\ loaded[j].cap # 0
      BY <2>6, <3>1, <3>3 DEF Binding
    <3>5. j \in FiredAs({"CONSTRAINT"})
      BY DEF Merged
    <3> QED
      BY <3>1, <3>4, <3>5
  <2> QED
    BY <2>1, <2>3, <2>5, <2>6
<1> QED
  BY <1>1, <1>2, Invariance, BoundedStep, MergedStep, PTL DEF Spec

\* The decision, token, proposal and audit rows agree wherever the evaluation stops.
THEOREM RowsAgree == Spec => []StoresAgree
<1>1. Inv => StoresAgree
  BY DEF Inv
<1> QED
  BY <1>1, Invariance, PTL
=============================================================================
