--------------------------- MODULE OverrideProofs ---------------------------
(***************************************************************************)
(* Override for every set of escalations, administrators and requests, and *)
(* every quorum.                                                           *)
(*                                                                         *)
(* The argument: approvalsCount is the version of the row.  It only grows, *)
(* so a compare-and-set on it succeeds only when the identities are those  *)
(* the request read (SnapshotInv); hence the identities and the count move *)
(* together (SignaturesKept), and a request past the quorum test has a     *)
(* full quorum behind it (QuorumBehind).  The lock is a compare-and-set    *)
(* that nothing reverses, so one request releases (SoleRelease).           *)
(***************************************************************************)
EXTENDS Override, FiniteSetTheorems, TLAPS

\* A snapshot is never ahead of the row, and one with the row's count is the row.
SnapshotInv ==
  \A r \in Requests :
    pc[r] \in {"prior", "sign"} =>
      LET e == TargetOf[r] IN
      /\ snapCount[r] <= approvals[e]
      /\ snapCount[r] = approvals[e] => snapApprovers[r] = approvers[e]
      /\ pc[r] = "sign" => AdminOf[r] \notin snapApprovers[r]

\* Past the quorum test, the quorum is in the row.
QuorumBehind ==
  \A r \in Requests :
    pc[r] \in {"lock", "create"} => approvals[TargetOf[r]] >= Required[TargetOf[r]]

\* One request at most is about to release, and only while nothing was released.
SoleRelease ==
  /\ \A r \in Requests :
       pc[r] = "create" => /\ releases[TargetOf[r]] = 0
                           /\ decisionType[TargetOf[r]] = "OVERRIDE_IN_PROGRESS"
  /\ \A q, r \in Requests :
       pc[q] = "create" /\ pc[r] = "create" /\ TargetOf[q] = TargetOf[r] => q = r
  /\ \A e \in Escalations : decisionType[e] = "BLOCK_AND_ESCALATE" => releases[e] = 0

\* A request that came too late never gets as far as signing, and one that has not
\* arrived has not signed.
LateInv ==
  /\ \A r \in lateRequests : TargetOf[r] \in aged /\ pc[r] # "idle" /\ pc[r] # "sign"
  /\ \A r \in signed : pc[r] # "idle"
  /\ ExpiredIsClosed

Inv ==
  /\ TypeOK
  /\ SignaturesKept
  /\ SnapshotInv
  /\ QuorumBehind
  /\ SoleRelease
  /\ LateInv

-----------------------------------------------------------------------------
\* The initial state satisfies the inductive invariant.
LEMMA InitInv == Init => Inv
<1> SUFFICES ASSUME Init PROVE Inv
  OBVIOUS
<1>1. TypeOK
  BY OverrideAssumption DEF Init, TypeOK
<1>2. SignaturesKept
  BY FS_EmptySet DEF Init, SignaturesKept, SignersOf
<1> QED
  BY <1>1, <1>2 DEF Init, Inv, SnapshotInv, QuorumBehind, SoleRelease, LateInv, ExpiredIsClosed

\* Every step keeps each variable in its type.
LEMMA TypeStep == TypeOK /\ [Next]_vars => TypeOK'
<1> SUFFICES ASSUME TypeOK, [Next]_vars PROVE TypeOK'
  OBVIOUS
<1> USE OverrideAssumption
    DEF TypeOK, Working, Answered, Goto, rowVars, snapVars, outcomeVars, historyVars
<1>1. ASSUME NEW r \in Requests, RequestStep(r) PROVE TypeOK'
  <2>0. CASE NotFound(r)
    BY <2>0 DEF NotFound
  <2>1. CASE Read(r)
    BY <2>1 DEF Read
  <2>2. CASE CheckPrior(r)
    BY <2>2 DEF CheckPrior, Verdict
  <2>3. CASE Sign(r)
    BY <2>3 DEF Sign, Unchanged
  <2>4. CASE Lock(r)
    BY <2>4 DEF Lock, Lockable
  <2>5. CASE CreateOverride(r)
    BY <2>5 DEF CreateOverride
  <2>6. CASE CreateToken(r)
    BY <2>6 DEF CreateToken
  <2>7. CASE ApproveProposal(r)
    BY <2>7 DEF ApproveProposal
  <2>8. CASE Audit(r)
    BY <2>8 DEF Audit
  <2>9. CASE Execute(r)
    BY <2>9 DEF Execute, Outcomes
  <2>10. CASE Resolve(r)
    BY <2>10 DEF Resolve
  <2>11. CASE Fail(r)
    BY <2>11 DEF Fail
  <2>12. CASE Crash(r)
    BY <2>12 DEF Crash
  <2> QED
    BY <1>1, <2>0, <2>1, <2>2, <2>3, <2>4, <2>5, <2>6, <2>7, <2>8, <2>9, <2>10,
       <2>11, <2>12 DEF RequestStep, HandlerStep
<1>2. ASSUME NEW e \in Escalations, Age(e) PROVE TypeOK'
  BY <1>2 DEF Age
<1>3. CASE UNCHANGED vars
  BY <1>3 DEF vars
<1> QED
  BY <1>1, <1>2, <1>3 DEF Next

\* An accepted signature adds one administrator to the identities and one to the count.
LEMMA SignKeeps ==
  ASSUME Inv, TypeOK', NEW r \in Requests, Sign(r), Unchanged(r)
  PROVE  SignaturesKept'
<1> DEFINE t == TargetOf[r]
<1> USE OverrideAssumption DEF Inv, TypeOK
<1>1. /\ approvers'[t] = approvers[t] \cup {AdminOf[r]}
      /\ AdminOf[r] \notin approvers[t]
      /\ approvals'[t] = approvals[t] + 1
      /\ signed' = signed \cup {r}
      /\ \A e \in Escalations \ {t} : approvers'[e] = approvers[e] /\ approvals'[e] = approvals[e]
  BY DEF Sign, Unchanged, SnapshotInv
<1>2. IsFiniteSet(approvers[t])
  BY FS_Subset
<1>3. Cardinality(approvers'[t]) = approvals'[t]
  <2>1. Cardinality(approvers[t] \cup {AdminOf[r]}) = Cardinality(approvers[t]) + 1
    BY <1>1, <1>2, FS_AddElement
  <2>2. t \in Escalations /\ Cardinality(approvers[t]) = approvals[t]
    BY DEF SignaturesKept
  <2> QED
    BY <1>1, <2>1, <2>2
<1>4. SignersOf(t)' = SignersOf(t) \cup {AdminOf[r]}
  BY <1>1 DEF SignersOf
<1>5. \A e \in Escalations \ {t} : SignersOf(e)' = SignersOf(e)
  BY <1>1 DEF SignersOf
<1>6. ASSUME NEW e \in Escalations
      PROVE  approvers'[e] = SignersOf(e)' /\ approvals'[e] = Cardinality(approvers'[e])
  BY <1>1, <1>3, <1>4, <1>5 DEF SignaturesKept
<1> QED
  BY <1>6 DEF SignaturesKept

\* Steps that touch neither the row nor the accepted signatures keep them in accord.
LEMMA QuietKeeps ==
  ASSUME SignaturesKept, UNCHANGED <<approvals, approvers, signed>>
  PROVE  SignaturesKept'
  BY DEF SignaturesKept, SignersOf

\* Every step keeps the inductive invariant.
LEMMA InvStep == Inv /\ [Next]_vars => Inv'
<1> SUFFICES ASSUME Inv, [Next]_vars PROVE Inv'
  OBVIOUS
<1>0. TypeOK /\ TypeOK'
  BY TypeStep DEF Inv
<1> USE OverrideAssumption, <1>0
    DEF Inv, TypeOK, Working, rowVars, snapVars, outcomeVars, historyVars
<1>1. ASSUME NEW r \in Requests, RequestStep(r) PROVE Inv'
  <2>0. CASE NotFound(r)
    <3>1. SignaturesKept'
      BY <2>0, QuietKeeps DEF NotFound, Goto
    <3>2. SnapshotInv'
      BY <2>0 DEF NotFound, Goto, SnapshotInv
    <3>3. QuorumBehind'
      BY <2>0 DEF NotFound, Goto, QuorumBehind
    <3>4. SoleRelease'
      BY <2>0 DEF NotFound, Goto, SoleRelease
    <3>5. LateInv'
      BY <2>0 DEF NotFound, Goto, LateInv, ExpiredIsClosed
    <3> QED
      BY <3>1, <3>2, <3>3, <3>4, <3>5
  <2>1. CASE Read(r)
    <3>1. SignaturesKept'
      BY <2>1, QuietKeeps DEF Read
    <3>2. SnapshotInv'
      BY <2>1 DEF Read, SnapshotInv
    <3>3. QuorumBehind'
      BY <2>1 DEF Read, QuorumBehind
    <3>4. SoleRelease'
      BY <2>1 DEF Read, SoleRelease
    <3>5. LateInv'
      BY <2>1 DEF Read, LateInv, ExpiredIsClosed
    <3> QED
      BY <3>1, <3>2, <3>3, <3>4, <3>5
  <2>2. CASE CheckPrior(r)
    <3>1. SignaturesKept'
      BY <2>2, QuietKeeps DEF CheckPrior, Goto
    <3>2. SnapshotInv'
      BY <2>2 DEF CheckPrior, Verdict, Goto, SnapshotInv
    <3>3. QuorumBehind'
      BY <2>2 DEF CheckPrior, Verdict, Goto, QuorumBehind
    <3>4. SoleRelease'
      BY <2>2 DEF CheckPrior, Verdict, Goto, SoleRelease
    <3>5. LateInv'
      BY <2>2 DEF CheckPrior, Verdict, Goto, LateInv, ExpiredIsClosed
    <3> QED
      BY <3>1, <3>2, <3>3, <3>4, <3>5
  <2>3. CASE Sign(r)
    <3>1. SignaturesKept'
      BY <2>3, SignKeeps, QuietKeeps DEF Sign
    <3>2. SnapshotInv'
      BY <2>3 DEF Sign, Unchanged, SnapshotInv
    <3>3. QuorumBehind'
      BY <2>3 DEF Sign, Unchanged, QuorumBehind
    <3>4. SoleRelease'
      BY <2>3 DEF Sign, SoleRelease
    <3>5. LateInv'
      BY <2>3 DEF Sign, LateInv, ExpiredIsClosed
    <3> QED
      BY <3>1, <3>2, <3>3, <3>4, <3>5
  <2>4. CASE Lock(r)
    <3>1. SignaturesKept'
      BY <2>4, QuietKeeps DEF Lock
    <3>2. SnapshotInv'
      BY <2>4 DEF Lock, Lockable, SnapshotInv
    <3>3. QuorumBehind'
      BY <2>4 DEF Lock, Lockable, QuorumBehind
    <3>4. SoleRelease'
      BY <2>4 DEF Lock, Lockable, SoleRelease
    <3>5. LateInv'
      BY <2>4 DEF Lock, Lockable, LateInv, ExpiredIsClosed
    <3> QED
      BY <3>1, <3>2, <3>3, <3>4, <3>5
  <2>5. CASE CreateOverride(r)
    <3>1. SignaturesKept'
      BY <2>5, QuietKeeps DEF CreateOverride
    <3>2. SnapshotInv'
      BY <2>5 DEF CreateOverride, SnapshotInv
    <3>3. QuorumBehind'
      BY <2>5 DEF CreateOverride, QuorumBehind
    <3>4. SoleRelease'
      BY <2>5 DEF CreateOverride, SoleRelease
    <3>5. LateInv'
      BY <2>5 DEF CreateOverride, LateInv, ExpiredIsClosed
    <3> QED
      BY <3>1, <3>2, <3>3, <3>4, <3>5
  <2>6. CASE CreateToken(r)
    <3>1. SignaturesKept'
      BY <2>6, QuietKeeps DEF CreateToken
    <3>2. SnapshotInv'
      BY <2>6 DEF CreateToken, SnapshotInv
    <3>3. QuorumBehind'
      BY <2>6 DEF CreateToken, QuorumBehind
    <3>4. SoleRelease'
      BY <2>6 DEF CreateToken, SoleRelease
    <3>5. LateInv'
      BY <2>6 DEF CreateToken, LateInv, ExpiredIsClosed
    <3> QED
      BY <3>1, <3>2, <3>3, <3>4, <3>5
  <2>7. CASE ApproveProposal(r)
    <3>1. SignaturesKept'
      BY <2>7, QuietKeeps DEF ApproveProposal
    <3>2. SnapshotInv'
      BY <2>7 DEF ApproveProposal, SnapshotInv
    <3>3. QuorumBehind'
      BY <2>7 DEF ApproveProposal, QuorumBehind
    <3>4. SoleRelease'
      BY <2>7 DEF ApproveProposal, SoleRelease
    <3>5. LateInv'
      BY <2>7 DEF ApproveProposal, LateInv, ExpiredIsClosed
    <3> QED
      BY <3>1, <3>2, <3>3, <3>4, <3>5
  <2>8. CASE Audit(r)
    <3>1. SignaturesKept'
      BY <2>8, QuietKeeps DEF Audit, Goto
    <3>2. SnapshotInv'
      BY <2>8 DEF Audit, Goto, SnapshotInv
    <3>3. QuorumBehind'
      BY <2>8 DEF Audit, Goto, QuorumBehind
    <3>4. SoleRelease'
      BY <2>8 DEF Audit, Goto, SoleRelease
    <3>5. LateInv'
      BY <2>8 DEF Audit, Goto, LateInv, ExpiredIsClosed
    <3> QED
      BY <3>1, <3>2, <3>3, <3>4, <3>5
  <2>9. CASE Execute(r)
    <3>1. SignaturesKept'
      BY <2>9, QuietKeeps DEF Execute
    <3>2. SnapshotInv'
      BY <2>9 DEF Execute, SnapshotInv
    <3>3. QuorumBehind'
      BY <2>9 DEF Execute, QuorumBehind
    <3>4. SoleRelease'
      BY <2>9 DEF Execute, SoleRelease
    <3>5. LateInv'
      BY <2>9 DEF Execute, LateInv, ExpiredIsClosed
    <3> QED
      BY <3>1, <3>2, <3>3, <3>4, <3>5
  <2>10. CASE Resolve(r)
    <3>1. SignaturesKept'
      BY <2>10, QuietKeeps DEF Resolve
    <3>2. SnapshotInv'
      BY <2>10 DEF Resolve, SnapshotInv
    <3>3. QuorumBehind'
      BY <2>10 DEF Resolve, QuorumBehind
    <3>4. SoleRelease'
      BY <2>10 DEF Resolve, SoleRelease
    <3>5. LateInv'
      BY <2>10 DEF Resolve, LateInv, ExpiredIsClosed
    <3> QED
      BY <3>1, <3>2, <3>3, <3>4, <3>5
  <2>11. CASE Fail(r)
    <3>1. SignaturesKept'
      BY <2>11, QuietKeeps DEF Fail, Goto
    <3>2. SnapshotInv'
      BY <2>11 DEF Fail, Goto, SnapshotInv
    <3>3. QuorumBehind'
      BY <2>11 DEF Fail, Goto, QuorumBehind
    <3>4. SoleRelease'
      BY <2>11 DEF Fail, Goto, SoleRelease
    <3>5. LateInv'
      BY <2>11 DEF Fail, Goto, LateInv, ExpiredIsClosed
    <3> QED
      BY <3>1, <3>2, <3>3, <3>4, <3>5
  <2>12. CASE Crash(r)
    <3>1. SignaturesKept'
      BY <2>12, QuietKeeps DEF Crash, Goto
    <3>2. SnapshotInv'
      BY <2>12 DEF Crash, Goto, SnapshotInv
    <3>3. QuorumBehind'
      BY <2>12 DEF Crash, Goto, QuorumBehind
    <3>4. SoleRelease'
      BY <2>12 DEF Crash, Goto, SoleRelease
    <3>5. LateInv'
      BY <2>12 DEF Crash, Goto, LateInv, ExpiredIsClosed
    <3> QED
      BY <3>1, <3>2, <3>3, <3>4, <3>5
  <2> QED
    BY <1>1, <2>0, <2>1, <2>2, <2>3, <2>4, <2>5, <2>6, <2>7, <2>8, <2>9, <2>10,
       <2>11, <2>12 DEF RequestStep, HandlerStep
<1>2. ASSUME NEW e \in Escalations, Age(e) PROVE Inv'
  <2>1. SignaturesKept'
    BY <1>2, QuietKeeps DEF Age
  <2> QED
    BY <1>2, <2>1 DEF Age, SnapshotInv, QuorumBehind, SoleRelease, LateInv, ExpiredIsClosed
<1>3. CASE UNCHANGED vars
  <2>1. SignaturesKept'
    BY <1>3, QuietKeeps DEF vars
  <2> QED
    BY <1>3, <2>1 DEF vars, SnapshotInv, QuorumBehind, SoleRelease, LateInv, ExpiredIsClosed
<1> QED
  BY <1>1, <1>2, <1>3 DEF Next

LEMMA InvAlways == Spec => []Inv
  BY InitInv, InvStep, PTL DEF Spec

-----------------------------------------------------------------------------
(***************************************************************************)
(* The theorems.                                                           *)
(***************************************************************************)

\* Every variable of the endpoint keeps its type.
THEOREM TypeCorrect == Spec => []TypeOK
  BY InvAlways, PTL DEF Inv

\* approverIdentities and approvalsCount stay the set of accepted signers and its size,
\* under any interleaving of any number of override requests.
THEOREM NoSignatureLost == Spec => []SignaturesKept
  BY InvAlways, PTL DEF Inv

\* No request that reaches the endpoint after the four hours is counted.
THEOREM ExpiryCloses == Spec => []ExpiredIsClosed
<1>1. Inv => ExpiredIsClosed
  BY DEF Inv, LateInv
<1> QED
  BY <1>1, InvAlways, PTL

-----------------------------------------------------------------------------
LEMMA InitRelease == Init => Release!Init
  BY DEF Init, Release!Init, SignersOf

\* Each step is a step of KofNRelease or changes nothing it can see.
LEMMA StepRelease == Inv /\ [Next]_vars => [Release!Next]_(Release!vars)
<1> SUFFICES ASSUME Inv, [Next]_vars PROVE [Release!Next]_(Release!vars)
  OBVIOUS
<1> USE OverrideAssumption
    DEF rowVars, snapVars, outcomeVars, historyVars, Release!vars, Release!Next
<1>0. TypeOK
  BY DEF Inv
<1>1. ASSUME NEW r \in Requests, Sign(r) PROVE [Release!Next]_(Release!vars)
  <2> DEFINE e == TargetOf[r]
  <2>1. CASE Unchanged(r)
    <3>1. AdminOf[r] \notin SignersOf(e)
      BY <1>1, <2>1 DEF Sign, Unchanged, Inv, SnapshotInv, SignaturesKept
    <3>2. signed' = signed \cup {r} /\ releases' = releases
      BY <1>1, <2>1 DEF Sign
    <3>3. [f \in Escalations |-> SignersOf(f)']
            = [[f \in Escalations |-> SignersOf(f)] EXCEPT ![e] = @ \cup {AdminOf[r]}]
      <4>1. \A f \in Escalations :
              SignersOf(f)' = IF f = e THEN SignersOf(f) \cup {AdminOf[r]} ELSE SignersOf(f)
        BY <3>2 DEF SignersOf
      <4> QED
        BY <4>1
    <3>4. Release!Sign(e, AdminOf[r])
      BY <3>1, <3>2, <3>3 DEF Release!Sign
    <3> QED
      BY <3>4
  <2>2. CASE ~ Unchanged(r)
    BY <1>1, <2>2 DEF Sign, SignersOf
  <2> QED
    BY <2>1, <2>2
<1>2. ASSUME NEW r \in Requests, CreateOverride(r) PROVE Release!Next
  <2> DEFINE e == TargetOf[r]
  <2>1. e \in Escalations /\ releases[e] = 0 /\ releases' = [releases EXCEPT ![e] = 1]
    <3>1. e \in Escalations
      OBVIOUS
    <3>2. releases[e] = 0
      BY <1>2 DEF CreateOverride, Inv, SoleRelease
    <3>3. releases' = [releases EXCEPT ![e] = releases[e] + 1]
      BY <1>2 DEF CreateOverride
    <3> QED
      BY <3>1, <3>2, <3>3
  <2>2. SignersOf(e) \in Quorums[e]
    <3>1. SignersOf(e) \subseteq Admins
      BY <1>0 DEF SignersOf, TypeOK
    <3>2. Cardinality(SignersOf(e)) >= Required[e]
      BY <1>2, <2>1 DEF CreateOverride, Inv, QuorumBehind, SignaturesKept
    <3> QED
      BY <2>1, <3>1, <3>2 DEF Quorums
  <2>3. \A f \in Escalations : SignersOf(f)' = SignersOf(f)
    BY <1>2 DEF CreateOverride, SignersOf
  <2>4. Release!Release(e)
    BY <2>1, <2>2, <2>3 DEF Release!Release
  <2> QED
    BY <2>1, <2>4
<1>3. ASSUME NEW r \in Requests, RequestStep(r), ~ Sign(r), ~ CreateOverride(r)
      PROVE  UNCHANGED Release!vars
  BY <1>3 DEF RequestStep, HandlerStep, Goto, NotFound, Read, CheckPrior, Lock, CreateToken,
              ApproveProposal, Audit, Execute, Resolve, Fail, Crash, SignersOf
<1>4. ASSUME NEW e \in Escalations, Age(e) PROVE UNCHANGED Release!vars
  BY <1>4 DEF Age, SignersOf
<1>5. CASE UNCHANGED vars
  BY <1>5 DEF vars, SignersOf
<1> QED
  BY <1>1, <1>2, <1>3, <1>4, <1>5 DEF Next, RequestStep, HandlerStep

\* The endpoint implements K-of-N release for every quorum: at most one override
\* decision per escalation, created after Required distinct administrators signed.
THEOREM ImplementsKofN == Spec => KofN
  BY InitRelease, StepRelease, InvAlways, PTL DEF Spec, KofN, Release!Spec

-----------------------------------------------------------------------------
(***************************************************************************)
(* What follows a release belongs to the one request that holds the lock.  *)
(***************************************************************************)

\* Awaits of a request that holds the lock.
Releasing == {"create", "token", "propose", "audit", "execute", "resolve"}

\* One request at most holds the lock of an escalation, and only while it is locked.
SoleReleaser ==
  /\ \A r \in Requests :
       pc[r] \in Releasing => decisionType[TargetOf[r]] = "OVERRIDE_IN_PROGRESS"
  /\ \A q, r \in Requests :
       pc[q] \in Releasing /\ pc[r] \in Releasing /\ TargetOf[q] = TargetOf[r] => q = r

\* What the holder has done by the time it is so far.
ReleaseProgress ==
  \A r \in Requests :
    /\ pc[r] \in {"audit", "execute", "resolve"} => proposal[TargetOf[r]] = "APPROVED"
    /\ pc[r] = "resolve" => override[TargetOf[r]] \in {"COMPLETED", "UNSETTLED"}

\* Nobody holds the lock of a completed escalation any more.
CompletedIsOver ==
  \A r \in Requests : task[TargetOf[r]] = "COMPLETED" => pc[r] \notin Releasing

ReleaseInv ==
  SoleReleaser /\ ReleaseProgress /\ CompletedIsOver /\ CompletedByOverride

LEMMA InitReleaseInv == Init => ReleaseInv
  BY OverrideAssumption
  DEF Init, ReleaseInv, SoleReleaser, ReleaseProgress, CompletedIsOver,
      CompletedByOverride, Releasing

\* Every step keeps it.
LEMMA ReleaseInvStep == TypeOK /\ ReleaseInv /\ [Next]_vars => ReleaseInv'
<1> SUFFICES ASSUME TypeOK, ReleaseInv, [Next]_vars PROVE ReleaseInv'
  OBVIOUS
<1> USE OverrideAssumption
    DEF TypeOK, ReleaseInv, Releasing, Working, rowVars, snapVars, outcomeVars, historyVars,
        SoleReleaser, ReleaseProgress, CompletedIsOver, CompletedByOverride
<1>1. ASSUME NEW r \in Requests, RequestStep(r) PROVE ReleaseInv'
  <2>1. CASE NotFound(r) \/ Audit(r) \/ Fail(r) \/ Crash(r)
    <3>1. SoleReleaser'
      BY <2>1 DEF NotFound, Audit, Fail, Crash, Goto
    <3>2. ReleaseProgress'
      BY <2>1 DEF NotFound, Audit, Fail, Crash, Goto
    <3>3. CompletedIsOver'
      BY <2>1 DEF NotFound, Audit, Fail, Crash, Goto
    <3>4. CompletedByOverride'
      BY <2>1 DEF NotFound, Audit, Fail, Crash, Goto
    <3> QED
      BY <3>1, <3>2, <3>3, <3>4
  <2>2. CASE Read(r)
    BY <2>2 DEF Read
  <2>3. CASE CheckPrior(r)
    BY <2>3 DEF CheckPrior, Verdict, Goto
  <2>4. CASE Sign(r)
    BY <2>4 DEF Sign
  <2>5. CASE Lock(r)
    <3>1. SoleReleaser'
      BY <2>5 DEF Lock, Lockable
    <3>2. ReleaseProgress'
      BY <2>5 DEF Lock, Lockable
    <3>3. CompletedIsOver'
      BY <2>5 DEF Lock, Lockable
    <3>4. CompletedByOverride'
      BY <2>5 DEF Lock, Lockable
    <3> QED
      BY <3>1, <3>2, <3>3, <3>4
  <2>6. CASE CreateOverride(r)
    BY <2>6 DEF CreateOverride
  <2>7. CASE CreateToken(r)
    BY <2>7 DEF CreateToken
  <2>8. CASE ApproveProposal(r)
    BY <2>8 DEF ApproveProposal
  <2>9. CASE Execute(r)
    <3>1. SoleReleaser'
      BY <2>9 DEF Execute, Outcomes
    <3>2. ReleaseProgress'
      BY <2>9 DEF Execute, Outcomes
    <3>3. CompletedIsOver'
      BY <2>9 DEF Execute, Outcomes
    <3>4. CompletedByOverride'
      BY <2>9 DEF Execute, Outcomes
    <3> QED
      BY <3>1, <3>2, <3>3, <3>4
  <2>10. CASE Resolve(r)
    <3>1. SoleReleaser'
      BY <2>10 DEF Resolve
    <3>2. ReleaseProgress'
      BY <2>10 DEF Resolve
    <3>3. CompletedIsOver'
      BY <2>10 DEF Resolve
    <3>4. CompletedByOverride'
      BY <2>10 DEF Resolve
    <3> QED
      BY <3>1, <3>2, <3>3, <3>4
  <2> QED
    BY <1>1, <2>1, <2>2, <2>3, <2>4, <2>5, <2>6, <2>7, <2>8, <2>9, <2>10
    DEF RequestStep, HandlerStep
<1>2. ASSUME NEW e \in Escalations, Age(e) PROVE ReleaseInv'
  BY <1>2 DEF Age
<1>3. CASE UNCHANGED vars
  BY <1>3 DEF vars
<1> QED
  BY <1>1, <1>2, <1>3 DEF Next

\* A task that the override endpoint completed was released, approved and executed by
\* the one request that held the lock, however many administrators ask at once.
THEOREM CompletionIsTheHolders == Spec => []CompletedByOverride
<1>1. ReleaseInv => CompletedByOverride
  BY DEF ReleaseInv
<1> QED
  BY <1>1, InitReleaseInv, ReleaseInvStep, TypeCorrect, PTL DEF Spec
=============================================================================
