------------------------ MODULE PolicyRegistryProofs ------------------------
(***************************************************************************)
(* Proofs about PolicyRegistry, for any set of versions, evaluations and   *)
(* rollbacks.                                                              *)
(*                                                                         *)
(* The argument for SoleActive: a rollback whose transaction nothing has   *)
(* crossed still sees in found all that is active, and then holds all of   *)
(* it (Uncrossed), so its commit leaves its target alone.  Whatever        *)
(* activates a version crosses every other transaction that is open.       *)
(***************************************************************************)
EXTENDS PolicyRegistry, TLAPS

\* A rollback goes on only with a version the registry has.
TargetKnown ==
  \A r \in Rollbacks : swap[r] \in {"begin"} \cup Transaction => TargetOf[r] \in rows

\* What keeps a rollback that nothing crosses from missing an active row.
Uncrossed ==
  \A r \in Rollbacks \ crossed :
    /\ swap[r] = "wait" => found[r] = active
    /\ swap[r] \in {"activate", "commit"} => active \subseteq held[r]

Inv ==
  /\ TypeOK
  /\ NeverBare
  /\ TargetKnown
  /\ Uncrossed
  /\ SoleActive

LEMMA InitInv == Init => Inv
<1> SUFFICES ASSUME Init PROVE Inv
  OBVIOUS
<1> USE RegistryAssumption
<1>1. /\ rows \subseteq Versions /\ active \subseteq rows /\ (rows # {} => active # {})
      /\ inForce \in Versions \cup {None} /\ SoleActive
  BY DEF Init, SoleActive
<1>2. TypeOK
  BY <1>1 DEF Init, TypeOK
<1>3. TargetKnown /\ Uncrossed
  BY DEF Init, TargetKnown, Uncrossed, Transaction
<1> QED
  BY <1>1, <1>2, <1>3 DEF Inv, NeverBare

\* An evaluation changes the registry only where it seeds it.
LEMMA EvalStep ==
  ASSUME Inv, NEW e \in Evals, Fetch(e) \/ FallBack(e) \/ CountRows(e)
  PROVE  Inv'
<1>1. TypeOK
  BY DEF Inv
<1>2. UNCHANGED <<rows, active, swapVars, historyVars>>
  BY DEF Fetch, FallBack, CountRows
<1>3. TypeOK'
  BY <1>1, <1>2 DEF Fetch, FallBack, CountRows, Goto, TypeOK, swapVars, historyVars
<1>4. NeverBare' /\ TargetKnown' /\ Uncrossed' /\ SoleActive'
  BY <1>2 DEF Inv, NeverBare, TargetKnown, Uncrossed, SoleActive, swapVars, historyVars
<1> QED
  BY <1>3, <1>4 DEF Inv

\* A seed crosses every open transaction; one that finds the registry empty is alone.
LEMMA SeedStep ==
  ASSUME Inv, NEW e \in Evals, Seed(e)
  PROVE  Inv'
<1> USE RegistryAssumption
<1>1. TypeOK
  BY DEF Inv
<1>2. pc' = [pc EXCEPT ![e] = "ended"] /\ UNCHANGED swapVars
  BY DEF Seed, Goto
<1>3. \/ UNCHANGED <<rows, active, historyVars>>
      \/ /\ rows' = rows \cup {FileOf[e]}
         /\ active' = active \cup {FileOf[e]}
         /\ crossed' = crossed \cup Open
         /\ inForce' = IF rows = {} THEN FileOf[e] ELSE None
  BY DEF Seed
<1>4. TypeOK'
  <2>1. /\ rows' \subseteq Versions /\ active' \subseteq rows'
        /\ crossed' \subseteq Rollbacks /\ inForce' \in Versions \cup {None}
    BY <1>1, <1>3 DEF TypeOK, Open, historyVars
  <2> QED
    BY <1>1, <1>2, <2>1 DEF TypeOK, swapVars
<1>5. NeverBare' /\ TargetKnown'
  BY <1>2, <1>3 DEF Inv, NeverBare, TargetKnown, swapVars
<1>6. Uncrossed'
  BY <1>2, <1>3 DEF Inv, Uncrossed, Open, Transaction, swapVars, historyVars
<1>7. SoleActive'
  <2>1. CASE UNCHANGED <<rows, active, historyVars>>
    BY <2>1 DEF Inv, SoleActive, historyVars
  <2>2. CASE /\ active' = active \cup {FileOf[e]}
             /\ inForce' = IF rows = {} THEN FileOf[e] ELSE None
    <3>1. rows = {} => active = {}
      BY <1>1 DEF TypeOK
    <3> QED
      BY <2>2, <3>1 DEF SoleActive
  <2> QED
    BY <1>3, <2>1, <2>2
<1> QED
  BY <1>4, <1>5, <1>6, <1>7 DEF Inv

\* The statements of a rollback before its commit leave the registry as it is.
LEMMA SwapStep ==
  ASSUME Inv, NEW r \in Rollbacks,
         FindTarget(r) \/ Begin(r) \/ Deactivate(r) \/ Activate(r) \/ Abort(r) \/ Report(r)
  PROVE  Inv'
<1>1. TypeOK
  BY DEF Inv
<1>2. UNCHANGED <<rows, active, pc, crossed, inForce>>
  BY DEF FindTarget, Begin, Deactivate, Activate, Abort, Report, historyVars
<1>3. NeverBare' /\ SoleActive'
  BY <1>2 DEF Inv, NeverBare, SoleActive
<1>4. CASE FindTarget(r)
  <2>1. /\ swap' = [swap EXCEPT ![r] = IF TargetOf[r] \in rows THEN "begin" ELSE "ended"]
        /\ UNCHANGED <<found, held>>
    BY <1>4 DEF FindTarget, Step
  <2>2. TypeOK'
    BY <1>1, <1>2, <2>1 DEF TypeOK
  <2>3. TargetKnown' /\ Uncrossed'
    BY <1>1, <1>2, <2>1 DEF Inv, TypeOK, TargetKnown, Uncrossed, Transaction
  <2> QED
    BY <1>3, <2>2, <2>3 DEF Inv
<1>5. CASE Begin(r)
  <2>1. /\ swap[r] = "begin"
        /\ swap' = [swap EXCEPT ![r] = "wait"]
        /\ found' = [found EXCEPT ![r] = active]
        /\ UNCHANGED held
    BY <1>5 DEF Begin, Step
  <2>2. TypeOK'
    <3>1. /\ swap' \in [Rollbacks -> {"idle", "begin", "audit", "ended"} \cup Transaction]
          /\ found' \in [Rollbacks -> SUBSET Versions]
      BY <1>1, <2>1 DEF TypeOK, Transaction
    <3> QED
      BY <1>1, <1>2, <2>1, <3>1 DEF TypeOK
  <2>3. TargetKnown' /\ Uncrossed'
    BY <1>1, <1>2, <2>1 DEF Inv, TypeOK, TargetKnown, Uncrossed, Transaction
  <2> QED
    BY <1>3, <2>2, <2>3 DEF Inv
<1>6. CASE Deactivate(r)
  <2>1. /\ swap[r] = "wait"
        /\ swap' = [swap EXCEPT ![r] = "activate"]
        /\ held' = [held EXCEPT ![r] = found[r] \cap active]
        /\ UNCHANGED found
    BY <1>6 DEF Deactivate, Step
  <2>2. TypeOK'
    BY <1>1, <1>2, <2>1 DEF TypeOK, Transaction
  <2>3. TargetKnown' /\ Uncrossed'
    BY <1>1, <1>2, <2>1 DEF Inv, TypeOK, TargetKnown, Uncrossed, Transaction
  <2> QED
    BY <1>3, <2>2, <2>3 DEF Inv
<1>7. CASE Activate(r)
  <2>1. /\ swap[r] = "activate"
        /\ swap' = [swap EXCEPT ![r] = "commit"]
        /\ held' = [held EXCEPT ![r] = held[r] \cup {TargetOf[r]}]
        /\ UNCHANGED found
    BY <1>7 DEF Activate, Step
  <2>2. TypeOK'
    BY <1>1, <1>2, <2>1, RegistryAssumption DEF TypeOK, Transaction
  <2>3. TargetKnown' /\ Uncrossed'
    BY <1>1, <1>2, <2>1 DEF Inv, TypeOK, TargetKnown, Uncrossed, Transaction
  <2> QED
    BY <1>3, <2>2, <2>3 DEF Inv
<1>8. CASE Abort(r) \/ Report(r)
  <2>1. /\ swap' = [swap EXCEPT ![r] = "ended"]
        /\ held' \in {held, [held EXCEPT ![r] = {}]}
        /\ UNCHANGED found
    BY <1>8 DEF Abort, Report, Step
  <2>2. TypeOK'
    BY <1>1, <1>2, <2>1 DEF TypeOK
  <2>3. TargetKnown'
    BY <1>1, <1>2, <2>1 DEF Inv, TypeOK, TargetKnown, Transaction
  <2>4. Uncrossed'
    <3>1. \A q \in Rollbacks : swap'[q] \in Transaction =>
            q # r /\ swap'[q] = swap[q] /\ held'[q] = held[q]
      BY <1>1, <2>1 DEF TypeOK, Transaction
    <3> QED
      BY <1>2, <2>1, <3>1 DEF Inv, Uncrossed, Transaction
  <2> QED
    BY <1>3, <2>2, <2>3, <2>4 DEF Inv
<1> QED
  BY <1>4, <1>5, <1>6, <1>7, <1>8

\* The commit shows the target, and what was not deactivated; it crosses whoever else has
\* a transaction open.
LEMMA CommitStep ==
  ASSUME Inv, NEW r \in Rollbacks, Commit(r)
  PROVE  Inv'
<1> USE RegistryAssumption
<1>1. TypeOK
  BY DEF Inv
<1>2. /\ swap[r] = "commit"
      /\ swap' = [swap EXCEPT ![r] = "audit"]
      /\ active' = (active \ held[r]) \cup {TargetOf[r]}
      /\ held' = [held EXCEPT ![r] = {}]
      /\ crossed' = crossed \cup (Open \ {r})
      /\ inForce' = IF r \in crossed THEN None ELSE TargetOf[r]
      /\ UNCHANGED <<rows, pc, found>>
  BY DEF Commit, Step
<1>3. TargetOf[r] \in rows
  BY <1>2 DEF Inv, TargetKnown, Transaction
<1>4. TypeOK'
  BY <1>1, <1>2, <1>3 DEF TypeOK, Transaction, Open
<1>5. NeverBare'
  BY <1>2 DEF NeverBare
<1>6. TargetKnown'
  BY <1>1, <1>2 DEF Inv, TypeOK, TargetKnown, Transaction
<1>7. Uncrossed'
  <2>1. \A q \in Rollbacks \ crossed' : swap'[q] \notin Transaction
    BY <1>1, <1>2 DEF TypeOK, Open, Transaction
  <2> QED
    BY <2>1 DEF Uncrossed, Transaction
<1>8. SoleActive'
  <2>1. r \notin crossed => active \subseteq held[r]
    BY <1>2 DEF Inv, Uncrossed
  <2> QED
    BY <1>2, <2>1 DEF SoleActive
<1> QED
  BY <1>4, <1>5, <1>6, <1>7, <1>8 DEF Inv

LEMMA InvStep == Inv /\ [Next]_vars => Inv'
<1> SUFFICES ASSUME Inv, [Next]_vars PROVE Inv'
  OBVIOUS
<1>1. CASE UNCHANGED vars
  BY <1>1 DEF vars, swapVars, historyVars, Inv, TypeOK, NeverBare, TargetKnown, Uncrossed,
              SoleActive
<1>2. ASSUME NEW e \in Evals, Fetch(e) \/ FallBack(e) \/ CountRows(e) \/ Seed(e)
      PROVE  Inv'
  BY <1>2, EvalStep, SeedStep
<1>3. ASSUME NEW r \in Rollbacks,
             FindTarget(r) \/ Begin(r) \/ Deactivate(r) \/ Activate(r) \/ Commit(r)
               \/ Abort(r) \/ Report(r)
      PROVE  Inv'
  BY <1>3, SwapStep, CommitStep
<1> QED
  BY <1>1, <1>2, <1>3 DEF Next

LEMMA InvAlways == Spec => []Inv
  BY InitInv, InvStep, PTL DEF Spec

-----------------------------------------------------------------------------
(***************************************************************************)
(* The theorems.                                                           *)
(***************************************************************************)

\* Every variable of the registry keeps its type; a version that is active has a row.
THEOREM TypeCorrect == Spec => []TypeOK
  BY InvAlways, PTL DEF Inv

\* However many rollbacks overlap, abort or die, a registry that has a version shows an
\* active one.
THEOREM RegistryIsNeverBare == Spec => []NeverBare
  BY InvAlways, PTL DEF Inv

\* However many rollbacks and seeds came before and crossed each other, a rollback in whose
\* transaction no other version becomes active leaves its target alone active, until the
\* next activation.
THEOREM SwapLeavesOneActive == Spec => []SoleActive
  BY InvAlways, PTL DEF Inv

\* A version becomes active by a seed that adds its row or by the commit of a rollback
\* that asked for it, and in no other step.
THEOREM OnlyNamedBecomeActive == Spec => OnlyNamed
<1>1. ASSUME [Next]_vars, NEW v \in active' \ active
      PROVE  v \notin rows \/ \E r \in Rollbacks : TargetOf[r] = v /\ swap[r] = "commit"
  <2>1. CASE UNCHANGED vars
    BY <1>1, <2>1 DEF vars
  <2>2. ASSUME NEW e \in Evals, Fetch(e) \/ FallBack(e) \/ CountRows(e) \/ Seed(e)
        PROVE  v \notin rows
    BY <1>1, <2>2 DEF Fetch, FallBack, CountRows, Seed
  <2>3. ASSUME NEW r \in Rollbacks,
               FindTarget(r) \/ Begin(r) \/ Deactivate(r) \/ Activate(r) \/ Commit(r)
                 \/ Abort(r) \/ Report(r)
        PROVE  TargetOf[r] = v /\ swap[r] = "commit"
    BY <1>1, <2>3 DEF FindTarget, Begin, Deactivate, Activate, Commit, Abort, Report
  <2> QED
    BY <1>1, <2>1, <2>2, <2>3 DEF Next
<1>2. [Next]_vars => [ActivatesNamed]_vars
  BY <1>1 DEF ActivatesNamed
<1> QED
  BY <1>2, PTL DEF Spec, OnlyNamed
=============================================================================
