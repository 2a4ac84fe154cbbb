--------------------------- MODULE PolicyRegistry ---------------------------
(***************************************************************************)
(* The policy registry of one tenant: PolicyEngine.evaluateOptions reads   *)
(* it, or seeds it from its process's policies.json                        *)
(* (core/governor/policies/engine.ts); rollbackPolicy (api/controllers.ts) *)
(* swaps the active version.  What an evaluation makes of the rules is     *)
(* Governor's matter.                                                      *)
(*                                                                         *)
(* The database runs at READ COMMITTED.  The statement that deactivates    *)
(* sees the rows that were active when it started; a row another           *)
(* transaction holds is waited for and looked at again once it is free,    *)
(* but a row that became active meanwhile is not noticed.                  *)
(***************************************************************************)
CONSTANTS
  Versions,   \* versionHash
  Evals,      \* calls of evaluateOptions
  FileOf,     \* the version in policies.json where each of those runs
  Rollbacks,  \* calls of rollbackPolicy
  TargetOf,   \* the version each of those asks for
  None        \* no version

ASSUME RegistryAssumption ==
  /\ None \notin Versions
  /\ FileOf \in [Evals -> Versions]
  /\ TargetOf \in [Rollbacks -> Versions]

VARIABLES
  rows,     \* versions that have a GovernorPolicy row
  active,   \* those whose row is committed with isActive
  pc,       \* next await of each evaluation
  swap,     \* next statement, or the end, of each rollback
  found,    \* the rows its first statement saw active
  held,     \* the rows its transaction has locked
  crossed,  \* history: rollbacks in whose transaction another version became active
  inForce   \* history: the version last activated, None when that was crossed

swapVars == <<swap, found, held>>
historyVars == <<crossed, inForce>>
vars == <<rows, active, pc, swapVars, historyVars>>

Transaction == {"wait", "activate", "commit"}

TypeOK ==
  /\ rows \subseteq Versions
  /\ active \subseteq rows
  /\ pc \in [Evals -> {"idle", "count", "create", "ended"}]
  /\ swap \in [Rollbacks -> {"idle", "begin", "audit", "ended"} \cup Transaction]
  /\ found \in [Rollbacks -> SUBSET Versions]
  /\ held \in [Rollbacks -> SUBSET Versions]
  /\ crossed \subseteq Rollbacks
  /\ inForce \in Versions \cup {None}

\* A fresh tenant, or a registry that has been in use.
Init ==
  /\ rows \in SUBSET Versions
  /\ \/ rows = {} /\ active = {} /\ inForce = None
     \/ \E v \in rows : active = {v} /\ inForce = v
  /\ pc = [e \in Evals |-> "idle"]
  /\ swap = [r \in Rollbacks |-> "idle"]
  /\ found = [r \in Rollbacks |-> {}]
  /\ held = [r \in Rollbacks |-> {}]
  /\ crossed = {}

-----------------------------------------------------------------------------
(***************************************************************************)
(* evaluateOptions, up to the rules it applies.                            *)
(***************************************************************************)

Goto(e, label) == pc' = [pc EXCEPT ![e] = label]

\* The transactions that are open: their first statement has taken its snapshot.
Open == {r \in Rollbacks : swap[r] \in Transaction}

\* findFirst where isActive; the rules of that row are applied.
Fetch(e) ==
  /\ pc[e] = "idle"
  /\ active # {}
  /\ Goto(e, "ended")
  /\ UNCHANGED <<rows, active, swapVars, historyVars>>

\* No active row: the file is read, or the evaluation ends with POLICY_LOAD_FAILURE.
FallBack(e) ==
  /\ pc[e] = "idle"
  /\ active = {}
  /\ Goto(e, "count") \/ Goto(e, "ended")
  /\ UNCHANGED <<rows, active, swapVars, historyVars>>

\* Any error of the two seeding calls is only a warning.
CountRows(e) ==
  /\ pc[e] = "count"
  /\ \/ rows = {} /\ Goto(e, "create")
     \/ Goto(e, "ended")
  /\ UNCHANGED <<rows, active, swapVars, historyVars>>

\* A wrong form of Seed: an upsert, which turns the row of a known version on again.
SeedUpsert(e) ==
  /\ pc[e] = "create"
  /\ rows' = rows \cup {FileOf[e]}
  /\ active' = active \cup {FileOf[e]}
  /\ crossed' = crossed \cup Open
  /\ inForce' = IF rows = {} THEN FileOf[e] ELSE None
  /\ Goto(e, "ended")
  /\ UNCHANGED swapVars

\* create with isActive; (tenantId, versionHash) is unique.
Seed(e) ==
  LET v == FileOf[e] IN
  /\ pc[e] = "create"
  /\ \/ /\ v \notin rows
        /\ rows' = rows \cup {v}
        /\ active' = active \cup {v}
        /\ crossed' = crossed \cup Open
        /\ inForce' = IF rows = {} THEN v ELSE None
     \/ UNCHANGED <<rows, active, historyVars>>
  /\ Goto(e, "ended")
  /\ UNCHANGED swapVars

-----------------------------------------------------------------------------
(***************************************************************************)
(* rollbackPolicy.                                                         *)
(***************************************************************************)

Step(r, label) == swap' = [swap EXCEPT ![r] = label]

HeldByOthers(r) == UNION {held[q] : q \in Rollbacks \ {r}}

\* findFirst by hash and tenant: 404 without a row.
FindTarget(r) ==
  /\ swap[r] = "idle"
  /\ Step(r, IF TargetOf[r] \in rows THEN "begin" ELSE "ended")
  /\ UNCHANGED <<rows, active, pc, found, held, historyVars>>

\* updateMany starts: the rows its snapshot shows active.
Begin(r) ==
  /\ swap[r] = "begin"
  /\ found' = [found EXCEPT ![r] = active]
  /\ Step(r, "wait")
  /\ UNCHANGED <<rows, active, pc, held, historyVars>>

\* A wrong form of Deactivate: two calls in place of one transaction.
DeactivateAtOnce(r) ==
  /\ swap[r] = "wait"
  /\ found[r] \cap HeldByOthers(r) = {}
  /\ held' = [held EXCEPT ![r] = found[r] \cap active]
  /\ active' = active \ found[r]
  /\ Step(r, "activate")
  /\ UNCHANGED <<rows, pc, found, historyVars>>

\* A wrong form of Deactivate: only one active row is looked for and updated.
DeactivateFirst(r) ==
  /\ swap[r] = "wait"
  /\ found[r] \cap HeldByOthers(r) = {}
  /\ \/ found[r] \cap active = {} /\ held' = [held EXCEPT ![r] = {}]
     \/ \E v \in found[r] \cap active : held' = [held EXCEPT ![r] = {v}]
  /\ Step(r, "activate")
  /\ UNCHANGED <<rows, active, pc, found, historyVars>>

\* Those that are still active once nobody else holds them are updated.
Deactivate(r) ==
  /\ swap[r] = "wait"
  /\ found[r] \cap HeldByOthers(r) = {}
  /\ held' = [held EXCEPT ![r] = found[r] \cap active]
  /\ Step(r, "activate")
  /\ UNCHANGED <<rows, active, pc, found, historyVars>>

Activate(r) ==
  /\ swap[r] = "activate"
  /\ TargetOf[r] \notin HeldByOthers(r)
  /\ held' = [held EXCEPT ![r] = @ \cup {TargetOf[r]}]
  /\ Step(r, "commit")
  /\ UNCHANGED <<rows, active, pc, found, historyVars>>

\* Both updates become visible at once.
Commit(r) ==
  /\ swap[r] = "commit"
  /\ active' = (active \ held[r]) \cup {TargetOf[r]}
  /\ held' = [held EXCEPT ![r] = {}]
  /\ Step(r, "audit")
  /\ crossed' = crossed \cup (Open \ {r})
  /\ inForce' = IF r \in crossed THEN None ELSE TargetOf[r]
  /\ UNCHANGED <<rows, pc, found>>

\* A deadlock, a timeout or the end of the process before the commit.
Abort(r) ==
  /\ swap[r] \in {"idle", "begin"} \cup Transaction
  /\ held' = [held EXCEPT ![r] = {}]
  /\ Step(r, "ended")
  /\ UNCHANGED <<rows, active, pc, found, historyVars>>

\* The audit row is written, or throws and the answer is 500; the swap stays.
Report(r) ==
  /\ swap[r] = "audit"
  /\ Step(r, "ended")
  /\ UNCHANGED <<rows, active, pc, found, held, historyVars>>

-----------------------------------------------------------------------------
Next ==
  \/ \E e \in Evals : Fetch(e) \/ FallBack(e) \/ CountRows(e) \/ Seed(e)
  \/ \E r \in Rollbacks :
       FindTarget(r) \/ Begin(r) \/ Deactivate(r) \/ Activate(r) \/ Commit(r)
         \/ Abort(r) \/ Report(r)

Spec == Init /\ [][Next]_vars

-----------------------------------------------------------------------------
(***************************************************************************)
(* Properties.                                                             *)
(***************************************************************************)

\* A registry that has a version never shows none active, not even while rollbacks
\* overlap, fail or die between their statements: an evaluation would fall back to the
\* file and undo the rollback it is meant to follow.
NeverBare == rows # {} => active # {}

\* controllers.ts:455 "Transaction to safely swap active policies": the version a rollback
\* asked for is the only one active when it has committed, and stays so until the next
\* activation, unless another version became active within its transaction.  So two
\* rollbacks, or seeds, that cross each other may leave several versions active, but no
\* longer than to the end of the next rollback that nothing crosses.
SoleActive == inForce # None => active = {inForce}

\* A version becomes active only by the rollback that names it, or by the first seed.
ActivatesNamed ==
  \A v \in active' \ active :
    v \notin rows \/ \E r \in Rollbacks : TargetOf[r] = v /\ swap[r] = "commit"

OnlyNamed == [][ActivatesNamed]_vars
=============================================================================
