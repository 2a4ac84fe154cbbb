-------------------------- MODULE AuditChainProofs --------------------------
(***************************************************************************)
(* The ledger and the snapshots of AuditChain for every number of tenants, *)
(* calls and workers, and for every skew of the clocks.                    *)
(*                                                                         *)
(* The argument: while a transaction is open the rows it has read stay     *)
(* committed and unchanged, and it follows one of the latest of them       *)
(* (OpenInv).  When it commits, serializability makes those rows the whole *)
(* ledger of the tenant.  A row that already followed the same predecessor *)
(* was read too, so it is stamped no later than the predecessor, which was *)
(* the latest of them, and no earlier than the skew allows (Anchored).     *)
(*                                                                         *)
(* For the snapshots: of a row that no sweep had passed when it was        *)
(* committed, whatever place a worker has reached is behind it, unless the *)
(* row is copied or in the worker's batch (CopiedInv).  What passes a row  *)
(* of its own tenant had been read by it, and lies as little behind it as  *)
(* any row read (OvertookInv).  And each row has as many copies as there   *)
(* were faults and overlaps, and one more at most, even when every worker  *)
(* that was alone when it began has copied it to the end (CopyInv).        *)
(***************************************************************************)
EXTENDS AuditChain, FiniteSetTheorems, TLAPS

\* What an open transaction has read is committed and it follows the latest of it.
OpenInv ==
  /\ \A w \in committed : pc[w] = "done"
  /\ \A w \in Rows :
       pc[w] \in {"insert", "commit"} =>
         seen[w] \subseteq Ledger(TenantOf[w]) /\ prev[w] \in Latest(seen[w])

\* A row's stamp is behind none of those its writer read by more than the skew.
StampInv ==
  \A w \in Rows : pc[w] = "commit" => \A v \in seen[w] : stamp[v] <= stamp[w] + Skew

Inv ==
  /\ TypeOK
  /\ OpenInv
  /\ StampInv
  /\ Anchored
  /\ NoFork

-----------------------------------------------------------------------------
LEMMA InitInv == Init => Inv
<1> SUFFICES ASSUME Init PROVE Inv
  OBVIOUS
<1> QED
  BY AuditAssumption DEF Init, Inv, TypeOK, OpenInv, StampInv, Anchored, NoFork

\* Every step keeps each variable in its type.
LEMMA TypeStep == TypeOK /\ [Next]_vars => TypeOK'
<1> SUFFICES ASSUME TypeOK, [Next]_vars PROVE TypeOK'
  OBVIOUS
<1> USE AuditAssumption DEF TypeOK, ledgerVars, fileVars, workerVars, countVars, sweepVars
<1>1. ASSUME NEW w \in Rows, Read(w) PROVE TypeOK'
  <2>1. PICK v \in Latest(Ledger(TenantOf[w])) : prev' = [prev EXCEPT ![w] = v]
    BY <1>1 DEF Read
  <2>2. v \in Rows \cup {None} /\ Ledger(TenantOf[w]) \subseteq Rows
    BY DEF Latest, Ledger
  <2> QED
    BY <1>1, <2>1, <2>2 DEF Read
<1>2. ASSUME NEW w \in Rows, Insert(w) PROVE TypeOK'
  BY <1>2 DEF Insert
<1>3. ASSUME NEW w \in Rows, Commit(w) PROVE TypeOK'
  <2>1. {c \in Reached : Before(w, c)} \subseteq Rows
    BY DEF Reached
  <2>2. overtook' \in [Rows -> SUBSET Rows]
    BY <1>3, <2>1 DEF Commit
  <2> QED
    BY <1>3, <2>2 DEF Commit
<1>4. ASSUME NEW w \in Rows, Throw(w) PROVE TypeOK'
  BY <1>4 DEF Throw
<1>5. ASSUME NEW k \in Workers, ReadCursor(k) PROVE TypeOK'
  BY <1>5 DEF ReadCursor, Goto
<1>6. ASSUME NEW k \in Workers, MisreadCursor(k) PROVE TypeOK'
  BY <1>6 DEF MisreadCursor, Goto
<1>7. ASSUME NEW k \in Workers, QueryNothing(k) PROVE TypeOK'
  BY <1>7 DEF QueryNothing, Goto
<1>8. ASSUME NEW k \in Workers, QueryPage(k) PROVE TypeOK'
  <2>1. Page(k) \subseteq Rows
    BY DEF Page, Rest
  <2>2. last' \in [Workers -> Rows \cup {None}]
    BY <1>8, <2>1 DEF QueryPage
  <2>3. overlaps' \in Nat
    BY <1>8 DEF QueryPage
  <2> QED
    BY <1>8, <2>1, <2>2, <2>3 DEF QueryPage, Goto
<1>9. ASSUME NEW k \in Workers, AppendDay(k) PROVE TypeOK'
  <2>1. PICK group : /\ batch' = [batch EXCEPT ![k] = @ \ group]
                     /\ lines' = [w \in Rows |-> IF w \in group THEN lines[w] + 1 ELSE lines[w]]
    BY <1>9 DEF AppendDay
  <2>2. batch' \in [Workers -> SUBSET Rows]
    BY <2>1
  <2>3. lines' \in [Rows -> Nat]
    BY <2>1
  <2> QED
    BY <1>9, <2>2, <2>3 DEF AppendDay
<1>10. ASSUME NEW k \in Workers, WriteCursor(k) PROVE TypeOK'
  BY <1>10 DEF WriteCursor, Exported, Goto
<1>11. ASSUME NEW k \in Workers, SweepFail(k) PROVE TypeOK'
  BY <1>11 DEF SweepFail, Goto
<1>12. CASE UNCHANGED vars
  BY <1>12 DEF vars
<1> QED
  BY <1>1, <1>2, <1>3, <1>4, <1>5, <1>6, <1>7, <1>8, <1>9, <1>10, <1>11, <1>12
  DEF Next, SweepStep

\* A step that leaves the ledger alone keeps what is said of it.
LEMMA LedgerKept ==
  ASSUME Inv, TypeOK', UNCHANGED ledgerVars
  PROVE  Inv'
<1> USE DEF Inv, TypeOK, ledgerVars
<1>1. OpenInv'
  BY DEF OpenInv, Ledger, Latest
<1>2. StampInv'
  BY DEF StampInv
<1>3. Anchored' /\ NoFork'
  BY DEF Anchored, NoFork, Backdated
<1> QED
  BY <1>1, <1>2, <1>3

\* The read: the row will follow one of the latest rows there are.
LEMMA ReadStep ==
  ASSUME Inv, TypeOK', NEW w \in Rows, Read(w)
  PROVE  Inv'
<1> USE AuditAssumption DEF Inv, TypeOK, Read, sweepVars
<1>1. w \notin committed
  BY DEF OpenInv
<1>2. prev'[w] \in Latest(Ledger(TenantOf[w])) /\ \A v \in Rows \ {w} : prev'[v] = prev[v]
  BY DEF Latest
<1>3. OpenInv'
  <2>1. \A v \in committed' : pc'[v] = "done"
    BY <1>1 DEF OpenInv
  <2>2. ASSUME NEW v \in Rows, pc'[v] \in {"insert", "commit"}
        PROVE  seen'[v] \subseteq Ledger(TenantOf[v])' /\ prev'[v] \in Latest(seen[v])'
    <3>1. CASE v = w
      BY <1>2, <3>1 DEF Ledger, Latest
    <3>2. CASE v # w
      BY <1>2, <2>2, <3>2 DEF OpenInv, Ledger, Latest
    <3> QED
      BY <3>1, <3>2
  <2> QED
    BY <2>1, <2>2 DEF OpenInv
<1>4. StampInv'
  <2>1. pc'[w] # "commit"
    OBVIOUS
  <2>2. \A v \in Rows \ {w} : pc'[v] = pc[v] /\ seen'[v] = seen[v]
    OBVIOUS
  <2>3. StampInv /\ UNCHANGED stamp
    OBVIOUS
  <2> QED
    BY ONLY <2>1, <2>2, <2>3 DEF StampInv
<1>5. Anchored' /\ NoFork'
  <2>1. \A v \in committed : prev'[v] = prev[v]
    BY <1>1, <1>2
  <2>2. \A v \in committed : Backdated(v)' <=> Backdated(v)
    BY <2>1 DEF Backdated
  <2>3. Anchored'
    BY <2>1 DEF Anchored
  <2>4. NoFork'
    <3>1. NoFork /\ UNCHANGED committed
      OBVIOUS
    <3> QED
      BY ONLY <2>1, <2>2, <3>1 DEF NoFork
  <2> QED
    BY <2>3, <2>4
<1> QED
  BY <1>3, <1>4, <1>5

\* The insert: the row is stamped, and behind no other by more than the skew.
LEMMA InsertStep ==
  ASSUME Inv, TypeOK', NEW w \in Rows, Insert(w)
  PROVE  Inv'
<1> USE DEF Inv, TypeOK, Insert, sweepVars
<1>1. /\ w \notin committed /\ \A v \in Rows \ {w} : stamp'[v] = stamp[v]
      /\ \A v \in Rows : stamp[v] <= stamp'[w] + Skew
  BY DEF OpenInv
<1>2. \A v \in Rows : pc[v] \in {"insert", "commit"} => w \notin seen[v]
  BY <1>1 DEF OpenInv, Ledger
<1>3. OpenInv'
  <2>1. \A v \in committed' : pc'[v] = "done"
    BY <1>1 DEF OpenInv
  <2>2. ASSUME NEW v \in Rows, pc'[v] \in {"insert", "commit"}
        PROVE  seen'[v] \subseteq Ledger(TenantOf[v])' /\ prev'[v] \in Latest(seen[v])'
    <3>1. seen[v] \subseteq Ledger(TenantOf[v]) /\ prev[v] \in Latest(seen[v])
      BY <2>2 DEF OpenInv
    <3>2. \A u \in seen[v] : stamp'[u] = stamp[u]
      BY <1>1, <1>2, <2>2
    <3> QED
      BY <3>1, <3>2 DEF Ledger, Latest
  <2> QED
    BY <2>1, <2>2 DEF OpenInv
<1>4. StampInv'
  <2> SUFFICES ASSUME NEW u \in Rows, pc'[u] = "commit", NEW v \in seen[u]
               PROVE  stamp'[v] <= stamp'[u] + Skew
    BY DEF StampInv
  <2>1. v \in Rows /\ v # w
    BY <1>2
  <2>2. CASE u = w
    BY <1>1, <2>1, <2>2
  <2>3. CASE u # w
    BY <1>1, <2>1, <2>3 DEF StampInv
  <2> QED
    BY <2>2, <2>3
<1>5. \A v \in committed : prev[v] # None => prev[v] # w
  BY <1>1 DEF Anchored
<1>6. Anchored' /\ NoFork'
  BY <1>1, <1>5 DEF Anchored, NoFork, Backdated
<1> QED
  BY <1>3, <1>4, <1>6

\* The commit: the rows read are the tenant's whole ledger, so what follows the latest of
\* them already is itself stamped no later.
LEMMA CommitStep ==
  ASSUME Inv, TypeOK', NEW w \in Rows, Commit(w)
  PROVE  Inv'
<1> USE AuditAssumption DEF Inv, TypeOK, Commit, sweepVars
<1>1. /\ w \notin committed
      /\ seen[w] = Ledger(TenantOf[w])
      /\ prev[w] \in Latest(seen[w])
  BY DEF OpenInv, Serializable
<1>2. OpenInv'
  <2>1. \A v \in committed' : pc'[v] = "done"
    BY DEF OpenInv
  <2>2. \A t : Ledger(t) \subseteq Ledger(t)'
    BY DEF Ledger
  <2>3. ASSUME NEW v \in Rows, pc'[v] \in {"insert", "commit"}
        PROVE  seen'[v] \subseteq Ledger(TenantOf[v])' /\ prev'[v] \in Latest(seen[v])'
    <3>1. v # w /\ seen'[v] = seen[v]
      BY <2>3
    <3> QED
      BY <2>2, <2>3, <3>1 DEF OpenInv, Latest
  <2> QED
    BY <2>1, <2>3 DEF OpenInv
<1>3. StampInv'
  BY DEF StampInv
<1>4. prev[w] # None =>
        /\ prev[w] \in committed
        /\ TenantOf[prev[w]] = TenantOf[w]
        /\ stamp[prev[w]] <= stamp[w] + Skew
  BY <1>1 DEF Latest, Ledger, StampInv
<1>5. Anchored'
  BY <1>4 DEF Anchored
<1>6. ASSUME NEW v \in committed, TenantOf[v] = TenantOf[w], prev[v] = prev[w]
      PROVE  prev[w] # None /\ Backdated(v)
  <2>1. v \in seen[w]
    BY <1>1, <1>6 DEF Ledger
  <2>2. prev[w] \in seen[w] /\ stamp[v] <= stamp[prev[w]]
    BY <1>1, <2>1 DEF Latest
  <2>3. prev[w] # None /\ prev[w] \in Rows /\ v \in Rows
    BY <1>1, <2>2 DEF Ledger
  <2>4. stamp[prev[w]] <= stamp[v] + Skew
    BY <1>6, <2>3 DEF Anchored
  <2> QED
    BY <1>6, <2>2, <2>3, <2>4 DEF Backdated
<1>7. NoFork'
  <2> SUFFICES ASSUME NEW u \in committed', NEW v \in committed',
                      TenantOf[u] = TenantOf[v], u # v, prev[u] = prev[v]
               PROVE  prev[u] # None /\ \E x \in {u, v} : Backdated(x)
    BY DEF NoFork, Backdated
  <2>1. CASE u \in committed /\ v \in committed
    BY <2>1 DEF NoFork
  <2>2. CASE u = w
    <3>1. v \in committed
      BY <2>2
    <3> QED
      BY <1>6, <2>2, <3>1
  <2>3. CASE v = w
    <3>1. u \in committed
      BY <2>3
    <3> QED
      BY <1>6, <2>3, <3>1
  <2> QED
    BY <2>1, <2>2, <2>3
<1> QED
  BY <1>2, <1>3, <1>5, <1>7

\* An abandoned transaction leaves nothing behind.
LEMMA ThrowStep ==
  ASSUME Inv, TypeOK', NEW w \in Rows, Throw(w)
  PROVE  Inv'
<1> USE AuditAssumption DEF Inv, TypeOK, Throw, sweepVars
<1>1. /\ w \notin committed
      /\ \A v \in Rows \ {w} : /\ seen'[v] = seen[v] /\ prev'[v] = prev[v]
                              /\ stamp'[v] = stamp[v] /\ pc'[v] = pc[v]
  BY DEF OpenInv
<1>2. \A v \in Rows : pc[v] \in {"insert", "commit"} => w \notin seen[v]
  BY <1>1 DEF OpenInv, Ledger
<1>3. OpenInv'
  <2>1. \A v \in committed' : pc'[v] = "done"
    BY <1>1 DEF OpenInv
  <2>2. ASSUME NEW v \in Rows, pc'[v] \in {"insert", "commit"}
        PROVE  seen'[v] \subseteq Ledger(TenantOf[v])' /\ prev'[v] \in Latest(seen[v])'
    <3>1. v # w
      BY <2>2
    <3>2. seen[v] \subseteq Ledger(TenantOf[v]) /\ prev[v] \in Latest(seen[v])
      BY <1>1, <2>2, <3>1 DEF OpenInv
    <3>3. \A u \in seen[v] : stamp'[u] = stamp[u]
      BY <1>1, <1>2, <2>2, <3>1
    <3> QED
      BY <1>1, <3>1, <3>2, <3>3 DEF Ledger, Latest
  <2> QED
    BY <2>1, <2>2 DEF OpenInv
<1>4. StampInv'
  BY <1>1, <1>2 DEF StampInv
<1>5. \A v \in committed : prev[v] # None => prev[v] # w
  BY <1>1 DEF Anchored
<1>6. Anchored' /\ NoFork'
  BY <1>1, <1>5 DEF Anchored, NoFork, Backdated
<1> QED
  BY <1>3, <1>4, <1>6

\* A worker's step.
AnyWorkerStep(k) == SweepStep(k) \/ MisreadCursor(k) \/ SweepFail(k)

\* No worker writes the ledger.
LEMMA WorkersReadOnly ==
  ASSUME NEW k, AnyWorkerStep(k)
  PROVE  UNCHANGED <<ledgerVars, overtook>>
  BY DEF AnyWorkerStep, SweepStep, ReadCursor, MisreadCursor, QueryNothing, QueryPage,
         AppendDay, WriteCursor, SweepFail

LEMMA InvStep == Inv /\ [Next]_vars => Inv'
<1> SUFFICES ASSUME Inv, [Next]_vars PROVE Inv'
  OBVIOUS
<1>0. TypeOK /\ TypeOK'
  BY TypeStep DEF Inv
<1>1. ASSUME NEW w \in Rows, Read(w) \/ Insert(w) \/ Commit(w) \/ Throw(w) PROVE Inv'
  BY <1>0, <1>1, ReadStep, InsertStep, CommitStep, ThrowStep
<1>2. ASSUME NEW k \in Workers, AnyWorkerStep(k) PROVE Inv'
  BY <1>0, <1>2, WorkersReadOnly, LedgerKept
<1>3. CASE UNCHANGED vars
  BY <1>0, <1>3, LedgerKept DEF vars
<1> QED
  BY <1>1, <1>2, <1>3 DEF Next, AnyWorkerStep

LEMMA InvAlways == Spec => []Inv
  BY InitInv, InvStep, PTL DEF Spec

-----------------------------------------------------------------------------
(***************************************************************************)
(* The snapshots: where the rows are.                                      *)
(***************************************************************************)

\* A place that has been reached and that lies behind the row.
Past(c, w) == c # None /\ ~ Before(c, w)

\* What each worker holds at each await, and that all of it is of the ledger.
SweepInv ==
  /\ cursor # None => cursor \in committed
  /\ \A k \in Workers :
       /\ from[k] # None => from[k] \in committed
       /\ last[k] # None => last[k] \in committed
       /\ sweep[k] # "query" => from[k] = None
       /\ sweep[k] # "append" <=> last[k] = None
       /\ last[k] = None => batch[k] = {}
       /\ batch[k] \subseteq committed
       /\ \A w \in batch[k] : w = last[k] \/ Before(w, last[k])

\* What is behind a reached place is copied, or in the batch of the worker that is there,
\* unless the place had been reached before the row was committed.
CopiedInv ==
  \A w \in committed : overtook[w] = {} =>
    /\ Past(cursor, w) => lines[w] > 0
    /\ \A k \in Workers :
         /\ Past(from[k], w) => lines[w] > 0
         /\ Past(last[k], w) => lines[w] > 0 \/ w \in batch[k]

\* Whom a sweep may overtake: what its transaction had not read, or lies close behind.
OvertookInv ==
  \A w \in committed :
    /\ overtook[w] \subseteq committed
    /\ \A v \in overtook[w] : TenantOf[v] # TenantOf[w] \/ stamp[v] <= stamp[w] + Skew

PlaceInv == SweepInv /\ CopiedInv /\ OvertookInv

\* (timestamp, id) is a strict total order.
LEMMA BeforeOrders ==
  ASSUME TypeOK
  PROVE  /\ \A v, w \in Rows : v = w \/ Before(v, w) \/ Before(w, v)
         /\ \A v, w \in Rows : ~ (Before(v, w) /\ Before(w, v)) /\ ~ Before(v, v)
         /\ \A u, v, w \in Rows : Before(u, v) /\ Before(v, w) => Before(u, w)
<1>1. \A w \in Rows : w \in Nat /\ stamp[w] \in Nat
  BY AuditAssumption DEF TypeOK
<1> QED
  BY <1>1 DEF Before

\* The order of the rows that are committed is final.
LEMMA BeforeKept ==
  ASSUME NEW S, \A w \in S : stamp'[w] = stamp[w]
  PROVE  \A v, w \in S : Before(v, w)' <=> Before(v, w)
  BY DEF Before

\* The page is what comes first: whatever else is after the cursor is after its last row.
LEMMA PageFirst ==
  ASSUME TypeOK, NEW k \in Workers, NEW u \in Page(k), \A v \in Page(k) \ {u} : Before(v, u),
         NEW w \in Rest(k) \ Page(k)
  PROVE  Before(u, w)
<1>1. Rest(k) \subseteq Rows /\ u \in Rest(k) /\ w \in Rest(k) /\ u # w
  BY DEF Rest, Page, TypeOK
<1>2. IsFiniteSet(Rest(k))
  BY <1>1, AuditAssumption, FS_Subset
<1>3. SUFFICES ASSUME Before(w, u) PROVE FALSE
  BY <1>1, BeforeOrders
<1> DEFINE ahead(x) == {v \in Rest(k) : Before(v, x)}
<1>4. ahead(w) \subseteq ahead(u)
  BY <1>1, <1>3, BeforeOrders
<1>5. IsFiniteSet(ahead(u)) /\ ahead(u) \subseteq Rest(k)
  BY <1>2, FS_Subset
<1>6. /\ Cardinality(ahead(w)) \in Nat /\ Cardinality(ahead(u)) \in Nat
      /\ Cardinality(ahead(w)) <= Cardinality(ahead(u))
  BY <1>4, <1>5, FS_Subset, FS_CardinalityType
<1>7. Cardinality(ahead(u)) < Batch /\ ~ (Cardinality(ahead(w)) < Batch)
  BY <1>1 DEF Page
<1>8. Batch \in Nat
  BY AuditAssumption
<1> HIDE DEF ahead
<1> QED
  BY ONLY <1>6, <1>7, <1>8

\* What a page is to the worker that takes it.
LEMMA PageTaken ==
  ASSUME TypeOK, NEW k \in Workers, QueryPage(k)
  PROVE  \E u \in Page(k) :
           /\ last' = [last EXCEPT ![k] = u]
           /\ Page(k) \subseteq Rest(k) /\ Rest(k) \subseteq committed
           /\ \A w \in Page(k) : w = u \/ Before(w, u)
           /\ \A w \in Rest(k) \ Page(k) : Before(u, w)
           /\ u # None
<1>1. PICK u \in Page(k) : /\ \A v \in Page(k) \ {u} : Before(v, u)
                           /\ last' = [last EXCEPT ![k] = u]
  BY DEF QueryPage
<1>2. Page(k) \subseteq Rest(k) /\ Rest(k) \subseteq committed
  BY DEF Page, Rest
<1>3. \A w \in Rest(k) \ Page(k) : Before(u, w)
  BY <1>1, PageFirst
<1>4. u # None
  BY <1>2, AuditAssumption DEF TypeOK
<1> QED
  BY <1>1, <1>2, <1>3, <1>4

\* What AppendDay does to the rows of the day and to the others.
LEMMA DayAppended ==
  ASSUME TypeOK, NEW k \in Workers, AppendDay(k)
  PROVE  \E group \in SUBSET batch[k] :
           /\ batch' = [batch EXCEPT ![k] = batch[k] \ group]
           /\ \A w \in group : lines'[w] = lines[w] + 1
           /\ \A w \in Rows \ group : lines'[w] = lines[w]
<1> DEFINE group == {w \in batch[k] : \A v \in batch[k] : Day(w) <= Day(v)}
<1>1. /\ batch' = [batch EXCEPT ![k] = batch[k] \ group]
      /\ lines' = [w \in Rows |-> IF w \in group THEN lines[w] + 1 ELSE lines[w]]
  BY DEF AppendDay, TypeOK
<1>2. group \subseteq batch[k] /\ group \subseteq Rows
  BY DEF TypeOK
<1> HIDE DEF group
<1>3. /\ \A w \in group : lines'[w] = lines[w] + 1
      /\ \A w \in Rows \ group : lines'[w] = lines[w]
  BY <1>1, <1>2
<1> QED
  BY <1>1, <1>2, <1>3

LEMMA InitPlace == Init => PlaceInv
  BY AuditAssumption DEF Init, PlaceInv, SweepInv, CopiedInv, OvertookInv, Past

\* A step that neither a reader nor a worker sees.
LEMMA PlaceKept ==
  ASSUME TypeOK, PlaceInv, UNCHANGED <<committed, sweepVars, overtook>>,
         \A w \in committed : stamp'[w] = stamp[w]
  PROVE  PlaceInv'
<1> USE DEF sweepVars, fileVars, workerVars, countVars, PlaceInv
<1>1. \A v, w \in committed : Before(v, w)' <=> Before(v, w)
  BY BeforeKept
<1>2. SweepInv'
  BY <1>1 DEF SweepInv
<1>3. CopiedInv'
  BY <1>1 DEF SweepInv, CopiedInv, Past
<1>4. OvertookInv'
  BY DEF OvertookInv
<1> QED
  BY <1>2, <1>3, <1>4

\* The row is behind every place reached, or records those that are behind it.
LEMMA PlaceCommit ==
  ASSUME Inv, PlaceInv, NEW w \in Rows, Commit(w)
  PROVE  PlaceInv'
<1> USE DEF sweepVars, fileVars, workerVars, countVars, PlaceInv
<1>0. TypeOK /\ None \notin Rows
  BY AuditAssumption DEF Inv
<1>1. /\ committed' = committed \cup {w} /\ UNCHANGED <<stamp, sweepVars>>
      /\ overtook' = [overtook EXCEPT ![w] = {c \in Reached : Before(w, c)}]
      /\ pc[w] = "commit" /\ w \notin committed /\ seen[w] = Ledger(TenantOf[w])
  BY DEF Commit, Serializable, Inv, OpenInv
<1>2. \A u, v : Before(u, v)' <=> Before(u, v)
  BY <1>1 DEF Before
<1>3. Reached \subseteq committed /\ committed \subseteq Rows
  BY <1>0 DEF Reached, SweepInv, TypeOK
<1>4. /\ overtook'[w] = {c \in Reached : Before(w, c)}
      /\ \A v \in committed : overtook'[v] = overtook[v]
  BY <1>0, <1>1 DEF TypeOK
<1>5. SweepInv'
  BY <1>1, <1>2 DEF SweepInv
<1>6. ASSUME NEW c \in Reached, overtook'[w] = {} PROVE ~ Past(c, w)
  <2>1. c \in Rows /\ c # w /\ ~ Before(w, c)
    BY <1>1, <1>3, <1>4, <1>6
  <2> QED
    BY <1>0, <2>1, BeforeOrders DEF Past
<1>7. CopiedInv'
  <2> SUFFICES ASSUME NEW v \in committed', overtook'[v] = {}
               PROVE  /\ Past(cursor, v) => lines[v] > 0
                      /\ \A k \in Workers :
                           /\ Past(from[k], v) => lines[v] > 0
                           /\ Past(last[k], v) => lines[v] > 0 \/ v \in batch[k]
    BY <1>1, <1>2 DEF CopiedInv, Past
  <2>1. CASE v = w
    <3>1. \A c : c # None /\ c \notin Reached =>
                 c # cursor /\ \A k \in Workers : c # from[k] /\ c # last[k]
      BY DEF Reached
    <3> QED
      BY <1>6, <2>1, <3>1 DEF Past
  <2>2. CASE v # w
    BY <1>1, <1>4, <2>2 DEF CopiedInv
  <2> QED
    BY <2>1, <2>2
<1>8. \A v \in overtook'[w] : TenantOf[v] # TenantOf[w] \/ stamp[v] <= stamp[w] + Skew
  BY <1>1, <1>3, <1>4 DEF Inv, StampInv, Ledger
<1>9. OvertookInv'
  BY <1>1, <1>3, <1>4, <1>8 DEF OvertookInv
<1> QED
  BY <1>5, <1>7, <1>9

\* A worker's step: of what it holds only the places and the copies matter.
LEMMA PlaceWorker ==
  ASSUME Inv, TypeOK', PlaceInv, NEW k \in Workers, AnyWorkerStep(k)
  PROVE  PlaceInv'
<1>0. TypeOK /\ None \notin Rows
  BY AuditAssumption DEF Inv
<1>1. UNCHANGED <<ledgerVars, overtook>>
  BY WorkersReadOnly
<1>2. /\ committed' = committed /\ overtook' = overtook
      /\ \A u, v : Before(u, v)' <=> Before(u, v)
      /\ committed \subseteq Rows
  BY <1>0, <1>1 DEF ledgerVars, Before, TypeOK
<1>3. OvertookInv'
  BY <1>1 DEF ledgerVars, PlaceInv, OvertookInv
<1> USE DEF PlaceInv, fileVars, Goto, TypeOK
<1>4. CASE ReadCursor(k) \/ MisreadCursor(k)
  <2>1. /\ UNCHANGED <<fileVars, batch, last>> /\ sweep[k] = "idle"
        /\ sweep' = [sweep EXCEPT ![k] = "query"]
        /\ from' = [from EXCEPT ![k] = cursor] \/ from' = from
    BY <1>4 DEF ReadCursor, MisreadCursor
  <2>2. SweepInv'
    BY <1>0, <1>2, <2>1 DEF SweepInv
  <2>3. CopiedInv'
    BY <1>0, <1>2, <2>1 DEF CopiedInv, Past
  <2> QED
    BY <1>3, <2>2, <2>3
<1>5. CASE QueryNothing(k)
  <2>1. /\ UNCHANGED <<fileVars, batch, last>> /\ sweep[k] = "query"
        /\ sweep' = [sweep EXCEPT ![k] = "idle"] /\ from' = [from EXCEPT ![k] = None]
    BY <1>5 DEF QueryNothing
  <2>2. SweepInv'
    BY <1>0, <1>2, <2>1 DEF SweepInv
  <2>3. CopiedInv'
    BY <1>0, <1>2, <2>1 DEF CopiedInv, Past
  <2> QED
    BY <1>3, <2>2, <2>3
<1>6. CASE QueryPage(k)
  <2>1. /\ UNCHANGED fileVars /\ sweep[k] = "query"
        /\ sweep' = [sweep EXCEPT ![k] = "append"] /\ from' = [from EXCEPT ![k] = None]
        /\ batch' = [batch EXCEPT ![k] = Page(k)]
    BY <1>6 DEF QueryPage
  <2>2. PICK u \in Page(k) :
          /\ last' = [last EXCEPT ![k] = u]
          /\ Page(k) \subseteq Rest(k) /\ Rest(k) \subseteq committed
          /\ \A w \in Page(k) : w = u \/ Before(w, u)
          /\ \A w \in Rest(k) \ Page(k) : Before(u, w)
          /\ u # None
    BY <1>0, <1>6, PageTaken
  <2>3. SweepInv'
    BY <1>0, <1>2, <2>1, <2>2 DEF SweepInv
  <2>4. ASSUME NEW w \in committed, overtook[w] = {}, ~ Before(u, w)
        PROVE  lines[w] > 0 \/ w \in Page(k)
    <3>1. w \in Page(k) \/ w \notin Rest(k)
      BY <2>2, <2>4
    <3>2. w \notin Rest(k) => Past(from[k], w)
      BY DEF Rest, After, Past
    <3> QED
      BY <2>4, <3>1, <3>2 DEF CopiedInv
  <2>5. CopiedInv'
    <3> SUFFICES ASSUME NEW w \in committed, overtook[w] = {}, NEW j \in Workers
                 PROVE  /\ Past(cursor, w) => lines[w] > 0
                        /\ Past(from'[j], w) => lines[w] > 0
                        /\ Past(last'[j], w) => lines[w] > 0 \/ w \in batch'[j]
      BY <1>2, <2>1 DEF CopiedInv, Past
    <3>1. CASE j = k
      BY <1>0, <2>1, <2>2, <2>4, <3>1 DEF CopiedInv, Past
    <3>2. CASE j # k
      <4>1. from'[j] = from[j] /\ last'[j] = last[j] /\ batch'[j] = batch[j]
        BY <1>0, <2>1, <2>2, <3>2
      <4> QED
        BY <4>1 DEF CopiedInv
    <3> QED
      BY <3>1, <3>2
  <2> QED
    BY <1>3, <2>3, <2>5
<1>7. CASE AppendDay(k)
  <2>1. PICK group \in SUBSET batch[k] :
          /\ batch' = [batch EXCEPT ![k] = batch[k] \ group]
          /\ \A w \in group : lines'[w] = lines[w] + 1
          /\ \A w \in Rows \ group : lines'[w] = lines[w]
    BY <1>0, <1>7, DayAppended
  <2>2. UNCHANGED <<cursor, sweep, from, last>>
    BY <1>7 DEF AppendDay
  <2>3. SweepInv'
    BY <1>0, <1>2, <2>1, <2>2 DEF SweepInv
  <2>4. ASSUME NEW w \in Rows
        PROVE  /\ lines[w] > 0 => lines'[w] > 0
               /\ \A j \in Workers : w \in batch[j] => lines'[w] > 0 \/ w \in batch'[j]
    <3>1. lines[w] \in Nat
      BY <1>0
    <3>2. CASE w \in group
      BY <2>1, <3>1, <3>2
    <3>3. CASE w \notin group
      BY <1>0, <2>1, <3>3
    <3> QED
      BY <3>2, <3>3
  <2>5. CopiedInv'
    BY <1>2, <2>2, <2>4 DEF CopiedInv, Past
  <2> QED
    BY <1>3, <2>3, <2>5
<1>8. CASE WriteCursor(k)
  <2>1. /\ sweep[k] = "append" /\ batch[k] = {} /\ cursor' = last[k]
        /\ sweep' = [sweep EXCEPT ![k] = "idle"] /\ last' = [last EXCEPT ![k] = None]
        /\ UNCHANGED <<lines, from, batch>>
    BY <1>8 DEF WriteCursor, Exported
  <2>2. SweepInv'
    BY <1>0, <1>2, <2>1 DEF SweepInv
  <2>3. CopiedInv'
    <3> SUFFICES ASSUME NEW w \in committed, overtook[w] = {}, NEW j \in Workers
                 PROVE  /\ Past(cursor', w) => lines[w] > 0
                        /\ Past(from[j], w) => lines[w] > 0
                        /\ Past(last'[j], w) => lines[w] > 0 \/ w \in batch[j]
      BY <1>2, <2>1 DEF CopiedInv, Past
    <3>1. last'[j] \in {last[j], None}
      BY <1>0, <2>1
    <3> QED
      BY <2>1, <3>1 DEF CopiedInv, Past
  <2> QED
    BY <1>3, <2>2, <2>3
<1>9. CASE SweepFail(k)
  <2>1. /\ cursor' \in {cursor, None} /\ batch' = [batch EXCEPT ![k] = {}]
        /\ sweep' = [sweep EXCEPT ![k] = "idle"] /\ last' = [last EXCEPT ![k] = None]
        /\ from' = [from EXCEPT ![k] = None] /\ UNCHANGED lines
    BY <1>9 DEF SweepFail
  <2>2. SweepInv'
    BY <1>0, <1>2, <2>1 DEF SweepInv
  <2>3. CopiedInv'
    <3> SUFFICES ASSUME NEW w \in committed, overtook[w] = {}, NEW j \in Workers
                 PROVE  /\ Past(cursor', w) => lines[w] > 0
                        /\ Past(from'[j], w) => lines[w] > 0
                        /\ Past(last'[j], w) => lines[w] > 0 \/ w \in batch'[j]
      BY <1>2, <2>1 DEF CopiedInv, Past
    <3>1. CASE j = k
      BY <1>0, <2>1, <3>1 DEF CopiedInv, Past
    <3>2. CASE j # k
      <4>1. from'[j] = from[j] /\ last'[j] = last[j] /\ batch'[j] = batch[j]
        BY <1>0, <2>1, <3>2
      <4> QED
        BY <2>1, <4>1 DEF CopiedInv, Past
    <3> QED
      BY <3>1, <3>2
  <2> QED
    BY <1>3, <2>2, <2>3
<1> QED
  BY <1>4, <1>5, <1>6, <1>7, <1>8, <1>9 DEF AnyWorkerStep, SweepStep

\* A call that commits nothing changes no committed row and no file.
LEMMA OpenCalls ==
  ASSUME Inv, NEW w \in Rows, Read(w) \/ Insert(w) \/ Throw(w)
  PROVE  /\ UNCHANGED <<committed, sweepVars, overtook>>
         /\ \A v \in committed : stamp'[v] = stamp[v]
<1>1. UNCHANGED <<committed, sweepVars, overtook>> /\ w \notin committed
  BY DEF Read, Insert, Throw, Inv, OpenInv
<1>2. \A v \in Rows \ {w} : stamp'[v] = stamp[v]
  BY DEF Read, Insert, Throw, Inv, TypeOK
<1> QED
  BY <1>1, <1>2 DEF Inv, TypeOK

LEMMA PlaceStep ==
  ASSUME Inv, Inv', PlaceInv, [Next]_vars
  PROVE  PlaceInv'
<1>0. TypeOK /\ TypeOK'
  BY DEF Inv
<1>1. ASSUME NEW w \in Rows, Read(w) \/ Insert(w) \/ Throw(w) PROVE PlaceInv'
  BY <1>0, <1>1, OpenCalls, PlaceKept
<1>2. ASSUME NEW w \in Rows, Commit(w) PROVE PlaceInv'
  BY <1>2, PlaceCommit
<1>3. ASSUME NEW k \in Workers, AnyWorkerStep(k) PROVE PlaceInv'
  BY <1>0, <1>3, PlaceWorker
<1>4. CASE UNCHANGED vars
  BY <1>0, <1>4, PlaceKept DEF vars, ledgerVars
<1> QED
  BY <1>1, <1>2, <1>3, <1>4 DEF Next, AnyWorkerStep

LEMMA PlaceAlways == Spec => []PlaceInv
<1>1. Inv /\ Inv' /\ PlaceInv /\ [Next]_vars => PlaceInv'
  BY PlaceStep
<1> QED
  BY <1>1, InitPlace, InvAlways, PTL DEF Spec

-----------------------------------------------------------------------------
(***************************************************************************)
(* The snapshots: how often a row is copied.                               *)
(***************************************************************************)

\* The copies that are accounted for.
Accounted == faults + overlaps

\* The sweeps whose pages are accounted for already, and one more at most.
Own == {k \in Workers : sweep[k] # "idle" /\ k \notin beside}

\* Those of them that are about to copy the row, or that will set the cursor before it.
Ahead(w) == {k \in Own : \/ sweep[k] = "query" /\ After(from[k], w)
                         \/ w \in batch[k]
                         \/ last[k] # None /\ Before(last[k], w)}

\* No worker will set the cursor behind the row.
NonePast(w) == \A k \in Workers : ~ Past(last[k], w)

CopyInv ==
  /\ beside \subseteq {k \in Workers : sweep[k] = "query"}
  /\ Cardinality(Own) <= Accounted + 1
  /\ \A w \in Rows \ committed : lines[w] = 0
  /\ \A w \in committed :
       /\ lines[w] + Cardinality(Ahead(w)) <= Accounted + 1
       /\ After(cursor, w) /\ NonePast(w) => lines[w] <= Accounted

\* One element more, one element less.
LEMMA OneMore ==
  ASSUME NEW S, IsFiniteSet(S), NEW x, NEW T, T \subseteq S \cup {x}
  PROVE  Cardinality(T) <= Cardinality(S) + 1
<1>1. /\ IsFiniteSet(S \cup {x})
      /\ Cardinality(S \cup {x}) = IF x \in S THEN Cardinality(S) ELSE Cardinality(S) + 1
  BY FS_AddElement
<1>2. /\ Cardinality(T) \in Nat /\ Cardinality(S) \in Nat
      /\ Cardinality(T) <= Cardinality(S \cup {x})
  BY <1>1, FS_Subset, FS_CardinalityType
<1> QED
  BY <1>1, <1>2

LEMMA OneLess ==
  ASSUME NEW S, IsFiniteSet(S), NEW x \in S, NEW T, T \subseteq S \ {x}
  PROVE  Cardinality(T) + 1 <= Cardinality(S)
<1>1. IsFiniteSet(S \ {x}) /\ Cardinality(S \ {x}) = Cardinality(S) - 1
  BY FS_RemoveElement
<1>2. /\ Cardinality(T) \in Nat /\ Cardinality(S) \in Nat
      /\ Cardinality(T) <= Cardinality(S \ {x})
  BY <1>1, FS_Subset, FS_CardinalityType
<1> QED
  BY <1>1, <1>2

\* The sets of workers are finite.
LEMMA OwnFinite ==
  /\ IsFiniteSet(Own) /\ Cardinality(Own) \in Nat
  /\ \A w : IsFiniteSet(Ahead(w)) /\ Cardinality(Ahead(w)) \in Nat
  /\ \A w : Cardinality(Ahead(w)) <= Cardinality(Own)
<1>1. Own \subseteq Workers /\ \A w : Ahead(w) \subseteq Own
  BY DEF Own, Ahead
<1>2. IsFiniteSet(Own)
  BY <1>1, FS_Subset, AuditAssumption
<1> QED
  BY <1>1, <1>2, FS_Subset, FS_CardinalityType

LEMMA InitCopy == Init => CopyInv
<1> SUFFICES ASSUME Init PROVE CopyInv
  OBVIOUS
<1>1. Own = {}
  BY DEF Init, Own
<1>2. Cardinality(Own) = 0
  BY <1>1, FS_EmptySet
<1> QED
  BY <1>2 DEF Init, CopyInv, Accounted

\* A step that no worker makes, and that commits nothing.
LEMMA CopyKept ==
  ASSUME TypeOK, SweepInv, CopyInv, UNCHANGED <<committed, sweepVars>>,
         \A w \in committed : stamp'[w] = stamp[w]
  PROVE  CopyInv'
<1> USE DEF sweepVars, fileVars, workerVars, countVars
<1>1. \A v, w \in committed : Before(v, w)' <=> Before(v, w)
  BY BeforeKept
<1>2. Own' = Own /\ Accounted' = Accounted
  BY DEF Own, Accounted
<1>3. \A w \in committed : After(cursor, w)' <=> After(cursor, w)
  BY <1>1 DEF After, SweepInv
<1>4. ASSUME NEW w \in committed PROVE Ahead(w)' = Ahead(w)
  <2>1. ASSUME NEW k \in Own PROVE k \in Ahead(w)' <=> k \in Ahead(w)
    <3>1. k \in Workers /\ k \in Own'
      BY <1>2, <2>1 DEF Own
    <3>2. After(from[k], w)' <=> After(from[k], w)
      BY <1>1, <3>1 DEF After, SweepInv
    <3>3. last[k] # None => (Before(last[k], w)' <=> Before(last[k], w))
      BY <1>1, <3>1 DEF SweepInv
    <3> QED
      BY <2>1, <3>1, <3>2, <3>3 DEF Ahead
  <2>2. Ahead(w)' \subseteq Own' /\ Ahead(w) \subseteq Own
    BY DEF Ahead
  <2> QED
    BY <1>2, <2>1, <2>2
<1>5. \A w \in committed : NonePast(w)' <=> NonePast(w)
  BY <1>1 DEF NonePast, Past, SweepInv
<1> QED
  BY <1>2, <1>3, <1>4, <1>5 DEF CopyInv

\* The row is in no file, and no more workers are ahead of it than there are.
LEMMA CopyCommit ==
  ASSUME Inv, CopyInv, NEW w \in Rows, Commit(w)
  PROVE  CopyInv'
<1> USE DEF sweepVars, fileVars, workerVars, countVars
<1>1. /\ committed' = committed \cup {w} /\ UNCHANGED <<stamp, sweepVars>>
      /\ w \notin committed
  BY DEF Commit, Inv, OpenInv
<1>2. \A u, v : Before(u, v)' <=> Before(u, v)
  BY <1>1 DEF Before
<1>3. Own' = Own /\ Accounted' = Accounted /\ lines' = lines /\ beside' = beside /\ sweep' = sweep
  BY <1>1 DEF Own, Accounted
<1>4. /\ \A v : Ahead(v)' = Ahead(v) /\ (NonePast(v)' <=> NonePast(v))
      /\ \A v : After(cursor, v)' <=> After(cursor, v)
  BY <1>1, <1>2 DEF Own, Ahead, After, NonePast, Past
<1>5. /\ lines[w] = 0 /\ Cardinality(Ahead(w)) <= Cardinality(Own)
      /\ Cardinality(Ahead(w)) \in Nat /\ Cardinality(Own) \in Nat
      /\ Cardinality(Own) <= Accounted + 1 /\ Accounted \in Nat
  BY <1>1, OwnFinite DEF CopyInv, Inv, TypeOK, Accounted
<1>6. \A v \in committed' : lines[v] + Cardinality(Ahead(v)) <= Accounted + 1
  BY <1>1, <1>5 DEF CopyInv
<1>7. \A v \in committed' : After(cursor, v) /\ NonePast(v) => lines[v] <= Accounted
  BY <1>1, <1>5 DEF CopyInv
<1>8. \A v \in Rows \ committed' : lines[v] = 0
  BY <1>1 DEF CopyInv
<1> QED
  BY <1>3, <1>4, <1>6, <1>7, <1>8 DEF CopyInv

\* What a step of a worker has to keep, when it copies nothing: it counts whoever comes to
\* be ahead, and whatever sets the cursor before the row.
LEMMA CopyMoves ==
  ASSUME TypeOK, CopyInv, lines' = lines, committed' = committed, NEW d \in {0, 1},
         Accounted' = Accounted + d,
         beside' \subseteq {k \in Workers : sweep'[k] = "query"},
         Cardinality(Own') <= Cardinality(Own) + d \/ Cardinality(Own') <= Accounted' + 1,
         \A w \in committed :
           \/ Cardinality(Ahead(w)') <= Cardinality(Ahead(w)) + d
           \/ /\ After(cursor, w) /\ NonePast(w)
              /\ Cardinality(Ahead(w)') <= 1,
         \A w \in committed :
           After(cursor, w)' /\ NonePast(w)' =>
             \/ d = 1
             \/ After(cursor, w) /\ NonePast(w)
             \/ Ahead(w) # {}
  PROVE  CopyInv'
<1>1. /\ Accounted \in Nat /\ Cardinality(Own) \in Nat
      /\ \A w \in Rows : lines[w] \in Nat
      /\ committed \subseteq Rows
  BY OwnFinite DEF TypeOK, Accounted
<1>2. Cardinality(Own)' \in Nat /\ \A w : Cardinality(Ahead(w))' \in Nat
  <2>1. Own' \subseteq Workers /\ \A w : Ahead(w)' \subseteq Workers
    BY DEF Own, Ahead
  <2>2. IsFiniteSet(Own') /\ \A w : IsFiniteSet(Ahead(w)')
    BY <2>1, FS_Subset, AuditAssumption
  <2> QED
    BY <2>2, FS_CardinalityType
<1>3. Cardinality(Own)' <= Accounted' + 1
  BY <1>1, <1>2 DEF CopyInv
<1>4. ASSUME NEW w \in committed
      PROVE  lines[w] + Cardinality(Ahead(w))' <= Accounted' + 1
  <2>1. lines[w] \in Nat /\ Cardinality(Ahead(w)) \in Nat /\ Cardinality(Ahead(w))' \in Nat
    BY <1>1, <1>2, OwnFinite
  <2>2. lines[w] + Cardinality(Ahead(w)) <= Accounted + 1
    BY DEF CopyInv
  <2>3. After(cursor, w) /\ NonePast(w) => lines[w] <= Accounted
    BY DEF CopyInv
  <2> QED
    BY <1>1, <2>1, <2>2, <2>3
<1>5. ASSUME NEW w \in committed, After(cursor, w)', NonePast(w)'
      PROVE  lines[w] <= Accounted'
  <2>1. lines[w] \in Nat /\ Cardinality(Ahead(w)) \in Nat
    BY <1>1, OwnFinite
  <2>2. lines[w] + Cardinality(Ahead(w)) <= Accounted + 1
    BY DEF CopyInv
  <2>3. CASE d = 1
    BY <1>1, <2>1, <2>2, <2>3
  <2>4. CASE After(cursor, w) /\ NonePast(w) /\ d = 0
    BY <1>1, <2>4 DEF CopyInv
  <2>5. CASE Ahead(w) # {} /\ d = 0
    <3>1. Cardinality(Ahead(w)) # 0
      BY <2>5, OwnFinite, FS_EmptySet
    <3> QED
      BY <1>1, <2>1, <2>2, <2>5, <3>1
  <2> QED
    BY <1>5, <2>3, <2>4, <2>5
<1>6. \A w \in Rows \ committed : lines[w] = 0
  BY DEF CopyInv
<1> QED
  BY <1>3, <1>4, <1>5, <1>6 DEF CopyInv

\* Only the worker that makes the step comes or goes.
OthersStay(k) ==
  /\ UNCHANGED stamp
  /\ \A j \in Workers \ {k} :
       /\ sweep'[j] = sweep[j] /\ from'[j] = from[j]
       /\ batch'[j] = batch[j] /\ last'[j] = last[j]
       /\ j \in beside' <=> j \in beside

LEMMA Counts ==
  ASSUME NEW k \in Workers, OthersStay(k)
  PROVE  /\ Cardinality(Own') \in Nat
         /\ Cardinality(Own') <= Cardinality(Own) + 1
         /\ (k \in Own' => k \in Own) => Cardinality(Own') <= Cardinality(Own)
         /\ \A w : Cardinality(Ahead(w)') <= Cardinality(Ahead(w)) + 1
         /\ \A w : (k \in Ahead(w)' => k \in Ahead(w)) =>
                     Cardinality(Ahead(w)') <= Cardinality(Ahead(w))
         /\ \A w : k \in Ahead(w) /\ k \notin Ahead(w)' =>
                     Cardinality(Ahead(w)') + 1 <= Cardinality(Ahead(w))
<1>1. \A u, v : Before(u, v)' <=> Before(u, v)
  BY DEF OthersStay, Before
<1>2. Own \subseteq Workers /\ Own' \subseteq Workers
  BY DEF Own
<1>3. \A j \in Workers \ {k} : j \in Own' <=> j \in Own
  BY DEF OthersStay, Own
<1>4. ASSUME NEW w, NEW j \in Workers \ {k} PROVE j \in Ahead(w)' <=> j \in Ahead(w)
  <2>1. After(from[j], w)' <=> After(from[j], w)
    BY <1>1 DEF OthersStay, After
  <2>2. /\ last'[j] = last[j] /\ sweep'[j] = sweep[j] /\ batch'[j] = batch[j]
        /\ Before(last[j], w)' <=> Before(last[j], w)
    BY <1>1 DEF OthersStay, Before
  <2> QED
    BY <1>3, <2>1, <2>2 DEF Ahead
<1>5. \A w : Ahead(w) \subseteq Workers /\ Ahead(w)' \subseteq Workers
  BY <1>2 DEF Ahead
<1>6. IsFiniteSet(Own) /\ \A w : IsFiniteSet(Ahead(w))
  BY OwnFinite
<1>7. Own' \subseteq Own \cup {k} /\ ((k \in Own' => k \in Own) => Own' \subseteq Own)
  BY <1>2, <1>3
<1>8. \A w : /\ Ahead(w)' \subseteq Ahead(w) \cup {k}
             /\ (k \in Ahead(w)' => k \in Ahead(w)) => Ahead(w)' \subseteq Ahead(w)
             /\ k \notin Ahead(w)' => Ahead(w)' \subseteq Ahead(w) \ {k}
  BY <1>4, <1>5
<1>9. \A w : /\ Cardinality(Ahead(w)') <= Cardinality(Ahead(w)) + 1
             /\ k \in Ahead(w) /\ k \notin Ahead(w)' =>
                  Cardinality(Ahead(w)') + 1 <= Cardinality(Ahead(w))
             /\ (k \in Ahead(w)' => k \in Ahead(w)) =>
                  Cardinality(Ahead(w)') <= Cardinality(Ahead(w))
  BY <1>6, <1>8, OneMore, OneLess, FS_Subset
<1>10. /\ Cardinality(Own') <= Cardinality(Own) + 1
       /\ (k \in Own' => k \in Own) => Cardinality(Own') <= Cardinality(Own)
  BY <1>6, <1>7, OneMore, FS_Subset
<1>11. Cardinality(Own') \in Nat
  BY <1>2, FS_Subset, FS_CardinalityType, AuditAssumption
<1> QED
  BY <1>9, <1>10, <1>11

\* The cursor is read: by a worker that is alone, or to a page that is accounted for.
LEMMA CopyRead ==
  ASSUME Inv, SweepInv, CopyInv, NEW k \in Workers, ReadCursor(k) \/ MisreadCursor(k)
  PROVE  CopyInv'
<1> USE DEF Goto, fileVars
<1>0. TypeOK
  BY DEF Inv
<1>1. /\ UNCHANGED <<ledgerVars, cursor, lines, batch, last, overlaps>>
      /\ sweep[k] = "idle" /\ sweep' = [sweep EXCEPT ![k] = "query"]
      /\ committed' = committed /\ stamp' = stamp
  BY DEF ReadCursor, MisreadCursor, ledgerVars
<1>2. OthersStay(k)
  BY <1>0, <1>1 DEF OthersStay, ReadCursor, MisreadCursor, TypeOK
<1>3. /\ \A w : (After(cursor, w)' <=> After(cursor, w)) /\ (NonePast(w)' <=> NonePast(w))
  BY <1>1 DEF After, NonePast, Past, Before
<1>4. k \notin Own /\ \A w : k \notin Ahead(w)
  BY <1>1 DEF Own, Ahead
<1>5. beside' \subseteq {j \in Workers : sweep'[j] = "query"}
  BY <1>0, <1>1 DEF CopyInv, ReadCursor, MisreadCursor, TypeOK
<1>6. CASE MisreadCursor(k)
  <2>1. Accounted' = Accounted + 1
    BY <1>0, <1>6 DEF MisreadCursor, Accounted, TypeOK
  <2> QED
    BY <1>0, <1>1, <1>2, <1>3, <1>5, <2>1, Counts, CopyMoves
<1>7. CASE ReadCursor(k) /\ Beside(k)
  <2>1. Accounted' = Accounted + 0
    BY <1>0, <1>7 DEF ReadCursor, Accounted, TypeOK
  <2>2. k \in beside'
    BY <1>7 DEF ReadCursor
  <2>3. k \notin Own' /\ \A w : k \notin Ahead(w)'
    BY <2>2 DEF Own, Ahead
  <2>4. /\ Cardinality(Own') <= Cardinality(Own)
        /\ \A w : Cardinality(Ahead(w)') <= Cardinality(Ahead(w))
    BY <1>2, <2>3, Counts
  <2>5. \A w : Cardinality(Ahead(w)) \in Nat /\ Cardinality(Own) \in Nat
    BY OwnFinite
  <2> QED
    BY <1>0, <1>1, <1>3, <1>5, <2>1, <2>4, <2>5, CopyMoves
<1>8. CASE ReadCursor(k) /\ ~ Beside(k)
  <2>1. Accounted' = Accounted + 0 /\ Accounted \in Nat
    BY <1>0, <1>8 DEF ReadCursor, Accounted, TypeOK
  <2>2. \A j \in Workers : sweep[j] = "idle"
    BY <1>1, <1>8 DEF Beside
  <2>3. Own = {} /\ \A w : Ahead(w) = {}
    BY <2>2 DEF Own, Ahead
  <2>4. Cardinality({}) = 0
    BY FS_EmptySet
  <2>5. Cardinality(Own') <= Accounted' + 1
    BY <1>2, <2>1, <2>3, <2>4, Counts
  <2>6. ASSUME NEW w \in committed
        PROVE  \/ Cardinality(Ahead(w)') <= Cardinality(Ahead(w)) + 0
               \/ /\ After(cursor, w) /\ NonePast(w)
                  /\ Cardinality(Ahead(w)') <= 1
    <3>1. Cardinality(Ahead(w)') <= 1
      BY <1>2, <2>3, <2>4, Counts
    <3>2. CASE k \in Ahead(w)'
      <4>1. last[k] = None /\ batch[k] = {} /\ from' = [from EXCEPT ![k] = cursor]
        BY <1>8, <2>2 DEF SweepInv, ReadCursor
      <4>2. last'[k] = None /\ batch'[k] = {} /\ from'[k] = cursor
        BY <1>0, <1>1, <4>1 DEF TypeOK
      <4>3. After(from[k], w)'
        BY <3>2, <4>2 DEF Ahead
      <4>4. After(cursor, w)
        BY <1>1, <4>2, <4>3 DEF After, Before
      <4>5. NonePast(w)
        BY <2>2 DEF NonePast, Past, SweepInv
      <4> QED
        BY <3>1, <4>4, <4>5
    <3>3. CASE k \notin Ahead(w)'
      <4>1. Cardinality(Ahead(w)') <= Cardinality(Ahead(w)) /\ Cardinality(Ahead(w)) \in Nat
        BY <1>2, <3>3, Counts, OwnFinite
      <4> QED
        BY <4>1
    <3> QED
      BY <3>2, <3>3
  <2> QED
    BY <1>0, <1>1, <1>3, <1>5, <2>1, <2>5, <2>6, CopyMoves
<1> QED
  BY <1>6, <1>7, <1>8

\* The query is answered: whoever takes a page that is not accounted for had been ahead.
LEMMA CopyQuery ==
  ASSUME Inv, SweepInv, CopyInv, NEW k \in Workers, QueryNothing(k) \/ QueryPage(k)
  PROVE  CopyInv'
<1> USE DEF Goto, fileVars
<1>0. TypeOK /\ committed \subseteq Rows
  BY DEF Inv, TypeOK
<1>1. /\ UNCHANGED <<ledgerVars, cursor, lines, faults>> /\ beside' = beside \ {k}
      /\ sweep[k] = "query" /\ from' = [from EXCEPT ![k] = None]
      /\ sweep' \in {[sweep EXCEPT ![k] = "idle"], [sweep EXCEPT ![k] = "append"]}
      /\ committed' = committed /\ stamp' = stamp
  BY DEF QueryNothing, QueryPage, ledgerVars
<1>2. OthersStay(k)
  BY <1>0, <1>1 DEF OthersStay, QueryNothing, QueryPage, TypeOK
<1>3. last[k] = None /\ batch[k] = {}
  BY <1>1 DEF SweepInv
<1>4. \A w : After(cursor, w)' <=> After(cursor, w)
  BY <1>1 DEF After, Before
<1>5. \A w : NonePast(w)' => NonePast(w)
  <2> SUFFICES ASSUME NEW w, NonePast(w)', NEW j \in Workers PROVE ~ Past(last[j], w)
    BY DEF NonePast
  <2>1. CASE j = k
    BY <1>3, <2>1 DEF Past
  <2>2. CASE j # k
    BY <1>2, <2>2 DEF OthersStay, NonePast, Past, Before
  <2> QED
    BY <2>1, <2>2
<1>6. beside' \subseteq {j \in Workers : sweep'[j] = "query"}
  BY <1>0, <1>1 DEF CopyInv, TypeOK
<1>7. CASE QueryPage(k) /\ k \in beside
  <2>1. Accounted' = Accounted + 1
    BY <1>0, <1>1, <1>7 DEF QueryPage, Accounted, TypeOK
  <2> QED
    BY <1>0, <1>1, <1>2, <1>4, <1>5, <1>6, <2>1, Counts, CopyMoves
<1>8. CASE QueryNothing(k) \/ k \notin beside
  <2>1. Accounted' = Accounted + 0
    BY <1>0, <1>1, <1>8 DEF QueryPage, QueryNothing, Accounted, TypeOK
  <2>2. k \in Own' => k \in Own
    <3>1. CASE QueryNothing(k)
      BY <1>0, <3>1 DEF QueryNothing, Own, TypeOK
    <3>2. CASE k \notin beside
      BY <1>1, <3>2 DEF Own
    <3> QED
      BY <1>8, <3>1, <3>2
  <2>3. ASSUME NEW w \in committed, k \in Ahead(w)' PROVE k \in Ahead(w)
    <3>1. k \in Own' /\ k \in Own
      BY <2>2, <2>3 DEF Ahead
    <3>2. QueryPage(k)
      BY <1>0, <1>1, <3>1 DEF QueryNothing, Own, TypeOK
    <3>3. PICK u \in Page(k) :
            /\ last' = [last EXCEPT ![k] = u]
            /\ Page(k) \subseteq Rest(k) /\ Rest(k) \subseteq committed
            /\ \A v \in Page(k) : v = u \/ Before(v, u)
            /\ \A v \in Rest(k) \ Page(k) : Before(u, v)
            /\ u # None
      BY <1>0, <3>2, PageTaken
    <3>4. last'[k] = u /\ batch'[k] = Page(k) /\ sweep'[k] = "append"
      BY <1>0, <3>2, <3>3 DEF QueryPage, TypeOK
    <3>5. w \in Page(k) \/ Before(u, w)
      <4>1. Before(u, w)' <=> Before(u, w)
        BY <1>1 DEF Before
      <4> QED
        BY <2>3, <3>4, <4>1 DEF Ahead, Before
    <3>6. After(from[k], w)
      <4>1. CASE w \in Page(k)
        BY <3>3, <4>1 DEF Rest
      <4>2. CASE Before(u, w)
        <5>1. After(from[k], u) /\ u \in Rows /\ w \in Rows
          BY <1>0, <3>3 DEF Rest
        <5>2. from[k] \in Rows \cup {None}
          BY <1>0 DEF TypeOK
        <5> QED
          BY <1>0, <4>2, <5>1, <5>2, BeforeOrders DEF After
      <4> QED
        BY <3>5, <4>1, <4>2
    <3> QED
      BY <1>1, <3>1, <3>6 DEF Ahead
  <2>4. /\ Cardinality(Own') <= Cardinality(Own) /\ Cardinality(Own) \in Nat
        /\ \A w \in committed : Cardinality(Ahead(w)') <= Cardinality(Ahead(w))
        /\ \A w : Cardinality(Ahead(w)) \in Nat
    BY <1>2, <2>2, <2>3, Counts, OwnFinite
  <2> QED
    BY <1>0, <1>1, <1>4, <1>5, <1>6, <2>1, <2>4, CopyMoves
<1> QED
  BY <1>7, <1>8

\* A copy more, and a worker less ahead of the row.
LEMMA CopyAppend ==
  ASSUME Inv, SweepInv, CopyInv, NEW k \in Workers, AppendDay(k)
  PROVE  CopyInv'
<1>0. TypeOK /\ committed \subseteq Rows
  BY DEF Inv, TypeOK
<1>1. PICK group \in SUBSET batch[k] :
        /\ batch' = [batch EXCEPT ![k] = batch[k] \ group]
        /\ \A w \in group : lines'[w] = lines[w] + 1
        /\ \A w \in Rows \ group : lines'[w] = lines[w]
  BY <1>0, DayAppended
<1>2. /\ UNCHANGED <<committed, stamp, cursor, sweep, from, last, beside, overlaps, faults>>
      /\ batch[k] # {}
  BY DEF AppendDay, ledgerVars, countVars
<1>3. OthersStay(k)
  BY <1>0, <1>1, <1>2 DEF OthersStay, TypeOK
<1>4. Own' = Own /\ Accounted' = Accounted
  BY <1>2 DEF Own, Accounted
<1>5. \A w : (After(cursor, w)' <=> After(cursor, w)) /\ (NonePast(w)' <=> NonePast(w))
  BY <1>2 DEF After, NonePast, Past, Before
<1>6. /\ last[k] # None /\ sweep[k] = "append" /\ k \in Own /\ last[k] \in committed
      /\ batch[k] \subseteq committed /\ batch'[k] = batch[k] \ group
  BY <1>0, <1>1, <1>2 DEF SweepInv, CopyInv, Own, TypeOK
<1>7. ASSUME NEW w \in group
      PROVE  k \in Ahead(w) /\ k \notin Ahead(w)' /\ Past(last[k], w)
  <2>1. w \in batch[k] /\ w \notin batch'[k] /\ w \in Rows /\ last[k] \in Rows
    BY <1>0, <1>6
  <2>2. ~ Before(last[k], w)
    <3>1. w = last[k] \/ Before(w, last[k])
      BY <2>1 DEF SweepInv
    <3> QED
      BY <1>0, <2>1, <3>1, BeforeOrders
  <2>3. ~ Before(last[k], w)' /\ last'[k] = last[k] /\ sweep'[k] = "append"
    BY <1>2, <1>6, <2>2 DEF Before
  <2>4. k \in Ahead(w)
    BY <1>6, <2>1 DEF Ahead
  <2>5. k \notin Ahead(w)'
    BY <2>1, <2>3 DEF Ahead, Before
  <2> QED
    BY <1>6, <2>2, <2>4, <2>5 DEF Past
<1>8. ASSUME NEW w \in Rows \ group, k \in Ahead(w)' PROVE k \in Ahead(w)
  BY <1>2, <1>4, <1>6, <1>8 DEF Ahead, After, Before
<1>9. \A w \in Rows : lines[w] \in Nat /\ Cardinality(Ahead(w)) \in Nat
  BY <1>0, OwnFinite DEF TypeOK
<1>10. ASSUME NEW w \in committed
       PROVE  lines'[w] + Cardinality(Ahead(w)') <= Accounted + 1
  <2>1. lines[w] + Cardinality(Ahead(w)) <= Accounted + 1 /\ w \in Rows
    BY <1>0 DEF CopyInv
  <2>2. Accounted \in Nat /\ Cardinality(Ahead(w)') \in Nat
    <3>1. Ahead(w)' \subseteq Own'
      BY DEF Ahead
    <3> QED
      BY <1>0, <1>4, <3>1, OwnFinite, FS_Subset, FS_CardinalityType DEF Accounted, TypeOK
  <2>3. CASE w \in group
    <3>1. Cardinality(Ahead(w)') + 1 <= Cardinality(Ahead(w))
      BY <1>3, <1>7, <2>3, Counts
    <3>2. lines'[w] = lines[w] + 1
      BY <1>1, <2>3
    <3> QED
      BY <1>9, <2>1, <2>2, <3>1, <3>2
  <2>4. CASE w \notin group
    <3>1. Cardinality(Ahead(w)') <= Cardinality(Ahead(w))
      BY <1>3, <1>8, <2>1, <2>4, Counts
    <3>2. lines'[w] = lines[w]
      BY <1>1, <2>1, <2>4
    <3> QED
      BY <1>9, <2>1, <2>2, <3>1, <3>2
  <2> QED
    BY <2>3, <2>4
<1>11. ASSUME NEW w \in committed, After(cursor, w), NonePast(w) PROVE lines'[w] <= Accounted
  <2>1. w \notin group
    BY <1>7, <1>11 DEF NonePast
  <2> QED
    BY <1>0, <1>1, <1>11, <2>1 DEF CopyInv
<1>12. \A w \in Rows \ committed : lines'[w] = 0
  BY <1>1, <1>6 DEF CopyInv
<1> QED
  BY <1>2, <1>4, <1>5, <1>10, <1>11, <1>12 DEF CopyInv

\* The cursor is set before the row only by a worker that had been ahead of it; and a
\* failure is accounted for.
LEMMA CopyEnd ==
  ASSUME Inv, SweepInv, CopyInv, NEW k \in Workers, WriteCursor(k) \/ SweepFail(k)
  PROVE  CopyInv'
<1> USE DEF Goto
<1>0. TypeOK /\ committed \subseteq Rows
  BY DEF Inv, TypeOK
<1>1. /\ UNCHANGED <<ledgerVars, lines, overlaps>>
      /\ sweep[k] # "idle" /\ sweep' = [sweep EXCEPT ![k] = "idle"]
      /\ last' = [last EXCEPT ![k] = None]
      /\ committed' = committed /\ stamp' = stamp
  BY DEF WriteCursor, SweepFail, ledgerVars, countVars
<1>2. OthersStay(k)
  BY <1>0, <1>1 DEF OthersStay, WriteCursor, SweepFail, TypeOK, countVars
<1>3. k \notin Own' /\ \A w : k \notin Ahead(w)'
  BY <1>0, <1>1 DEF Own, Ahead, TypeOK
<1>4. beside' \subseteq {j \in Workers : sweep'[j] = "query"}
  <2>1. beside' \subseteq beside \ {k}
    BY DEF WriteCursor, SweepFail, CopyInv, countVars
  <2> QED
    BY <1>0, <1>1, <2>1 DEF CopyInv, TypeOK
<1>5. /\ Cardinality(Own') <= Cardinality(Own) /\ Cardinality(Own) \in Nat
      /\ \A w : Cardinality(Ahead(w)') <= Cardinality(Ahead(w))
      /\ \A w : Cardinality(Ahead(w)) \in Nat
  BY <1>2, <1>3, Counts, OwnFinite
<1>6. CASE SweepFail(k)
  <2>1. Accounted' = Accounted + 1
    BY <1>0, <1>1, <1>6 DEF SweepFail, Accounted, TypeOK
  <2> QED
    BY <1>0, <1>1, <1>2, <1>4, <2>1, Counts, CopyMoves
<1>7. CASE WriteCursor(k)
  <2>1. Accounted' = Accounted + 0 /\ cursor' = last[k] /\ sweep[k] = "append"
    BY <1>0, <1>1, <1>7 DEF WriteCursor, Exported, Accounted, TypeOK, countVars
  <2>2. ASSUME NEW w \in committed, After(cursor, w)' PROVE Ahead(w) # {}
    <3>1. last[k] # None /\ k \in Own
      BY <2>1 DEF SweepInv, CopyInv, Own
    <3>2. Before(last[k], w)
      BY <1>1, <2>1, <2>2, <3>1 DEF After, Before
    <3>3. k \in Ahead(w)
      BY <3>1, <3>2 DEF Ahead
    <3> QED
      BY <3>3
  <2> QED
    BY <1>0, <1>1, <1>4, <1>5, <2>1, <2>2, CopyMoves
<1> QED
  BY <1>6, <1>7

LEMMA CopyStep ==
  ASSUME Inv, SweepInv, CopyInv, [Next]_vars
  PROVE  CopyInv'
<1>0. TypeOK
  BY DEF Inv
<1>1. ASSUME NEW w \in Rows, Read(w) \/ Insert(w) \/ Throw(w) PROVE CopyInv'
  BY <1>0, <1>1, OpenCalls, CopyKept
<1>2. ASSUME NEW w \in Rows, Commit(w) PROVE CopyInv'
  BY <1>2, CopyCommit
<1>3. ASSUME NEW k \in Workers, AnyWorkerStep(k) PROVE CopyInv'
  BY <1>3, CopyRead, CopyQuery, CopyAppend, CopyEnd DEF AnyWorkerStep, SweepStep
<1>4. CASE UNCHANGED vars
  BY <1>0, <1>4, CopyKept DEF vars, ledgerVars
<1> QED
  BY <1>1, <1>2, <1>3, <1>4 DEF Next, AnyWorkerStep

LEMMA CopyAlways == Spec => []CopyInv
<1>1. Inv /\ PlaceInv /\ CopyInv /\ [Next]_vars => CopyInv'
  BY CopyStep DEF PlaceInv
<1> QED
  BY <1>1, InitCopy, InvAlways, PlaceAlways, PTL DEF Spec

-----------------------------------------------------------------------------
(***************************************************************************)
(* The ledger implements AtomicLedger: a commit appends, and nothing else  *)
(* can be seen.                                                            *)
(***************************************************************************)

LEMMA InitAppends == Init => Appends!Init
  BY DEF Init, Appends!Init, Visible

\* The commit of a row appends it: what its transaction read is the whole chain still.
LEMMA CommitAppends ==
  ASSUME Inv, NEW w \in Rows, Commit(w)
  PROVE  Appends!Append(w)
<1> USE AuditAssumption
<1>1. TypeOK /\ TenantOf \in [Rows -> Tenants]
  BY DEF Inv
<1>2. /\ w \notin committed /\ committed' = committed \cup {w}
      /\ UNCHANGED <<prev, stamp>> /\ pc[w] = "commit"
      /\ seen[w] = Ledger(TenantOf[w])
  BY DEF Inv, OpenInv, Commit, Serializable
<1>3. prev[w] \in Latest(seen[w]) /\ \A v \in seen[w] : stamp[v] <= stamp[w] + Skew
  BY <1>2 DEF Inv, OpenInv, StampInv
<1> DEFINE link == [v \in Rows |-> Visible(v, prev[v], None)]
           stamps == [v \in Rows |-> Visible(v, stamp[v], 0)]
<1>4. Appends!Chain(TenantOf[w]) = seen[w]
  BY <1>2 DEF Appends!Chain, Ledger
<1>5. \A v \in seen[w] : stamps[v] = stamp[v]
  BY <1>1, <1>2 DEF Ledger, Visible, TypeOK
<1>6. prev[w] \in Appends!Heads(TenantOf[w])
  BY <1>3, <1>4, <1>5 DEF Appends!Heads, Latest
<1>7. link' = [link EXCEPT ![w] = prev[w]]
  BY <1>2 DEF Visible
<1>8. stamps' = [stamps EXCEPT ![w] = stamp[w]]
  BY <1>2 DEF Visible
<1>9. /\ stamp[w] \in 0..MaxTime
      /\ \A v \in Appends!Chain(TenantOf[w]) : stamps[v] <= stamp[w] + Skew
  BY <1>1, <1>3, <1>4, <1>5 DEF TypeOK
<1> QED
  BY <1>2, <1>6, <1>7, <1>8, <1>9 DEF Appends!Append

\* What no reader sees: rows of open transactions, aborted ones, the sweeps.
LEMMA OthersAppendNothing ==
  ASSUME Inv, [Next]_vars, \A w \in Rows : ~ Commit(w)
  PROVE  UNCHANGED Appends!vars
<1> DEFINE link == [v \in Rows |-> Visible(v, prev[v], None)]
           stamps == [v \in Rows |-> Visible(v, stamp[v], 0)]
<1>0. TypeOK /\ \A v \in committed : pc[v] = "done"
  BY DEF Inv, OpenInv
<1>1. /\ committed' = committed
      /\ \A v \in committed : prev'[v] = prev[v] /\ stamp'[v] = stamp[v]
  <2>1. ASSUME NEW w \in Rows, Read(w) \/ Insert(w) \/ Throw(w)
        PROVE  /\ committed' = committed
               /\ \A v \in committed : prev'[v] = prev[v] /\ stamp'[v] = stamp[v]
    <3>1. w \notin committed /\ committed' = committed
      BY <1>0, <2>1 DEF Read, Insert, Throw
    <3>2. \A v \in Rows \ {w} : prev'[v] = prev[v] /\ stamp'[v] = stamp[v]
      BY <1>0, <2>1 DEF Read, Insert, Throw, TypeOK
    <3> QED
      BY <1>0, <3>1, <3>2 DEF TypeOK
  <2>2. CASE UNCHANGED ledgerVars
    BY <2>2 DEF ledgerVars
  <2> QED
    BY <2>1, <2>2, WorkersReadOnly DEF Next, AnyWorkerStep, vars
<1>2. link' = link /\ stamps' = stamps
  BY <1>1 DEF Visible
<1> QED
  BY <1>1, <1>2 DEF Appends!vars

LEMMA StepAppends == Inv /\ [Next]_vars => [Appends!Next]_(Appends!vars)
  BY CommitAppends, OthersAppendNothing DEF Appends!Next

-----------------------------------------------------------------------------
(***************************************************************************)
(* The theorems.                                                           *)
(***************************************************************************)

\* Every variable of the ledger and of the snapshot workers keeps its type.
THEOREM TypeCorrect == Spec => []TypeOK
  BY InvAlways, PTL DEF Inv

\* However far the clocks of the writers are apart, a row follows a committed row of its
\* own tenant that is ahead of it by no more than that: aborted transactions leave no
\* dangling hash.
THEOREM ChainIsAnchored == Spec => []Anchored
  BY InvAlways, PTL DEF Inv

\* For any rows, tenants and skew, what readers see of the ledger is a behaviour of
\* AtomicLedger: SERIALIZABLE, read, insert and commit are together one append.
THEOREM ImplementsAtomicLedger == Spec => AtomicAppends
  BY InitAppends, StepAppends, InvAlways, PTL DEF Spec, AtomicAppends, Appends!Spec

\* Under any interleaving of any number of calls, and for clocks as far apart as one
\* likes, each tenant's ledger is one chain, but behind rows stamped no later than the
\* row they follow.
THEOREM ChainForksOnlyBehindBackdated == Spec => []NoFork
  BY InvAlways, PTL DEF Inv

\* However many rows, tenants, workers, pages, faults and overlapping sweeps there are,
\* the cursor passes over no row that is in no file, but for one that a row of another
\* tenant, or one of the skew, had overtaken before it was committed.
THEOREM SnapshotHasNoGap == Spec => []NoGap
<1>1. Inv /\ PlaceInv => NoGap
  BY DEF PlaceInv, CopiedInv, OvertookInv, NoGap, Past
<1> QED
  BY <1>1, InvAlways, PlaceAlways, PTL

\* Whatever the workers do to each other's cursor, a row has one copy, and one more at
\* most for each sweep that failed, misread the cursor or began beside another.
THEOREM RepeatsAreAccountedFor == Spec => []RepeatsAccountedFor
<1>1. Inv /\ CopyInv => RepeatsAccountedFor
  <2> SUFFICES ASSUME Inv, CopyInv, NEW w \in Rows
               PROVE  lines[w] <= faults + overlaps + 1
    BY DEF RepeatsAccountedFor
  <2>1. lines[w] \in Nat /\ faults \in Nat /\ overlaps \in Nat
    BY DEF Inv, TypeOK
  <2>2. CASE w \in committed
    <3>1. /\ lines[w] + Cardinality(Ahead(w)) <= faults + overlaps + 1
          /\ Cardinality(Ahead(w)) \in Nat
      BY <2>2, OwnFinite DEF CopyInv, Accounted
    <3> QED
      BY <2>1, <3>1
  <2>3. CASE w \notin committed
    BY <2>1, <2>3 DEF CopyInv
  <2> QED
    BY <2>2, <2>3
<1> QED
  BY <1>1, InvAlways, CopyAlways, PTL
=============================================================================
