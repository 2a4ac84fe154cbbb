----------------------------- MODULE AuditChain -----------------------------
(***************************************************************************)
(* The audit ledger: AuditLogger.logAction (db/audit.logger.ts) and the    *)
(* snapshot workers that copy it to files                                  *)
(* (workers/audit-snapshot.worker.ts).                                     *)
(*                                                                         *)
(* logAction reads the tenant's latest row and inserts its successor in    *)
(* one SERIALIZABLE transaction.  The database lets such a transaction     *)
(* commit only when no row its read would have returned was committed      *)
(* meanwhile; otherwise it is aborted, as it may be for any other reason,  *)
(* and logAction throws.  Hashes are abstract: previousHash is the row it  *)
(* was taken from.                                                         *)
(*                                                                         *)
(* A row gets its timestamp (@default(now())) before it becomes visible,   *)
(* from its process or from the start of its transaction, so rows are not  *)
(* stamped in the order they are inserted in.  Skew says by how much a     *)
(* stamp may lie behind one that was given before it; with Skew = MaxTime  *)
(* stamps are arbitrary.                                                   *)
(*                                                                         *)
(* Each process has a snapshot worker.  isRunning keeps a worker from      *)
(* sweeping twice at a time, but workers that run in one directory share   *)
(* the files and the cursor.                                               *)
(***************************************************************************)
EXTENDS Integers, FiniteSets

CONSTANTS
  Tenants,
  Rows,         \* ids, one for each call of logAction
  TenantOf,     \* the tenant each call logs for
  Workers,      \* snapshot workers that share a directory
  None,         \* previousHash of a first row; the absent cursor
  MaxTime,      \* bound on the timestamps
  Skew,         \* how far a timestamp may lie behind an earlier one
  Batch,        \* rows a sweep takes at most
  DayLength,    \* timestamps that go to one file
  MaxFaults,    \* bound on failed sweeps and unread cursors
  MaxOverlaps   \* bound on sweeps that begin beside another

ASSUME AuditAssumption ==
  /\ Rows \subseteq Nat /\ IsFiniteSet(Rows)
  /\ TenantOf \in [Rows -> Tenants]
  /\ IsFiniteSet(Workers)
  /\ None \notin Rows
  /\ MaxTime \in Nat /\ Skew \in Nat /\ MaxFaults \in Nat /\ MaxOverlaps \in Nat
  /\ Batch \in Nat \ {0} /\ DayLength \in Nat \ {0}

VARIABLES
  pc,         \* next await of each logAction
  seen,       \* the tenant's rows visible to each transaction
  prev,       \* previousHash of each row
  stamp,      \* timestamp of each row
  committed,  \* rows of the AuditLog table
  cursor,     \* the row .cursor names
  sweep,      \* next await of each worker
  from,       \* the cursor each of them has read
  batch,      \* rows each of them has still to append
  last,       \* the last row of each one's page, None when it has none
  lines,      \* copies of each row in the snapshot files
  beside,     \* history: workers that began a sweep beside another's
  overtook,   \* history: places a sweep had reached when a row before them was committed
  overlaps,   \* history: sweeps that began beside another and took a page
  faults      \* history: sweeps that failed or could not read the cursor

ledgerVars == <<pc, seen, prev, stamp, committed>>
fileVars   == <<cursor, lines>>
workerVars == <<sweep, from, batch, last>>
countVars  == <<beside, overlaps, faults>>
sweepVars  == <<fileVars, workerVars, countVars>>
vars == <<ledgerVars, sweepVars, overtook>>

TypeOK ==
  /\ pc \in [Rows -> {"idle", "insert", "commit", "done", "threw"}]
  /\ seen \in [Rows -> SUBSET Rows]
  /\ prev \in [Rows -> Rows \cup {None}]
  /\ stamp \in [Rows -> 0..MaxTime]
  /\ committed \subseteq Rows
  /\ cursor \in Rows \cup {None}
  /\ sweep \in [Workers -> {"idle", "query", "append"}]
  /\ from \in [Workers -> Rows \cup {None}]
  /\ batch \in [Workers -> SUBSET Rows]
  /\ last \in [Workers -> Rows \cup {None}]
  /\ lines \in [Rows -> Nat]
  /\ beside \subseteq Workers
  /\ overtook \in [Rows -> SUBSET Rows]
  /\ overlaps \in Nat
  /\ faults \in Nat

Init ==
  /\ pc = [w \in Rows |-> "idle"]
  /\ seen = [w \in Rows |-> {}]
  /\ prev = [w \in Rows |-> None]
  /\ stamp = [w \in Rows |-> 0]
  /\ committed = {}
  /\ cursor = None
  /\ sweep = [k \in Workers |-> "idle"]
  /\ from = [k \in Workers |-> None]
  /\ batch = [k \in Workers |-> {}]
  /\ last = [k \in Workers |-> None]
  /\ lines = [w \in Rows |-> 0]
  /\ beside = {}
  /\ overtook = [w \in Rows |-> {}]
  /\ overlaps = 0
  /\ faults = 0

-----------------------------------------------------------------------------
(***************************************************************************)
(* logAction.                                                              *)
(***************************************************************************)

\* A wrong form of Ledger: the query has no tenant.
LedgerOfAll(t) == committed

Ledger(t) == {w \in committed : TenantOf[w] = t}

\* findFirst, orderBy timestamp desc: any row of the greatest timestamp.
Latest(S) == IF S = {} THEN {None} ELSE {w \in S : \A v \in S : stamp[v] <= stamp[w]}

Read(w) ==
  /\ pc[w] = "idle"
  /\ pc' = [pc EXCEPT ![w] = "insert"]
  /\ seen' = [seen EXCEPT ![w] = Ledger(TenantOf[w])]
  /\ \E v \in Latest(Ledger(TenantOf[w])) : prev' = [prev EXCEPT ![w] = v]
  /\ UNCHANGED <<stamp, committed, sweepVars, overtook>>

\* create; the timestamp is of the writer's clock or the start of its transaction.
Insert(w) ==
  /\ pc[w] = "insert"
  /\ pc' = [pc EXCEPT ![w] = "commit"]
  /\ \E time \in 0..MaxTime :
       /\ \A v \in Rows : stamp[v] <= time + Skew
       /\ stamp' = [stamp EXCEPT ![w] = time]
  /\ UNCHANGED <<seen, prev, committed, sweepVars, overtook>>

\* A wrong form of Serializable: the default isolation level.
SerializableNot(w) == TRUE

\* No other transaction of the tenant committed since this one's snapshot.
Serializable(w) == Ledger(TenantOf[w]) = seen[w]

\* orderBy timestamp asc, id asc.
Before(v, w) == stamp[v] < stamp[w] \/ (stamp[v] = stamp[w] /\ v < w)

\* The places sweeps have reached: what is committed before one of them is not seen from
\* there.
Reached == ({cursor} \cup {from[k] : k \in Workers} \cup {last[k] : k \in Workers}) \ {None}

Commit(w) ==
  /\ pc[w] = "commit"
  /\ Serializable(w)
  /\ pc' = [pc EXCEPT ![w] = "done"]
  /\ committed' = committed \cup {w}
  /\ seen' = [seen EXCEPT ![w] = {}]
  /\ overtook' = [overtook EXCEPT ![w] = {c \in Reached : Before(w, c)}]
  /\ UNCHANGED <<prev, stamp, sweepVars>>

\* A serialization failure, maxWait or timeout, a lost connection: no retry, and the row
\* is gone.
Throw(w) ==
  /\ pc[w] \in {"idle", "insert", "commit"}
  /\ pc' = [pc EXCEPT ![w] = "threw"]
  /\ seen' = [seen EXCEPT ![w] = {}]
  /\ prev' = [prev EXCEPT ![w] = None]
  /\ stamp' = [stamp EXCEPT ![w] = 0]
  /\ UNCHANGED <<committed, sweepVars, overtook>>

-----------------------------------------------------------------------------
(***************************************************************************)
(* runSweep of each worker.                                                *)
(***************************************************************************)

Goto(k, label) == sweep' = [sweep EXCEPT ![k] = label]

\* Another worker's sweep is under way.
Beside(k) == \E j \in Workers \ {k} : sweep[j] # "idle"

\* getLastCursor.
ReadCursor(k) ==
  /\ sweep[k] = "idle"
  /\ Beside(k) => overlaps + Cardinality(beside) < MaxOverlaps
  /\ Goto(k, "query")
  /\ from' = [from EXCEPT ![k] = cursor]
  /\ beside' = IF Beside(k) THEN beside \cup {k} ELSE beside
  /\ UNCHANGED <<ledgerVars, fileVars, batch, last, overlaps, faults, overtook>>

\* getLastCursor again: an error of the file, or what another worker has half written,
\* reads as no cursor.
MisreadCursor(k) ==
  /\ sweep[k] = "idle"
  /\ cursor # None
  /\ faults < MaxFaults
  /\ faults' = faults + 1
  /\ Goto(k, "query")
  /\ UNCHANGED <<ledgerVars, fileVars, from, batch, last, beside, overlaps, overtook>>

\* A wrong form of After: the row the cursor names is taken again.
AfterInclusive(c, w) == c = None \/ ~ Before(w, c)

\* The keyset condition: strictly after the (timestamp, id) of the cursor.
After(c, w) == c = None \/ Before(c, w)

\* The first Batch rows after the cursor.
Rest(k) == {w \in committed : After(from[k], w)}
Page(k) == {w \in Rest(k) : Cardinality({v \in Rest(k) : Before(v, w)}) < Batch}

\* findMany; with no rows the sweep is over.
QueryNothing(k) ==
  /\ sweep[k] = "query"
  /\ Rest(k) = {}
  /\ Goto(k, "idle")
  /\ from' = [from EXCEPT ![k] = None]
  /\ beside' = beside \ {k}
  /\ UNCHANGED <<ledgerVars, fileVars, batch, last, overlaps, faults, overtook>>

QueryPage(k) ==
  /\ sweep[k] = "query"
  /\ Page(k) # {}
  /\ Goto(k, "append")
  /\ from' = [from EXCEPT ![k] = None]
  /\ batch' = [batch EXCEPT ![k] = Page(k)]
  /\ \E w \in Page(k) : /\ \A v \in Page(k) \ {w} : Before(v, w)
                        /\ last' = [last EXCEPT ![k] = w]
  /\ overlaps' = IF k \in beside THEN overlaps + 1 ELSE overlaps
  /\ beside' = beside \ {k}
  /\ UNCHANGED <<ledgerVars, fileVars, faults, overtook>>

Day(w) == stamp[w] \div DayLength

\* appendFile to the file of the earliest day left.
AppendDay(k) ==
  LET group == {w \in batch[k] : \A v \in batch[k] : Day(w) <= Day(v)} IN
  /\ batch[k] # {}
  /\ batch' = [batch EXCEPT ![k] = @ \ group]
  /\ lines' = [w \in Rows |-> IF w \in group THEN lines[w] + 1 ELSE lines[w]]
  /\ UNCHANGED <<ledgerVars, cursor, sweep, from, last, countVars, overtook>>

\* A wrong form of Exported: the end of the table, not of the page.
ExportedAll(k) == CHOOSE w \in committed : \A v \in committed \ {w} : Before(v, w)

\* What updateCursor is given.
Exported(k) == last[k]

WriteCursor(k) ==
  /\ sweep[k] = "append"
  /\ batch[k] = {}
  /\ cursor' = Exported(k)
  /\ Goto(k, "idle")
  /\ last' = [last EXCEPT ![k] = None]
  /\ UNCHANGED <<ledgerVars, lines, from, batch, countVars, overtook>>

\* The query, an append or the cursor write fails, or the process dies: a half-written
\* .cursor reads as no cursor at all.
SweepFail(k) ==
  /\ sweep[k] # "idle"
  /\ faults < MaxFaults
  /\ faults' = faults + 1
  /\ cursor' \in IF sweep[k] = "append" /\ batch[k] = {} THEN {cursor, None} ELSE {cursor}
  /\ Goto(k, "idle")
  /\ from' = [from EXCEPT ![k] = None]
  /\ batch' = [batch EXCEPT ![k] = {}]
  /\ last' = [last EXCEPT ![k] = None]
  /\ beside' = beside \ {k}
  /\ UNCHANGED <<ledgerVars, lines, overlaps, overtook>>

-----------------------------------------------------------------------------
SweepStep(k) ==
  ReadCursor(k) \/ QueryNothing(k) \/ QueryPage(k) \/ AppendDay(k) \/ WriteCursor(k)

Next ==
  \/ \E w \in Rows : Read(w) \/ Insert(w) \/ Commit(w) \/ Throw(w)
  \/ \E k \in Workers : SweepStep(k) \/ MisreadCursor(k) \/ SweepFail(k)

Spec == Init /\ [][Next]_vars

\* setInterval runs the sweeps for ever, and their awaits return or throw.
FairSpec == Spec /\ \A k \in Workers : WF_vars(SweepStep(k))

-----------------------------------------------------------------------------
(***************************************************************************)
(* Properties.                                                             *)
(***************************************************************************)

\* The row is stamped no later than the one it follows, as far as the skew goes.
Backdated(w) == stamp[w] <= stamp[prev[w]] /\ stamp[prev[w]] <= stamp[w] + Skew

\* audit.logger.ts:25 "prevent Hash Chain Forks": no two rows of a tenant follow the
\* same row, and none but the first has no predecessor, whatever transactions overlap or
\* are aborted.  SERIALIZABLE does not give this alone: the latest row is found by its
\* timestamp, so behind a row stamped no later than its predecessor, which equal
\* milliseconds or clocks apart by the skew allow, the predecessor is extended again.
\* Nothing but that forks a chain.
NoFork ==
  \A v, w \in committed :
    TenantOf[v] = TenantOf[w] /\ v # w /\ prev[v] = prev[w] =>
      prev[v] # None /\ \E u \in {v, w} : Backdated(u)

\* A row's predecessor is a committed row of its own tenant: a chain can be walked back
\* to its first row, no row hangs on one that was rolled back, and time goes back along
\* it by no more than the skew.
Anchored ==
  \A w \in committed :
    prev[w] # None =>
      /\ prev[w] \in committed
      /\ TenantOf[prev[w]] = TenantOf[w]
      /\ stamp[prev[w]] <= stamp[w] + Skew

\* The ledger as its readers see it.
Visible(w, value, unset) == IF w \in committed THEN value ELSE unset

Appends == INSTANCE AtomicLedger WITH
             log   <- committed,
             link  <- [w \in Rows |-> Visible(w, prev[w], None)],
             stamp <- [w \in Rows |-> Visible(w, stamp[w], 0)],
             Times <- 0..MaxTime

\* README.md:55 "chained, append-only": through any number of open, aborted and overlapping
\* transactions the ledger is one to which whole rows are appended in one step, each
\* behind the row of its tenant with the latest timestamp, and nothing else ever happens
\* to it.
AtomicAppends == Appends!Spec

\* docs/architecture.md:62 "Continuously backs up hash chains": through pages, days,
\* failures, unread cursors and workers that set the cursor back, it stands behind no row
\* that is in no file, but for rows that were committed when some sweep had already read
\* past them.  Such a row was overtaken by one of another tenant or of one stamped later
\* by no more than the skew: SERIALIZABLE keeps the sweep from passing any other row of
\* a chain.
NoGap ==
  \A w \in committed :
    /\ cursor # None /\ ~ Before(cursor, w) => lines[w] > 0 \/ overtook[w] # {}
    /\ \A v \in overtook[w] : TenantOf[v] # TenantOf[w] \/ stamp[v] <= stamp[w] + Skew

\* docs/architecture.md:62 again: a row is copied again only on account of a sweep that
\* failed, that could not read the cursor, or that began beside another worker's, and
\* once at most for each of them.
RepeatsAccountedFor == \A w \in Rows : lines[w] <= faults + overlaps + 1

\* Every row that no sweep had passed when it was committed is eventually in a snapshot
\* file.
EveryRowCopied == \A w \in Rows : w \in committed /\ overtook[w] = {} ~> lines[w] > 0
=============================================================================
