------------------------------ MODULE Counters ------------------------------
(***************************************************************************)
(* The Redis counters.  One Lua script, INCR and an EXPIRE when the result *)
(* is 1, stands in four places.  Three count what is let through in a      *)
(* window: the rate limit of the API (api/rate-limiter.middleware.ts), the *)
(* velocity of transfers (core/governor/governor.service.ts) and the rate  *)
(* of each tool (core/operator/operator.service.ts).  The fourth counts    *)
(* the jobs a tenant has running (core/workflow/coordinator.service.ts)    *)
(* and is decremented when a run ends.                                     *)
(*                                                                         *)
(* Time passes in ticks.  A key whose time to live runs out is gone and    *)
(* counts 0; DECR makes a key without one.                                 *)
(***************************************************************************)
EXTENDS Integers, FiniteSets

CONSTANTS
  Windows,        \* keys of the first kind
  Quotas,         \* keys of the second kind: one for each tenant
  Jobs,           \* jobs on the workflow queue
  QuotaOf,        \* the key each job counts for
  Limit,          \* maxRequests, the velocity limits, rateLimitPerMinute
  MaxConcurrent,  \* MAX_CONCURRENT
  Lifetime,       \* ARGV[1], in ticks
  MaxFaults       \* bound on the runs that die or throw

Keys == Windows \cup Quotas

ASSUME CountersAssumption ==
  /\ Windows \cap Quotas = {}
  /\ IsFiniteSet(Jobs)
  /\ QuotaOf \in [Jobs -> Quotas]
  /\ Limit \in Nat \ {0} /\ MaxConcurrent \in Nat \ {0} /\ Lifetime \in Nat \ {0}
  /\ MaxFaults \in Nat

VARIABLES
  count,     \* the value of each key
  ttl,       \* ticks it has still to live, 0 when it has no end
  recent,    \* history: the calls each window let through in the last Lifetime ticks, each
             \* with its number (what INCR returned) and its age in ticks
  run,       \* where each job stands
  faults,
  outlived   \* history: quota keys that ran out while a job had its place

vars == <<count, ttl, recent, run, faults, outlived>>

Holding == {"refused", "running", "leaving"}

Holders(k) == {j \in Jobs : QuotaOf[j] = k /\ run[j] \in Holding}
Running(k) == {j \in Jobs : QuotaOf[j] = k /\ run[j] = "running"}

TypeOK ==
  /\ count \in [Keys -> Int]
  /\ ttl \in [Keys -> 0..Lifetime]
  /\ recent \in [Windows -> SUBSET ((1..Limit) \X (0..(Lifetime - 1)))]
  /\ run \in [Jobs -> {"queued", "done"} \cup Holding]
  /\ faults \in 0..MaxFaults
  /\ outlived \subseteq Quotas

Init ==
  /\ count = [k \in Keys |-> 0]
  /\ ttl = [k \in Keys |-> 0]
  /\ recent = [k \in Windows |-> {}]
  /\ run = [j \in Jobs |-> "queued"]
  /\ faults = 0
  /\ outlived = {}

-----------------------------------------------------------------------------
\* Wrong forms of Armed: EXPIRE at every call; EXPIRE as a second call, which may fail.
ArmedAlways(k, n) == {Lifetime}
ArmedApart(k, n)  == IF n = 1 THEN {Lifetime, ttl[k]} ELSE {ttl[k]}

\* The key's time to live when INCR has made it n.
Armed(k, n) == IF n = 1 THEN {Lifetime} ELSE {ttl[k]}

\* INCR and EXPIRE, as one script.
Script(k, n) ==
  /\ count' = [count EXCEPT ![k] = n]
  /\ \E left \in Armed(k, n) : ttl' = [ttl EXCEPT ![k] = left]

\* The least value that is refused stands for all beyond it.
Counted(k) == IF count[k] > Limit THEN count[k] ELSE count[k] + 1

\* A wrong form of Passes: the limit is compared with the value before INCR.
PassesBefore(n) == n - 1 <= Limit

Passes(n) == n <= Limit

\* A call passes when its count is within the limit; a Redis error, after the script
\* or before it, fails closed.
Hit(k) ==
  /\ Script(k, Counted(k))
  /\ \/ Passes(count'[k]) /\ recent' = [recent EXCEPT ![k] = @ \cup {<<count'[k], 0>>}]
     \/ UNCHANGED recent
  /\ UNCHANGED <<run, faults, outlived>>

-----------------------------------------------------------------------------
(***************************************************************************)
(* The quota of running jobs.                                              *)
(***************************************************************************)

Goto(j, label) == run' = [run EXCEPT ![j] = label]

Decrement(j) == count' = [count EXCEPT ![QuotaOf[j]] = @ - 1]

\* The worker takes a job from the queue, as it does again after each backoff.
Take(j) ==
  LET n == count[QuotaOf[j]] + 1 IN
  /\ run[j] = "queued"
  /\ Script(QuotaOf[j], n)
  /\ Goto(j, IF n > MaxConcurrent THEN "refused" ELSE "running")
  /\ UNCHANGED <<recent, faults, outlived>>

\* Over the quota: decr, then RATE_LIMIT_EXCEEDED sends the job back.
PutBack(j) ==
  /\ run[j] = "refused"
  /\ Decrement(j)
  /\ Goto(j, "queued")
  /\ UNCHANGED <<ttl, recent, faults, outlived>>

\* A wrong form of End: the place is given back before the loop is over.
EndEarly(j) ==
  /\ run[j] = "running"
  /\ Decrement(j)
  /\ UNCHANGED <<run, ttl, recent, faults, outlived>>

\* _executeTaskLoop returns or throws; the finally clause comes next.
End(j) ==
  /\ run[j] = "running"
  /\ Goto(j, "leaving")
  /\ UNCHANGED <<count, ttl, recent, faults, outlived>>

Leave(j) ==
  /\ run[j] = "leaving"
  /\ Decrement(j)
  /\ Goto(j, "done")
  /\ UNCHANGED <<ttl, recent, faults, outlived>>

\* The same, when the loop threw: BullMQ tries again.
LeaveThrown(j) ==
  /\ run[j] = "leaving"
  /\ faults < MaxFaults
  /\ faults' = faults + 1
  /\ Decrement(j)
  /\ Goto(j, "queued")
  /\ UNCHANGED <<ttl, recent, outlived>>

\* The process dies with the job in its hands: the stalled job is delivered again, and
\* nobody decrements for the run that died.
Die(j) ==
  /\ run[j] \in Holding
  /\ faults < MaxFaults
  /\ faults' = faults + 1
  /\ Goto(j, "queued")
  /\ UNCHANGED <<count, ttl, recent, outlived>>

-----------------------------------------------------------------------------
Ending == {k \in Keys : ttl[k] = 1}

\* A tick later: the calls of Lifetime ticks ago are no longer recent.
Aged(S) == {<<c[1], c[2] + 1>> : c \in {d \in S : d[2] < Lifetime - 1}}

Tick ==
  /\ ttl' = [k \in Keys |-> IF ttl[k] > 0 THEN ttl[k] - 1 ELSE 0]
  /\ count' = [k \in Keys |-> IF k \in Ending THEN 0 ELSE count[k]]
  /\ recent' = [k \in Windows |-> Aged(recent[k])]
  /\ outlived' = outlived \cup {k \in Quotas \cap Ending : Holders(k) # {}}
  /\ UNCHANGED <<run, faults>>

JobStep(j) == Take(j) \/ PutBack(j) \/ End(j) \/ Leave(j) \/ LeaveThrown(j)

Next ==
  \/ \E k \in Windows : Hit(k)
  \/ \E j \in Jobs : JobStep(j) \/ Die(j)
  \/ Tick

Spec == Init /\ [][Next]_vars

\* Time passes, the loop of a job ends (module Workflow) and BullMQ tries a refused job
\* again: its fifty attempts with exponential backoff outlast every key.
FairSpec == Spec /\ WF_vars(Tick) /\ \A j \in Jobs : WF_vars(JobStep(j))

-----------------------------------------------------------------------------
(***************************************************************************)
(* Properties.                                                             *)
(***************************************************************************)

\* governor.service.ts:175 "prevent INCR/EXPIRE race condition where key never expires":
\* a key that counts something runs out by itself, also after a process that died with
\* a place, and although DECR may have made the key without an end.
PositiveRunsOut == \A k \in Keys : count[k] > 0 => ttl[k] > 0

\* The windows are not the sliding ones of governor.service.ts:168, but around any edge they
\* let through what two of them allow at most: in no stretch of Lifetime ticks more than
\* 2 * Limit.
SlidingBound == \A k \in Windows : Cardinality(recent[k]) <= 2 * Limit

\* docs/rules.md:20 "limited per tenant": no tenant has more than MaxConcurrent jobs
\* running, whatever jobs were refused, thrown or lost before, unless one of its runs
\* outlived the key.
QuotaHeld == \A k \in Quotas \ outlived : Cardinality(Running(k)) <= MaxConcurrent

\* A caller that was refused, and goes on trying, is let in again.
Reopens == \A k \in Windows : count[k] > Limit ~> count[k] <= Limit

\* A place that was never given back does not keep a tenant's jobs waiting for ever.
EveryJobEnds == \A j \in Jobs : run[j] = "queued" ~> run[j] = "done"
=============================================================================
