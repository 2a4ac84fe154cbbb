------------------------------- MODULE Intake -------------------------------
(***************************************************************************)
(* How a task enters the system: createTask (api/controllers.ts) and       *)
(* receiveMetaWebhook (api/webhooks/meta.controller.ts).  Both store a row *)
(* under (tenantId, idempotencyKey), which is unique, and then put one job *)
(* on the queue (WorkflowCoordinator.processTask).                         *)
(*                                                                         *)
(* A request is one call of createTask; a call without a key is one whose  *)
(* key no other call has.  A delivery is one signed page webhook: it is    *)
(* answered 200 first, its events are then taken one after another, and    *)
(* the same event may come again in another delivery.                      *)
(***************************************************************************)
EXTENDS Integers, Sequences

CONSTANTS
  Tasks,       \* (tenantId, idempotencyKey), each with the task stored under it
  Requests,    \* calls of createTask
  TaskOf,      \* the key each request carries
  Deliveries,  \* calls of receiveMetaWebhook
  KeysOf,      \* the keys computed for the events of each delivery, in their order
  NoObjective  \* what stands for the key of an event no objective is made of

ASSUME IntakeAssumption ==
  /\ TaskOf \in [Requests -> Tasks]
  /\ NoObjective \notin Tasks
  /\ KeysOf \in [Deliveries -> Seq(Tasks \cup {NoObjective})]

VARIABLES
  request,   \* next await, or the answer, of each createTask
  delivery,  \* next await of each delivery
  position,  \* the event each delivery is at
  stale,     \* deliveries whose entries are more than five minutes old
  task,      \* Task.status, absent when there is no row
  jobs,      \* jobs enqueued for each task
  lost       \* history: tasks whose enqueue failed or died

hookVars   == <<delivery, position, stale>>
intakeVars == <<request, hookVars, jobs, lost>>

TaskStatus == {"absent", "PENDING", "PROCESSING", "AWAITING_HUMAN", "COMPLETED",
               "FAILED", "EXPIRED"}

IntakeTypeOK ==
  /\ request \in [Requests -> {"idle", "create", "enqueue", "started", "dropped",
                               "replayed", "error"}]
  /\ delivery \in [Deliveries -> {"idle", "event", "enqueue", "ended", "died"}]
  /\ position \in [Deliveries -> Nat \ {0}]
  /\ stale \subseteq Deliveries
  /\ task \in [Tasks -> TaskStatus]
  /\ jobs \in [Tasks -> Nat]
  /\ lost \subseteq Tasks

IntakeInit ==
  /\ request = [r \in Requests |-> "idle"]
  /\ delivery = [h \in Deliveries |-> "idle"]
  /\ position = [h \in Deliveries |-> 1]
  /\ stale = {}
  /\ task = [t \in Tasks |-> "absent"]
  /\ jobs = [t \in Tasks |-> 0]
  /\ lost = {}

-----------------------------------------------------------------------------
(***************************************************************************)
(* createTask.                                                             *)
(***************************************************************************)

Answer(r, label) ==
  /\ request' = [request EXCEPT ![r] = label]
  /\ UNCHANGED hookVars

\* findUnique on (tenantId, idempotencyKey).
Find(r) ==
  /\ request[r] = "idle"
  /\ Answer(r, IF task[TaskOf[r]] = "absent" THEN "create" ELSE "replayed")
  /\ UNCHANGED <<task, jobs, lost>>

\* A wrong form of Create: no unique constraint stands behind the lookup.
CreateUnchecked(r) ==
  /\ request[r] = "create"
  /\ task' = [task EXCEPT ![TaskOf[r]] = "PENDING"]
  /\ Answer(r, "enqueue")
  /\ UNCHANGED <<jobs, lost>>

\* The insert; P2002 leads to the replay answer.  processTask is called, not
\* awaited, and the 201 goes out.
Create(r) ==
  LET t == TaskOf[r] IN
  /\ request[r] = "create"
  /\ IF task[t] = "absent"
       THEN task' = [task EXCEPT ![t] = "PENDING"] /\ Answer(r, "enqueue")
       ELSE UNCHANGED task /\ Answer(r, "replayed")
  /\ UNCHANGED <<jobs, lost>>

Enqueue(r) ==
  /\ request[r] = "enqueue"
  /\ jobs' = [jobs EXCEPT ![TaskOf[r]] = @ + 1]
  /\ Answer(r, "started")
  /\ UNCHANGED <<task, lost>>

\* Redis refuses the job (only logged) or the process dies first.
EnqueueLost(r) ==
  /\ request[r] = "enqueue"
  /\ lost' = lost \cup {TaskOf[r]}
  /\ Answer(r, "dropped")
  /\ UNCHANGED <<task, jobs>>

\* A statement throws, or the process dies, before the row is there.
IntakeError(r) ==
  /\ request[r] \in {"idle", "create"}
  /\ Answer(r, "error")
  /\ UNCHANGED <<task, jobs, lost>>

-----------------------------------------------------------------------------
(***************************************************************************)
(* receiveMetaWebhook.                                                     *)
(***************************************************************************)

\* The delivery goes on at its next event, if there is one.
NextEvent(h) ==
  /\ position' = [position EXCEPT ![h] = @ + 1]
  /\ delivery' = [delivery EXCEPT ![h] = IF position[h] < Len(KeysOf[h]) THEN "event"
                                         ELSE "ended"]
  /\ UNCHANGED <<request, stale>>

\* The signature holds, the object is a page; 200 is sent before anything is stored.
Receive(h) ==
  /\ delivery[h] = "idle"
  /\ delivery' = [delivery EXCEPT ![h] = IF KeysOf[h] = <<>> THEN "ended" ELSE "event"]
  /\ UNCHANGED <<request, position, stale, task, jobs, lost>>

\* Five minutes since entry.time.
Outdate(h) ==
  /\ h \notin stale
  /\ stale' = stale \cup {h}
  /\ UNCHANGED <<request, delivery, position, task, jobs, lost>>

Skipped(h) == h \in stale \/ KeysOf[h][position[h]] = NoObjective

SkipEvent(h) ==
  /\ delivery[h] = "event"
  /\ Skipped(h)
  /\ NextEvent(h)
  /\ UNCHANGED <<task, jobs, lost>>

\* Wrong forms of StoreEvent: the row is stored and no job made; an error of one event
\* ends the delivery without a word.
StoreEventForgets(h) ==
  /\ delivery[h] = "event"
  /\ ~ Skipped(h)
  /\ task' = [task EXCEPT ![KeysOf[h][position[h]]] = IF @ = "absent" THEN "PENDING" ELSE @]
  /\ NextEvent(h)
  /\ UNCHANGED <<jobs, lost>>

StoreEventOnce(h) ==
  /\ delivery[h] = "event"
  /\ ~ Skipped(h)
  /\ LET t == KeysOf[h][position[h]] IN
       /\ task[t] = "absent"
       /\ task' = [task EXCEPT ![t] = "PENDING"]
       /\ delivery' = [delivery EXCEPT ![h] = "enqueue"]
       /\ UNCHANGED <<request, position, stale>>
  /\ UNCHANGED <<jobs, lost>>

\* task.create: a P2002 is an ignored duplicate, any other error is logged; both go on
\* with the next event.
StoreEvent(h) ==
  /\ delivery[h] = "event"
  /\ ~ Skipped(h)
  /\ LET t == KeysOf[h][position[h]] IN
       \/ /\ task[t] = "absent"
          /\ task' = [task EXCEPT ![t] = "PENDING"]
          /\ delivery' = [delivery EXCEPT ![h] = "enqueue"]
          /\ UNCHANGED <<request, position, stale>>
       \/ UNCHANGED task /\ NextEvent(h)
  /\ UNCHANGED <<jobs, lost>>

\* processTask is awaited here; what it throws is caught and logged.
EnqueueEvent(h) ==
  LET t == KeysOf[h][position[h]] IN
  /\ delivery[h] = "enqueue"
  /\ \/ jobs' = [jobs EXCEPT ![t] = @ + 1] /\ UNCHANGED lost
     \/ lost' = lost \cup {t} /\ UNCHANGED jobs
  /\ NextEvent(h)
  /\ UNCHANGED task

\* The process dies: nobody sends the delivery again, for it was answered.
DeliveryDies(h) ==
  /\ delivery[h] \in {"event", "enqueue"}
  /\ delivery' = [delivery EXCEPT ![h] = "died"]
  /\ lost' = IF delivery[h] = "enqueue" THEN lost \cup {KeysOf[h][position[h]]} ELSE lost
  /\ UNCHANGED <<request, position, stale, task, jobs>>

-----------------------------------------------------------------------------
RequestStep(r) ==
  Find(r) \/ Create(r) \/ Enqueue(r) \/ EnqueueLost(r) \/ IntakeError(r)

\* What a delivery does once it is received.
DeliveryStep(h) == SkipEvent(h) \/ StoreEvent(h) \/ EnqueueEvent(h)

IntakeNext ==
  \/ \E r \in Requests : RequestStep(r)
  \/ \E h \in Deliveries : Receive(h) \/ Outdate(h) \/ DeliveryStep(h) \/ DeliveryDies(h)

allIntakeVars == <<intakeVars, task>>

\* Awaits return or throw; nothing is assumed of the senders.
IntakeFairness ==
  /\ \A r \in Requests : WF_allIntakeVars(Find(r) \/ Create(r) \/ Enqueue(r))
  /\ \A h \in Deliveries : WF_allIntakeVars(DeliveryStep(h))

IntakeSpec == IntakeInit /\ [][IntakeNext]_allIntakeVars

FairIntakeSpec == IntakeSpec /\ IntakeFairness

-----------------------------------------------------------------------------
(***************************************************************************)
(* Properties.                                                             *)
(***************************************************************************)

Enqueuing(t) ==
  \/ \E r \in Requests : request[r] = "enqueue" /\ TaskOf[r] = t
  \/ \E h \in Deliveries : delivery[h] = "enqueue" /\ KeysOf[h][position[h]] = t

\* However requests and deliveries with one idempotency key overlap, are repeated or
\* die, a stored row has one fate: its job is being enqueued, was enqueued once, or was
\* lost with that one enqueue.  No second caller enqueues it, and none forgets it.
OneJobPerKey ==
  \A t \in Tasks :
    /\ jobs[t] <= 1
    /\ task[t] # "absent" <=> jobs[t] = 1 \/ t \in lost \/ Enqueuing(t)
    /\ jobs[t] = 1 => t \notin lost
    /\ Enqueuing(t) => jobs[t] = 0 /\ t \notin lost

\* A row that was stored gets its job, unless the very enqueue failed or died with its
\* process: no other path leaves a task PENDING that nobody will ever look at.
StoredIsQueued ==
  \A t \in Tasks : task[t] = "PENDING" ~> jobs[t] > 0 \/ t \in lost

\* A delivery ends whatever becomes of its single events: a duplicate, a store or queue
\* error does not keep the later ones from being looked at.
DeliveryEnds ==
  \A h \in Deliveries : delivery[h] = "event" ~> delivery[h] \in {"ended", "died"}
=============================================================================
