---------------------------- MODULE IntakeProofs ----------------------------
(***************************************************************************)
(* Proofs about Intake, for any requests, deliveries and keys.             *)
(***************************************************************************)
EXTENDS Intake, TLAPS

\* Who is about to enqueue the job of t.
RequestEnqueues(r, t) == request[r] = "enqueue" /\ TaskOf[r] = t
DeliveryEnqueues(h, t) == delivery[h] = "enqueue" /\ KeysOf[h][position[h]] = t

Enqueuers(t) ==
  {c \in {"request"} \X Requests : RequestEnqueues(c[2], t)}
    \cup {c \in {"delivery"} \X Deliveries : DeliveryEnqueues(c[2], t)}

\* A delivery that is at work is at one of its events, and enqueues only for a task.
AtEvent ==
  \A h \in Deliveries :
    /\ delivery[h] = "idle" => position[h] = 1
    /\ delivery[h] \in {"event", "enqueue"} => position[h] \in 1..Len(KeysOf[h])
    /\ delivery[h] = "enqueue" => KeysOf[h][position[h]] \in Tasks

\* A task is stored exactly when it was enqueued, was lost or has a caller that enqueues
\* it; these exclude each other, and the caller is one.
Fate(t) ==
  /\ jobs[t] <= 1
  /\ task[t] # "absent" <=> jobs[t] = 1 \/ t \in lost \/ Enqueuers(t) # {}
  /\ jobs[t] = 1 => t \notin lost
  /\ Enqueuers(t) # {} => jobs[t] = 0 /\ t \notin lost
  /\ \A b, c \in Enqueuers(t) : b = c

EnqueuesOnce == \A t \in Tasks : Fate(t)

IntakeInv == IntakeTypeOK /\ AtEvent /\ EnqueuesOnce

LEMMA IntakeInitInv == IntakeInit => IntakeInv
<1> SUFFICES ASSUME IntakeInit PROVE IntakeInv
  OBVIOUS
<1>1. IntakeTypeOK
  BY DEF IntakeInit, IntakeTypeOK, TaskStatus
<1>2. AtEvent
  BY DEF IntakeInit, AtEvent
<1>3. \A t : Enqueuers(t) = {}
  BY DEF IntakeInit, Enqueuers, RequestEnqueues, DeliveryEnqueues
<1>4. EnqueuesOnce
  <2> SUFFICES ASSUME NEW t \in Tasks PROVE Fate(t)
    BY DEF EnqueuesOnce
  <2>1. jobs[t] = 0 /\ task[t] = "absent" /\ lost = {}
    BY DEF IntakeInit
  <2>2. Enqueuers(t) = {}
    BY <1>3
  <2> QED
    BY <2>1, <2>2 DEF Fate
<1> QED
  BY <1>1, <1>2, <1>4 DEF IntakeInv

\* Whoever else writes Task.status never removes the row.
LEMMA LoopKeepsIntake ==
  ASSUME IntakeInv, UNCHANGED intakeVars, task' \in [Tasks -> TaskStatus],
         \A t \in Tasks : task'[t] = "absent" <=> task[t] = "absent"
  PROVE  IntakeInv'
<1>1. IntakeTypeOK'
  BY DEF IntakeInv, IntakeTypeOK, intakeVars, hookVars
<1>2. AtEvent'
  BY DEF IntakeInv, AtEvent, intakeVars, hookVars
<1>3. UNCHANGED <<jobs, lost>> /\ \A t : Enqueuers(t)' = Enqueuers(t)
  BY DEF Enqueuers, RequestEnqueues, DeliveryEnqueues, intakeVars, hookVars
<1>4. EnqueuesOnce'
  BY <1>3 DEF IntakeInv, EnqueuesOnce, Fate
<1> QED
  BY <1>1, <1>2, <1>4 DEF IntakeInv

\* What may become of the tasks in a step: nothing, and the same callers are to enqueue
\* them; one is stored by the caller who is then to enqueue it; that caller enqueues it,
\* or loses it.
LEMMA NothingStored ==
  ASSUME EnqueuesOnce, UNCHANGED <<task, jobs, lost>>,
         \A t \in Tasks : Enqueuers(t)' = Enqueuers(t)
  PROVE  EnqueuesOnce'
BY DEF EnqueuesOnce, Fate

LEMMA OneStored ==
  ASSUME IntakeTypeOK, EnqueuesOnce, NEW t \in Tasks, NEW c, task[t] = "absent",
         task' = [task EXCEPT ![t] = "PENDING"], UNCHANGED <<jobs, lost>>,
         \A u \in Tasks : Enqueuers(u)' = IF u = t THEN Enqueuers(u) \cup {c} ELSE Enqueuers(u)
  PROVE  EnqueuesOnce'
<1>1. \A u \in Tasks : task'[u] = IF u = t THEN "PENDING" ELSE task[u]
  BY DEF IntakeTypeOK
<1>2. jobs[t] = 0 /\ t \notin lost /\ Enqueuers(t) = {}
  BY DEF EnqueuesOnce, Fate, IntakeTypeOK
<1>3. Enqueuers(t)' = {c}
  BY <1>2
<1>4. Fate(t)'
  BY <1>1, <1>2, <1>3 DEF Fate
<1>5. \A u \in Tasks \ {t} : Fate(u)'
  BY <1>1 DEF EnqueuesOnce, Fate
<1> QED
  BY <1>4, <1>5 DEF EnqueuesOnce

LEMMA EnqueuesOneTask ==
  \A t, u : \A c \in Enqueuers(t) : c \in Enqueuers(u) => t = u
BY DEF Enqueuers, RequestEnqueues, DeliveryEnqueues

LEMMA OneLeaves ==
  ASSUME IntakeTypeOK, EnqueuesOnce, NEW t \in Tasks, NEW c \in Enqueuers(t),
         \/ jobs' = [jobs EXCEPT ![t] = jobs[t] + 1] /\ UNCHANGED lost
         \/ lost' = lost \cup {t} /\ UNCHANGED jobs,
         UNCHANGED task, \A u \in Tasks : Enqueuers(u)' = Enqueuers(u) \ {c}
  PROVE  EnqueuesOnce'
<1>1. /\ jobs[t] = 0 /\ t \notin lost /\ task[t] # "absent"
      /\ \A b \in Enqueuers(t) : b = c
  BY DEF EnqueuesOnce, Fate
<1>2. Enqueuers(t)' = {}
  BY <1>1
<1>3. \/ jobs'[t] = 1 /\ t \notin lost'
      \/ jobs'[t] = 0 /\ t \in lost'
  BY <1>1 DEF IntakeTypeOK
<1>4. Fate(t)'
  BY <1>1, <1>2, <1>3 DEF Fate
<1>5. ASSUME NEW u \in Tasks \ {t} PROVE Fate(u)'
  <2>1. jobs'[u] = jobs[u] /\ (u \in lost' <=> u \in lost)
    BY DEF IntakeTypeOK
  <2>2. Fate(u) /\ Enqueuers(u)' = Enqueuers(u)
    BY EnqueuesOneTask DEF EnqueuesOnce
  <2> QED
    BY <2>1, <2>2 DEF Fate
<1> QED
  BY <1>4, <1>5 DEF EnqueuesOnce

\* A request moves: it becomes the one that enqueues its task only by storing it.
LEMMA RequestMoves ==
  ASSUME IntakeInv, NEW r \in Requests, RequestStep(r)
  PROVE  IntakeInv'
<1> USE IntakeAssumption
<1> DEFINE t == TaskOf[r]
<1>0. IntakeTypeOK /\ t \in Tasks
  BY DEF IntakeInv
<1>1. UNCHANGED hookVars
  BY DEF RequestStep, Find, Create, Enqueue, EnqueueLost, IntakeError, Answer
<1>2. PICK label \in {"create", "enqueue", "started", "dropped", "replayed", "error"} :
        request' = [request EXCEPT ![r] = label]
  BY DEF RequestStep, Find, Create, Enqueue, EnqueueLost, IntakeError, Answer
<1>3. IntakeTypeOK'
  <2>1. request' \in [Requests -> {"idle", "create", "enqueue", "started", "dropped",
                                   "replayed", "error"}]
    BY <1>0, <1>2 DEF IntakeTypeOK
  <2>2. task' \in [Tasks -> TaskStatus]
    BY <1>0 DEF RequestStep, Find, Create, Enqueue, EnqueueLost, IntakeError, Answer,
                IntakeTypeOK, TaskStatus
  <2>3. jobs' \in [Tasks -> Nat] /\ lost' \subseteq Tasks
    BY <1>0 DEF RequestStep, Find, Create, Enqueue, EnqueueLost, IntakeError, Answer,
                IntakeTypeOK
  <2> QED
    BY <1>0, <1>1, <2>1, <2>2, <2>3 DEF IntakeTypeOK, hookVars
<1>4. AtEvent'
  BY <1>1 DEF IntakeInv, AtEvent, hookVars
<1>5. \A u \in Tasks :
        Enqueuers(u)' = IF label = "enqueue" /\ u = t THEN Enqueuers(u) \cup {<<"request", r>>}
                        ELSE Enqueuers(u) \ {<<"request", r>>}
  <2>1. \A q \in Requests : request'[q] = IF q = r THEN label ELSE request[q]
    BY <1>0, <1>2 DEF IntakeTypeOK
  <2>2. \A h, u : DeliveryEnqueues(h, u)' <=> DeliveryEnqueues(h, u)
    BY <1>1 DEF DeliveryEnqueues, hookVars
  <2>3. \A q \in Requests, u \in Tasks :
          RequestEnqueues(q, u)' <=>
            IF q = r THEN label = "enqueue" /\ u = t ELSE RequestEnqueues(q, u)
    BY <2>1 DEF RequestEnqueues
  <2> QED
    BY <2>2, <2>3 DEF Enqueuers
<1>6. \A u : request[r] # "enqueue" => <<"request", r>> \notin Enqueuers(u)
  BY DEF Enqueuers, RequestEnqueues
<1>7. CASE label = "enqueue"
  <2>1. /\ request[r] = "create" /\ task[t] = "absent"
        /\ task' = [task EXCEPT ![t] = "PENDING"] /\ UNCHANGED <<jobs, lost>>
    <3>1. request'[r] = "enqueue"
      BY <1>0, <1>2, <1>7 DEF IntakeTypeOK
    <3>2. ~ Find(r) /\ ~ Enqueue(r) /\ ~ EnqueueLost(r) /\ ~ IntakeError(r)
      BY <1>0, <3>1 DEF Find, Enqueue, EnqueueLost, IntakeError, Answer, IntakeTypeOK
    <3>3. Create(r)
      BY <3>2 DEF RequestStep
    <3>4. task[t] = "absent"
      BY <1>0, <3>1, <3>3 DEF Create, Answer, IntakeTypeOK
    <3> QED
      BY <3>3, <3>4 DEF Create
  <2> HIDE DEF t
  <2>2. \A u \in Tasks :
          Enqueuers(u)' = IF u = t THEN Enqueuers(u) \cup {<<"request", r>>} ELSE Enqueuers(u)
    BY <1>5, <1>6, <1>7, <2>1
  <2> QED
    BY <1>0, <1>3, <1>4, <2>1, <2>2, OneStored DEF IntakeInv
<1>8. CASE label \in {"started", "dropped"}
  <2>1. /\ request[r] = "enqueue" /\ UNCHANGED task
        /\ \/ jobs' = [jobs EXCEPT ![t] = jobs[t] + 1] /\ UNCHANGED lost
           \/ lost' = lost \cup {t} /\ UNCHANGED jobs
    <3>1. request'[r] = label
      BY <1>0, <1>2 DEF IntakeTypeOK
    <3>2. ~ Find(r) /\ ~ Create(r) /\ ~ IntakeError(r)
      BY <1>0, <1>8, <3>1 DEF Find, Create, IntakeError, Answer, IntakeTypeOK
    <3> QED
      BY <3>2 DEF RequestStep, Enqueue, EnqueueLost
  <2>2. <<"request", r>> \in Enqueuers(t)
    BY <2>1 DEF Enqueuers, RequestEnqueues
  <2>3. \A u \in Tasks : Enqueuers(u)' = Enqueuers(u) \ {<<"request", r>>}
    BY <1>5, <1>8
  <2> HIDE DEF t
  <2> QED
    BY <1>0, <1>3, <1>4, <2>1, <2>2, <2>3, OneLeaves DEF IntakeInv
<1>9. CASE label \in {"create", "replayed", "error"}
  <2>1. request[r] # "enqueue" /\ UNCHANGED <<task, jobs, lost>>
    <3>1. request'[r] = label
      BY <1>0, <1>2 DEF IntakeTypeOK
    <3>2. ~ Enqueue(r) /\ ~ EnqueueLost(r)
      BY <1>0, <1>9, <3>1 DEF Enqueue, EnqueueLost, Answer, IntakeTypeOK
    <3>3. Create(r) => UNCHANGED <<task, jobs, lost>>
      BY <1>0, <1>9, <3>1 DEF Create, Answer, IntakeTypeOK
    <3>4. request[r] # "enqueue"
      BY <3>2 DEF RequestStep, Find, Create, IntakeError
    <3> QED
      BY <3>2, <3>3, <3>4 DEF RequestStep, Find, IntakeError
  <2>2. \A u \in Tasks : Enqueuers(u)' = Enqueuers(u)
    BY <1>5, <1>6, <1>9, <2>1
  <2> QED
    BY <1>3, <1>4, <2>1, <2>2, NothingStored DEF IntakeInv
<1> QED
  BY <1>7, <1>8, <1>9

\* NextEvent leaves a delivery at an event of its own, about to enqueue nothing.
LEMMA NextEventKeeps ==
  ASSUME IntakeTypeOK, AtEvent, NEW h \in Deliveries,
         delivery[h] \in {"event", "enqueue"}, NextEvent(h)
  PROVE  /\ delivery' \in [Deliveries -> {"idle", "event", "enqueue", "ended", "died"}]
         /\ position' \in [Deliveries -> Nat \ {0}]
         /\ UNCHANGED <<request, stale>>
         /\ AtEvent'
         /\ \A u \in Tasks : Enqueuers(u)' = Enqueuers(u) \ {<<"delivery", h>>}
<1> USE IntakeAssumption
<1>1. /\ position' = [position EXCEPT ![h] = position[h] + 1]
      /\ delivery' = [delivery EXCEPT ![h] = IF position[h] < Len(KeysOf[h]) THEN "event"
                                             ELSE "ended"]
      /\ UNCHANGED <<request, stale>>
  BY DEF NextEvent
<1>2. /\ delivery' \in [Deliveries -> {"idle", "event", "enqueue", "ended", "died"}]
      /\ position' \in [Deliveries -> Nat \ {0}]
  BY <1>1 DEF IntakeTypeOK
<1>3. \A g \in Deliveries \ {h} : delivery'[g] = delivery[g] /\ position'[g] = position[g]
  BY <1>1 DEF IntakeTypeOK
<1>4. delivery'[h] # "enqueue"
  BY <1>1 DEF IntakeTypeOK
<1>5. delivery'[h] = "event" => position'[h] \in 1..Len(KeysOf[h])
  <2>1. position[h] \in Nat \ {0} /\ Len(KeysOf[h]) \in Nat
    BY DEF IntakeTypeOK
  <2>2. delivery'[h] = "event" => position[h] < Len(KeysOf[h])
    BY <1>1 DEF IntakeTypeOK
  <2>3. position'[h] = position[h] + 1
    BY <1>1 DEF IntakeTypeOK
  <2> QED
    BY <2>1, <2>2, <2>3
<1>6. delivery'[h] # "idle"
  BY <1>1 DEF IntakeTypeOK
<1>7. AtEvent'
  BY <1>3, <1>4, <1>5, <1>6 DEF AtEvent
<1>8. /\ \A r, u : RequestEnqueues(r, u)' <=> RequestEnqueues(r, u)
      /\ \A u : ~ DeliveryEnqueues(h, u)'
      /\ \A g \in Deliveries \ {h}, u \in Tasks : DeliveryEnqueues(g, u)' <=> DeliveryEnqueues(g, u)
  BY <1>1, <1>3, <1>4 DEF DeliveryEnqueues, RequestEnqueues
<1>9. \A u \in Tasks : Enqueuers(u)' = Enqueuers(u) \ {<<"delivery", h>>}
  BY <1>8 DEF Enqueuers
<1> QED
  BY <1>1, <1>2, <1>7, <1>9

\* Receive, Outdate and DeliveryDies: nothing is stored; what is to be enqueued when the
\* process dies is lost.
LEMMA DeliveryOpens ==
  ASSUME IntakeInv, NEW h \in Deliveries, Receive(h) \/ Outdate(h) \/ DeliveryDies(h)
  PROVE  IntakeInv'
<1> USE IntakeAssumption
<1> DEFINE t == KeysOf[h][position[h]]
<1>0. IntakeTypeOK /\ AtEvent
  BY DEF IntakeInv
<1>1. UNCHANGED <<request, position, task, jobs>>
  BY DEF Receive, Outdate, DeliveryDies
<1>2. PICK label \in {"event", "ended", "died", delivery[h]} :
        /\ delivery' = [delivery EXCEPT ![h] = label]
        /\ label = "event" => delivery[h] = "event" \/ (delivery[h] = "idle" /\ KeysOf[h] # <<>>)
  BY <1>0 DEF Receive, Outdate, DeliveryDies, IntakeTypeOK
<1>3. IntakeTypeOK'
  <2>1. stale' \subseteq Deliveries
    BY <1>0 DEF Receive, Outdate, DeliveryDies, IntakeTypeOK
  <2>2. lost' \subseteq Tasks
    BY <1>0 DEF Receive, Outdate, DeliveryDies, IntakeTypeOK, AtEvent
  <2>3. delivery' \in [Deliveries -> {"idle", "event", "enqueue", "ended", "died"}]
    BY <1>0, <1>2 DEF IntakeTypeOK
  <2> QED
    BY <1>0, <1>1, <2>1, <2>2, <2>3 DEF IntakeTypeOK
<1>4. AtEvent'
  <2>1. \A g \in Deliveries : delivery'[g] = IF g = h THEN label ELSE delivery[g]
    BY <1>0, <1>2 DEF IntakeTypeOK
  <2>2. KeysOf[h] # <<>> => 1 \in 1..Len(KeysOf[h])
    OBVIOUS
  <2> QED
    BY <1>0, <1>1, <1>2, <2>1, <2>2 DEF AtEvent
<1>5. CASE DeliveryDies(h) /\ delivery[h] = "enqueue"
  <2>1. t \in Tasks /\ lost' = lost \cup {t} /\ <<"delivery", h>> \in Enqueuers(t)
    BY <1>0, <1>5 DEF DeliveryDies, AtEvent, Enqueuers, DeliveryEnqueues
  <2>2. \A g \in Deliveries : delivery'[g] = IF g = h THEN "died" ELSE delivery[g]
    BY <1>0, <1>5 DEF DeliveryDies, IntakeTypeOK
  <2>3. \A g \in Deliveries, u \in Tasks :
          DeliveryEnqueues(g, u)' <=> DeliveryEnqueues(g, u) /\ g # h
    BY <1>1, <2>2 DEF DeliveryEnqueues
  <2>4. \A u \in Tasks : Enqueuers(u)' = Enqueuers(u) \ {<<"delivery", h>>}
    BY <1>1, <2>3 DEF Enqueuers, RequestEnqueues
  <2> HIDE DEF t
  <2> QED
    BY <1>0, <1>1, <1>3, <1>4, <2>1, <2>4, OneLeaves DEF IntakeInv
<1>6. CASE ~ (DeliveryDies(h) /\ delivery[h] = "enqueue")
  <2>1. UNCHANGED lost /\ (delivery'[h] = "enqueue" <=> delivery[h] = "enqueue")
    BY <1>0, <1>6 DEF Receive, Outdate, DeliveryDies, IntakeTypeOK
  <2>2. \A g \in Deliveries, u \in Tasks : DeliveryEnqueues(g, u)' <=> DeliveryEnqueues(g, u)
    BY <1>0, <1>1, <1>2, <2>1 DEF DeliveryEnqueues, IntakeTypeOK
  <2>3. \A u \in Tasks : Enqueuers(u)' = Enqueuers(u)
    BY <1>1, <2>2 DEF Enqueuers, RequestEnqueues
  <2> QED
    BY <1>1, <1>3, <1>4, <2>1, <2>3, NothingStored DEF IntakeInv
<1> QED
  BY <1>5, <1>6

\* A delivery takes an event: it begins to enqueue only what it has just stored.
LEMMA DeliveryMoves ==
  ASSUME IntakeInv, NEW h \in Deliveries, DeliveryStep(h)
  PROVE  IntakeInv'
<1> USE IntakeAssumption
<1> DEFINE t == KeysOf[h][position[h]]
<1>0. IntakeTypeOK /\ AtEvent
  BY DEF IntakeInv
<1>1. ASSUME SkipEvent(h) \/ StoreEvent(h), UNCHANGED task, NextEvent(h)
      PROVE  IntakeInv'
  <2>1. delivery[h] = "event" /\ UNCHANGED <<jobs, lost>>
    BY <1>1 DEF SkipEvent, StoreEvent
  <2>2. /\ IntakeTypeOK' /\ AtEvent'
        /\ \A u \in Tasks : Enqueuers(u)' = Enqueuers(u) \ {<<"delivery", h>>}
    BY <1>0, <1>1, <2>1, NextEventKeeps DEF IntakeTypeOK
  <2>3. \A u : <<"delivery", h>> \notin Enqueuers(u)
    BY <2>1 DEF Enqueuers, DeliveryEnqueues
  <2> QED
    BY <1>1, <2>1, <2>2, <2>3, NothingStored DEF IntakeInv
<1>2. ASSUME StoreEvent(h), ~ (UNCHANGED task /\ NextEvent(h))
      PROVE  IntakeInv'
  <2>1. /\ delivery[h] = "event" /\ ~ Skipped(h) /\ task[t] = "absent"
        /\ task' = [task EXCEPT ![t] = "PENDING"]
        /\ delivery' = [delivery EXCEPT ![h] = "enqueue"]
        /\ UNCHANGED <<request, position, stale, jobs, lost>>
    BY <1>2 DEF StoreEvent
  <2>2. t \in Tasks
    BY <1>0, <2>1 DEF AtEvent, Skipped
  <2>3. IntakeTypeOK'
    BY <1>0, <2>1, <2>2 DEF IntakeTypeOK, TaskStatus
  <2>4. \A g \in Deliveries : delivery'[g] = IF g = h THEN "enqueue" ELSE delivery[g]
    BY <1>0, <2>1 DEF IntakeTypeOK
  <2>5. AtEvent'
    BY <1>0, <2>1, <2>2, <2>4 DEF AtEvent
  <2>6. \A u \in Tasks :
          Enqueuers(u)' = IF u = t THEN Enqueuers(u) \cup {<<"delivery", h>>} ELSE Enqueuers(u)
    <3>1. \A r, u : RequestEnqueues(r, u)' <=> RequestEnqueues(r, u)
      BY <2>1 DEF RequestEnqueues
    <3>2. \A g \in Deliveries, u \in Tasks :
            /\ DeliveryEnqueues(g, u)' <=> IF g = h THEN u = t ELSE DeliveryEnqueues(g, u)
            /\ ~ DeliveryEnqueues(h, u)
      BY <2>1, <2>4 DEF DeliveryEnqueues
    <3> QED
      BY <3>1, <3>2 DEF Enqueuers
  <2> HIDE DEF t
  <2> QED
    BY <1>0, <2>1, <2>2, <2>3, <2>5, <2>6, OneStored DEF IntakeInv
<1>3. CASE EnqueueEvent(h)
  <2>1. /\ delivery[h] = "enqueue" /\ t \in Tasks /\ NextEvent(h) /\ UNCHANGED task
        /\ \/ jobs' = [jobs EXCEPT ![t] = jobs[t] + 1] /\ UNCHANGED lost
           \/ lost' = lost \cup {t} /\ UNCHANGED jobs
    BY <1>0, <1>3 DEF EnqueueEvent, AtEvent
  <2>2. /\ delivery' \in [Deliveries -> {"idle", "event", "enqueue", "ended", "died"}]
        /\ position' \in [Deliveries -> Nat \ {0}]
        /\ UNCHANGED <<request, stale>>
        /\ AtEvent'
        /\ \A u \in Tasks : Enqueuers(u)' = Enqueuers(u) \ {<<"delivery", h>>}
    BY <1>0, <2>1, NextEventKeeps
  <2>3. IntakeTypeOK'
    BY <1>0, <2>1, <2>2 DEF IntakeTypeOK
  <2>4. <<"delivery", h>> \in Enqueuers(t)
    BY <2>1 DEF Enqueuers, DeliveryEnqueues
  <2> HIDE DEF t
  <2> QED
    BY <1>0, <2>1, <2>2, <2>3, <2>4, OneLeaves DEF IntakeInv
<1> QED
  BY <1>1, <1>2, <1>3 DEF DeliveryStep, SkipEvent

LEMMA IntakeInvStep == IntakeInv /\ [IntakeNext]_allIntakeVars => IntakeInv'
<1> SUFFICES ASSUME IntakeInv, [IntakeNext]_allIntakeVars PROVE IntakeInv'
  OBVIOUS
<1>1. CASE UNCHANGED allIntakeVars
  <2>1. UNCHANGED intakeVars /\ task' = task
    BY <1>1 DEF allIntakeVars
  <2>2. task' \in [Tasks -> TaskStatus]
    BY <2>1 DEF IntakeInv, IntakeTypeOK
  <2> QED
    BY <2>1, <2>2, LoopKeepsIntake
<1>2. ASSUME NEW r \in Requests, RequestStep(r) PROVE IntakeInv'
  BY <1>2, RequestMoves
<1>3. ASSUME NEW h \in Deliveries,
             Receive(h) \/ Outdate(h) \/ DeliveryStep(h) \/ DeliveryDies(h)
      PROVE  IntakeInv'
  BY <1>3, DeliveryOpens, DeliveryMoves
<1> QED
  BY <1>1, <1>2, <1>3 DEF IntakeNext

LEMMA IntakeInvAlways == IntakeSpec => []IntakeInv
  BY IntakeInitInv, IntakeInvStep, PTL DEF IntakeSpec

LEMMA FateIsOneJob == IntakeInv => OneJobPerKey
<1> SUFFICES ASSUME IntakeInv, NEW t \in Tasks PROVE Enqueuing(t) <=> Enqueuers(t) # {}
  BY DEF IntakeInv, EnqueuesOnce, Fate, OneJobPerKey
<1>1. Enqueuing(t) => Enqueuers(t) # {}
  <2>1. ASSUME NEW r \in Requests, RequestEnqueues(r, t) PROVE <<"request", r>> \in Enqueuers(t)
    BY <2>1 DEF Enqueuers
  <2>2. ASSUME NEW h \in Deliveries, DeliveryEnqueues(h, t)
        PROVE  <<"delivery", h>> \in Enqueuers(t)
    BY <2>2 DEF Enqueuers
  <2> QED
    BY <2>1, <2>2 DEF Enqueuing, RequestEnqueues, DeliveryEnqueues
<1>2. Enqueuers(t) # {} => Enqueuing(t)
  BY DEF Enqueuers, Enqueuing, RequestEnqueues, DeliveryEnqueues
<1> QED
  BY <1>1, <1>2

-----------------------------------------------------------------------------
(***************************************************************************)
(* The theorems.                                                           *)
(***************************************************************************)

\* Every variable of the intake keeps its type.
THEOREM IntakeTypeCorrect == IntakeSpec => []IntakeTypeOK
  BY IntakeInvAlways, PTL DEF IntakeInv

\* However many requests and deliveries carry one key, overlap, repeat or die, its row has
\* one fate: it waits for the one caller who stored it, its job was enqueued once, or it
\* was lost with that one enqueue.
THEOREM JobEnqueuedOnce == IntakeSpec => []OneJobPerKey
  BY FateIsOneJob, IntakeInvAlways, PTL
=============================================================================
