--------------------------- MODULE TaskLifecycle ---------------------------
(***************************************************************************)
(* What the system promises about one task, whoever writes its status      *)
(* (docs/architecture.md:31, from the request to the operator): it is      *)
(* stored once; each turn it is given on the queue carries out one         *)
(* decision at most, with one external action at most; it is completed     *)
(* only on the strength of such a decision; and it expires only while it   *)
(* waits for a human.  Between those it may be reported as it is worked    *)
(* on, by any turn, in any order.                                          *)
(***************************************************************************)
EXTENDS Naturals

CONSTANTS
  Tasks,
  Turns     \* the deliveries of a task's job

VARIABLES
  status,    \* of each task
  taken,     \* turns whose decision was carried out, well or not
  answered,  \* those of them a task may be completed on
  actions    \* external actions taken for each task

vars == <<status, taken, answered, actions>>

Init ==
  /\ status = [t \in Tasks |-> "absent"]
  /\ taken = [t \in Tasks |-> {}]
  /\ answered = [t \in Tasks |-> {}]
  /\ actions = [t \in Tasks |-> 0]

Set(t, s) == status' = [status EXCEPT ![t] = s]

Store(t) ==
  /\ status[t] = "absent"
  /\ Set(t, "PENDING")
  /\ UNCHANGED <<taken, answered, actions>>

Report(t) ==
  /\ status[t] # "absent"
  /\ \E s \in {"PROCESSING", "AWAITING_HUMAN", "FAILED"} : Set(t, s)
  /\ UNCHANGED <<taken, answered, actions>>

Act(t, n) ==
  /\ status[t] # "absent"
  /\ n \notin taken[t]
  /\ taken' = [taken EXCEPT ![t] = @ \cup {n}]
  /\ answered' \in {answered, [answered EXCEPT ![t] = @ \cup {n}]}
  /\ actions' \in {actions, [actions EXCEPT ![t] = @ + 1]}
  /\ Set(t, "FAILED") \/ UNCHANGED status

Complete(t) ==
  /\ answered[t] # {}
  /\ Set(t, "COMPLETED")
  /\ UNCHANGED <<taken, answered, actions>>

Expire(t) ==
  /\ status[t] = "AWAITING_HUMAN"
  /\ Set(t, "EXPIRED")
  /\ UNCHANGED <<taken, answered, actions>>

Next ==
  \E t \in Tasks : \/ Store(t) \/ Report(t) \/ Complete(t) \/ Expire(t)
                   \/ \E n \in Turns : Act(t, n)

Spec == Init /\ [][Next]_vars
=============================================================================
