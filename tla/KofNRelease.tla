---------------------------- MODULE KofNRelease ----------------------------
(***************************************************************************)
(* What dual control promises about an escalated decision (README, "K-of-N *)
(* dual approval with anti-replay"): it is released at most once, and only *)
(* when as many distinct administrators as it requires have signed.        *)
(***************************************************************************)
EXTENDS Naturals

CONSTANTS
  Escalations,
  Admins,
  Quorums       \* for each escalation, the sets of administrators large enough for it

VARIABLES
  signatures,  \* administrators who have signed each escalation
  releases     \* times each escalation was released

vars == <<signatures, releases>>

Init ==
  /\ signatures = [e \in Escalations |-> {}]
  /\ releases = [e \in Escalations |-> 0]

Sign(e, a) ==
  /\ a \notin signatures[e]
  /\ signatures' = [signatures EXCEPT ![e] = @ \cup {a}]
  /\ UNCHANGED releases

Release(e) ==
  /\ releases[e] = 0
  /\ signatures[e] \in Quorums[e]
  /\ releases' = [releases EXCEPT ![e] = 1]
  /\ UNCHANGED signatures

Next == \E e \in Escalations : Release(e) \/ \E a \in Admins : Sign(e, a)

Spec == Init /\ [][Next]_vars
=============================================================================
