------------------------- MODULE SingleUseExecution -------------------------
(***************************************************************************)
(* What approval promises about execution, with no callers, records or     *)
(* workers in it (docs/interfaces.md: an Operator only executes            *)
(* Covernor-approved tasks, without replay): an approved decision is       *)
(* claimed at most once and only before its token expires, the tool is     *)
(* started at most once and only after the claim, and the outside world    *)
(* changes at most once and only after the start.                          *)
(***************************************************************************)
EXTENDS Naturals

CONSTANTS Decisions, Approved

VARIABLES
  expired,   \* decisions whose approval has run out
  claimed,   \* decisions whose approval was used
  starts,    \* times each decision's tool was started
  changes    \* times the outside world changed for each decision

vars == <<expired, claimed, starts, changes>>

Init ==
  /\ expired = {}
  /\ claimed = {}
  /\ starts = [d \in Decisions |-> 0]
  /\ changes = [d \in Decisions |-> 0]

Expire(d) ==
  /\ expired' = expired \cup {d}
  /\ UNCHANGED <<claimed, starts, changes>>

Claim(d) ==
  /\ d \in Approved \ (claimed \cup expired)
  /\ claimed' = claimed \cup {d}
  /\ UNCHANGED <<expired, starts, changes>>

Start(d) ==
  /\ d \in claimed
  /\ starts[d] = 0
  /\ starts' = [starts EXCEPT ![d] = 1]
  /\ UNCHANGED <<expired, claimed, changes>>

Change(d) ==
  /\ starts[d] = 1
  /\ changes[d] = 0
  /\ changes' = [changes EXCEPT ![d] = 1]
  /\ UNCHANGED <<expired, claimed, starts>>

Next == \E d \in Decisions : Expire(d) \/ Claim(d) \/ Start(d) \/ Change(d)

Spec == Init /\ [][Next]_vars
=============================================================================
