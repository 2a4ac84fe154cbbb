---------------------------- MODULE AtomicLedger ----------------------------
(***************************************************************************)
(* What the audit log promises its readers (README.md:55, "chained,        *)
(* append-only"): a row is appended in one step behind a row of its tenant *)
(* with the latest timestamp, its own lies behind no other of the tenant's *)
(* by more than the skew of the writers' clocks, and neither the row nor   *)
(* what it follows ever changes again.                                     *)
(***************************************************************************)
EXTENDS Integers

CONSTANTS
  Rows,
  TenantOf,
  None,
  Times,     \* the stamps there are
  Skew       \* how far a stamp may lie behind an earlier one

VARIABLES
  log,    \* rows of the table
  link,   \* the row each of them follows
  stamp   \* the time of each

vars == <<log, link, stamp>>

Init ==
  /\ log = {}
  /\ link = [w \in Rows |-> None]
  /\ stamp = [w \in Rows |-> 0]

Chain(t) == {w \in log : TenantOf[w] = t}

Heads(t) == IF Chain(t) = {} THEN {None}
            ELSE {w \in Chain(t) : \A v \in Chain(t) : stamp[v] <= stamp[w]}

Append(w) ==
  /\ w \notin log
  /\ log' = log \cup {w}
  /\ \E v \in Heads(TenantOf[w]) : link' = [link EXCEPT ![w] = v]
  /\ \E s \in Times :
       /\ \A v \in Chain(TenantOf[w]) : stamp[v] <= s + Skew
       /\ stamp' = [stamp EXCEPT ![w] = s]

Next == \E w \in Rows : Append(w)

Spec == Init /\ [][Next]_vars
=============================================================================
