---------------------------- MODULE MCAuditChain ----------------------------
(***************************************************************************)
(* AuditChain on a small instance: which tenant each row is written for.   *)
(***************************************************************************)
EXTENDS AuditChain, TLC

CONSTANTS ta, tb, k1, k2, none

\* Ids are random: their order says nothing of the order of the calls.
MCRows == 1..3
\* Two calls for one tenant, one for another.
MCTenants == 1 :> ta @@ 2 :> ta @@ 3 :> tb
=============================================================================
