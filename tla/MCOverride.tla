----------------------------- MODULE MCOverride -----------------------------
(***************************************************************************)
(* Override on small instances: who asks for what.                         *)
(***************************************************************************)
EXTENDS Override, TLC

CONSTANTS e1, a1, a2, a3, q1, q2, q3, q4, q5

\* Dual approval.
MCTwoOfN == e1 :> 2
MCOneOfN == e1 :> 1
\* Three administrators, one of them asking twice, on one escalation; q5 is a request
\* of another tenant.
MCAdminOf  == q1 :> a1 @@ q2 :> a1 @@ q3 :> a2 @@ q4 :> a3 @@ q5 :> a1
MCTargetOf == q1 :> e1 @@ q2 :> e1 @@ q3 :> e1 @@ q4 :> e1 @@ q5 :> e1
\* One administrator only.
MCOneAdmin  == q1 :> a1
MCOneTarget == q1 :> e1
=============================================================================
