-------------------------- MODULE MCPolicyRegistry --------------------------
(***************************************************************************)
(* PolicyRegistry on a small instance: who asks for which version.         *)
(***************************************************************************)
EXTENDS PolicyRegistry, TLC

CONSTANTS v1, v2, v3, e1, e2, e3, r1, r2, r3, none

\* Processes of a rolling deployment bring different files.
MCFileOf == e1 :> v1 @@ e2 :> v2 @@ e3 :> v1
\* Administrators go back to two different versions, one of them twice.
MCTargetOf == r1 :> v2 @@ r2 :> v3 @@ r3 :> v2
=============================================================================
