----------------------------- MODULE MCWorkflow -----------------------------
(***************************************************************************)
(* Workflow on small instances: one task, which a single request creates.  *)
(***************************************************************************)
EXTENDS Workflow, TLC

CONSTANTS t1, q1, none

MCTaskOf == q1 :> t1
MCKeysOf == [h \in {} |-> <<>>]
=============================================================================
