----------------------------- MODULE MCCounters -----------------------------
(***************************************************************************)
(* Counters on a small instance: one window, and one tenant's jobs.        *)
(***************************************************************************)
EXTENDS Counters, TLC

CONSTANTS w1, k1, j1, j2, j3

MCQuotaOf == j1 :> k1 @@ j2 :> k1 @@ j3 :> k1
=============================================================================
