----------------------------- MODULE MCOperator -----------------------------
(***************************************************************************)
(* Operator on small instances: which call is given which decision.        *)
(***************************************************************************)
EXTENDS Operator, TLC

CONSTANTS d1, d2, c1, c2, c3, r1, r2

\* Two overlapping calls for d1 and one for d2.
MCTwoDecisions == c1 :> d1 @@ c2 :> d1 @@ c3 :> d2
\* One call for each decision.
MCCallEach     == c1 :> d1 @@ c2 :> d2
MCOneCall      == c1 :> d1
MCTwoRollbacks == r1 :> d1 @@ r2 :> d1
MCOneRollback  == r1 :> d1
MCNoRollback   == [r \in {} |-> d1]
MCSymmetry     == Permutations({c1, c2}) \cup Permutations({r1, r2})
=============================================================================
