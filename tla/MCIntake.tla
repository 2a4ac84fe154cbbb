------------------------------ MODULE MCIntake ------------------------------
(***************************************************************************)
(* Intake on a small instance: who carries which key.                      *)
(***************************************************************************)
EXTENDS Intake, TLC

CONSTANTS t1, t2, t3, q1, q2, h1, h2, none

\* Two clients send one key at once.  A page's events are another tenant's.
MCTaskOf == q1 :> t1 @@ q2 :> t1
\* The first delivery's two events come again in the second, in the other order and
\* with one that has no objective.
MCKeysOf == h1 :> <<t3, t2>> @@ h2 :> <<t2, none, t3>>
=============================================================================
