--------------------------- MODULE MCDistribution ---------------------------
(***************************************************************************)
(* Instance of Distribution for TLC: two targets, and one pass beside the  *)
(* sweep.                                                                  *)
(***************************************************************************)
EXTENDS Distribution

CONSTANTS t1, t2, now
OnePass == {now}
TwoTargets == {t1, t2}
=============================================================================
