------------------------------- MODULE MCRunLog -------------------------------
(* RunLog with small bounds, which each configuration sets.                *)
EXTENDS RunLog
===============================================================================
