---------------------------- MODULE MCServiceScan ----------------------------
(* scanECSServices alone, for TLC. *)
EXTENDS ServiceScan, TLC

CONSTANTS c1, c2

\* The services of two clusters, of one on two pages.
MCLayout == c1 :> <<{1}, {2}>> @@ c2 :> <<{3}>>
=============================================================================
