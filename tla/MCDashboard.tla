------------------------------- MODULE MCDashboard ------------------------------
(* Instances of Dashboard for TLC. *)
EXTENDS Dashboard, TLC

(* A bound for all that happens from outside together: two clicks, or one  *)
(* and an error.                                                           *)
FewEvents == data' + errors' + expiries' + clicks' <= 2
===============================================================================
