---------------------------- MODULE MCStatsStreams ----------------------------
(* Instances of StatsStreams for TLC. *)
EXTENDS StatsStreams, TLC
===============================================================================
