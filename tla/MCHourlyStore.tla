----------------------------- MODULE MCHourlyStore -----------------------------
(* Instances of HourlyStore for TLC. *)
EXTENDS HourlyStore
===============================================================================
