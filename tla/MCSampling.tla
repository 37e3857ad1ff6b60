------------------------------ MODULE MCSampling ------------------------------
(* Instances of Sampling for TLC. *)
EXTENDS Sampling, TLC

NetSymmetry == Permutations(Nets)
===============================================================================
