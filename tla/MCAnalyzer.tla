------------------------------- MODULE MCAnalyzer ------------------------------
(* Instances of Analyzer for TLC. *)
EXTENDS Analyzer, TLC

(* Two families of behaviours keep the run small.  In one a single         *)
(* container is sampled; in the other containers of any images come and go *)
(* and none is sampled, since images and bytes meet in no query, and the   *)
(* maintenance goroutine, which does not touch table containers, rests.    *)
First == CHOOSE id \in Ids : TRUE

OneSampled ==
    /\ \A id \in Ids : image[id] # NoImage /\ (created[id] # NotYet => id = First)
    /\ resets = 0 /\ faults = 0

ManyDeployed ==
    /\ now <= 2 /\ stage = "idle" /\ resets = 0 /\ faults = 0
    /\ \A id \in Ids : moved[id] = 0 /\ history[id] = <<>>

SampledOrDeployed == OneSampled \/ ManyDeployed
===============================================================================
