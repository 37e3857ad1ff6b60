---------------------------- MODULE MCPollScheduler ---------------------------
(* Instances of PollScheduler for TLC. *)
EXTENDS PollScheduler, TLC

CONSTANT MaxCalls      \* bound on the calls of one behaviour

(* The names of calls and goroutines mean nothing: the next one takes the  *)
(* first that is free.  (A symmetry set would not do beside liveness; what *)
(* is cut off are calls and choices of a name, to which no fairness        *)
(* applies.)                                                               *)
InOrder(S, free, taken) ==
    \A x \in S : free[x] /\ taken[x] => x = CHOOSE y \in S : free[y]

Calls == {r \in Requests : req[r] # "idle"} \cup {s \in Setters : setter[s] # "idle"}

FewCallsInOrder ==
    /\ Cardinality(Calls') <= MaxCalls
    /\ InOrder(Requests, [r \in Requests |-> req[r] = "idle"],
                         [r \in Requests |-> req'[r] # "idle"])
    /\ InOrder(Setters, [s \in Setters |-> setter[s] = "idle"],
                        [s \in Setters |-> setter'[s] # "idle"])
    /\ InOrder(Pollers, [g \in Pollers |-> poller[g] = "idle"],
                        [g \in Pollers |-> poller'[g] # "idle"])
===============================================================================
