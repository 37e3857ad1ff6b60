-------------------------------- MODULE MCServe --------------------------------
(* Instances of Serve for TLC.  In 4 bits and with 3 nanoseconds to the    *)
(* second, 3 seconds overflow to a negative duration.                      *)
EXTENDS Serve

Layer(bind, sample, live) == [bind |-> bind, sample |-> sample, live |-> live]

MCFiles == {Layer("loopback", 2, 0), Layer("loopback", -1, Unset)}

MCEnvironments ==
    {[bind |-> "public", sample |-> 1, live |-> 3, user |-> TRUE, password |-> TRUE],
     [bind |-> Unset, sample |-> 0, live |-> 2, user |-> TRUE, password |-> FALSE]}

MCFlags == {[bind |-> bind] : bind \in {Unset, "public"}}
===============================================================================
