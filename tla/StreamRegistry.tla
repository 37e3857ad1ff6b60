---------------------------- MODULE StreamRegistry ----------------------------
(***************************************************************************)
(* What the stream maps of docker.Watcher promise to the event thread and  *)
(* to the poller (internal/docker/watcher.go).                             *)
(*                                                                         *)
(* The event thread opens and closes one stats stream per container; the   *)
(* poller only asks whether a frame is cached.  Closing a stream drops its *)
(* cached frame at once, but the goroutine behind it may linger: until it  *)
(* has drained it can still publish one late frame, and when it exits it   *)
(* takes the container's cached frame with it, even a frame that belongs   *)
(* to a stream opened since.                                               *)
(*                                                                         *)
(* StatsStreams implements this specification with goroutines and contexts.*)
(***************************************************************************)
CONSTANT Ids           \* container identifiers

VARIABLES
    open,              \* containers with an entry in streamCancel
    draining,          \* containers with a goroutine whose entry is gone
    frames             \* containers with an entry in statsCache

registryVars == <<open, draining, frames>>

RegistryTypeOK ==
    /\ open \subseteq Ids
    /\ draining \subseteq Ids
    /\ frames \subseteq Ids

RegistryInit == open = {} /\ draining = {} /\ frames = {}

(* startStatsStream: a duplicate call changes nothing. *)
Open(id) ==
    /\ id \notin open
    /\ open' = open \cup {id}
    /\ UNCHANGED <<draining, frames>>

(* stopStatsStream closes one stream, resync all those not listed; the     *)
(* goroutines of some of them, lingering, are still alive afterwards.      *)
Close(closed) ==
    /\ closed \subseteq open
    /\ open' = open \ closed
    /\ frames' = frames \ closed
    /\ \E lingering \in SUBSET closed : draining' = draining \cup lingering

(* runStatsStream caches a decoded frame. *)
PublishFrame(id) ==
    /\ id \in open \cup draining
    /\ frames' = frames \cup {id}
    /\ UNCHANGED <<open, draining>>

(* A goroutine returns; its deferred call deletes the cached frame.  Other *)
(* goroutines of the same container may still be draining.                 *)
Drained(id) ==
    /\ id \in open \cup draining
    /\ frames' = frames \ {id}
    /\ draining' \in {draining, draining \ {id}}
    /\ UNCHANGED open

RegistryNext ==
    \/ \E id \in Ids : Open(id) \/ PublishFrame(id) \/ Drained(id)
    \/ \E closed \in SUBSET Ids : Close(closed)

RegistrySpec == RegistryInit /\ [][RegistryNext]_registryVars

===============================================================================
