----------------------------- MODULE WatcherProofs -----------------------------
(***************************************************************************)
(* Proofs about Watcher, for any set of containers, any bounds and any     *)
(* failures: only destroyed containers are marked removed, and only a      *)
(* stale poll brings such a row back.                                      *)
(***************************************************************************)
EXTENDS Watcher, TLAPS

(* The daemon reports a destruction only when it has happened, and an id   *)
(* is never used again.                                                    *)
DestroyedIsGone ==
    \A i \in 1..Len(log) : log[i].action = "destroy" => docker[log[i].id] = "gone"

(* What the event thread is about to write never concerns a removed row:   *)
(* it has inspected the container, or listed it, after the last "destroy"  *)
(* it handled.                                                             *)
WritesAreFresh ==
    /\ thread \in {"inspect", "upsert", "stream"} => since # 0
    /\ thread = "inspect" => msg.action # "destroy"
    /\ thread = "upsert" /\ msg.action # "destroy" => rows[msg.id] # "removed"
    /\ thread \in {"close", "resync"} => \A id \in todo : rows[id] # "removed"

WatcherInv == TypeOK /\ RemovedIsGone /\ DestroyedIsGone /\ WritesAreFresh

-------------------------------------------------------------------------------
(* Facts about the helpers. *)

LEMMA NoListIsList == NoList \in Lists /\ DOMAIN NoList = {}
  BY DEF NoList, Lists

LEMMA CurrentListType ==
    ASSUME TypeOK
    PROVE  /\ CurrentList \in Lists
           /\ DOMAIN CurrentList \subseteq Ids
           /\ \A id \in DOMAIN CurrentList : docker[id] \in {"running", "paused"}
<1>. DEFINE up == {i \in Ids : docker[i] \in {"running", "paused"}}
<1>1. CurrentList \in [up -> {"running", "paused"}] /\ up \in SUBSET Ids
  BY DEF CurrentList
<1>. QED
  BY <1>1 DEF Lists

(* Lists are functions on containers. *)
LEMMA ListDomain == \A list \in Lists : DOMAIN list \subseteq Ids
  BY DEF Lists

LEMMA FaultType ==
    ASSUME TypeOK, NEW kind, Fault(kind) PROVE faults' \in 0..MaxFaults
  BY BoundsAssumption DEF Fault, TypeOK

LEMMA WriteType ==
    ASSUME TypeOK, NEW new \in [Ids -> Statuses \cup {"none"}], Write(new)
    PROVE  /\ rows' \in [Ids -> Statuses \cup {"none"}]
           /\ faults' \in 0..MaxFaults
           /\ rows' = new \/ rows' = rows
  BY FaultType DEF Write, TypeOK

LEMMA UpsertType ==
    ASSUME TypeOK, NEW id \in Ids, NEW status \in {"running", "exited"},
           UpsertContainer(id, status)
    PROVE  /\ rows' \in [Ids -> Statuses \cup {"none"}]
           /\ faults' \in 0..MaxFaults
           /\ rows' = [rows EXCEPT ![id] = status] \/ rows' = rows
<1>1. [rows EXCEPT ![id] = status] \in [Ids -> Statuses \cup {"none"}]
  BY DEF TypeOK, Statuses
<1>. QED
  BY <1>1, WriteType DEF UpsertContainer

LEMMA MarkRemovedType ==
    ASSUME TypeOK, NEW id \in Ids, MarkRemoved(id)
    PROVE  /\ rows' \in [Ids -> Statuses \cup {"none"}]
           /\ faults' \in 0..MaxFaults
           /\ \A i \in Ids : i # id => rows'[i] = rows[i]
           /\ rows'[id] \in {rows[id], "removed"}
<1>. DEFINE new == [rows EXCEPT ![id] = IF @ = "none" THEN "none" ELSE "removed"]
<1>1. new \in [Ids -> Statuses \cup {"none"}]
  BY DEF TypeOK, Statuses
<1>2. rows' \in [Ids -> Statuses \cup {"none"}] /\ faults' \in 0..MaxFaults
      /\ (rows' = new \/ rows' = rows)
  BY <1>1, WriteType DEF MarkRemoved
<1>. QED
  BY <1>2 DEF TypeOK

LEMMA MarkExitedType ==
    ASSUME TypeOK, NEW running, MarkExitedIfNotIn(running)
    PROVE  /\ rows' \in [Ids -> Statuses \cup {"none"}]
           /\ faults' \in 0..MaxFaults
           /\ \A i \in Ids : rows'[i] # rows[i] => rows[i] = "running" /\ rows'[i] = "exited"
<1>. DEFINE new == [id \in Ids |->
        IF rows[id] = "running" /\ id \notin running THEN "exited" ELSE rows[id]]
<1>1. new \in [Ids -> Statuses \cup {"none"}]
  BY DEF TypeOK, Statuses
<1>2. rows' \in [Ids -> Statuses \cup {"none"}] /\ faults' \in 0..MaxFaults
      /\ (rows' = new \/ rows' = rows)
  BY <1>1, WriteType DEF MarkExitedIfNotIn
<1>. QED
  BY <1>2 DEF TypeOK

LEMMA StreamsType ==
    ASSUME Streams!RegistryTypeOK,
           \/ UNCHANGED streamVars
           \/ \E id \in Ids : \/ EnsureOpen(id) \/ EnsureClosed(id)
                              \/ Streams!PublishFrame(id) \/ Streams!Drained(id)
           \/ \E closed \in SUBSET open : Streams!Close(closed)
    PROVE  Streams!RegistryTypeOK'
  BY DEF streamVars, EnsureOpen, EnsureClosed, Streams!RegistryTypeOK,
     Streams!Open, Streams!Close, Streams!PublishFrame, Streams!Drained

(* What a change of state does, whichever it is. *)
LEMMA DockerStepShape ==
    ASSUME TypeOK, NEW id \in Ids, DockerStep(id)
    PROVE  \E to \in DockerStates, event \in Event :
            /\ docker[id] # "gone"
            /\ event.id = id
            /\ event.action = "destroy" => to = "gone"
            /\ docker' = [docker EXCEPT ![id] = to]
            /\ log' = Append(log, event)
            /\ UNCHANGED <<steady, faults, eventVars, pollVars, rows, metrics, streamVars>>
<1>1. ASSUME NEW from, NEW to \in DockerStates,
             NEW action \in {"start", "die", "pause", "unpause", "destroy"},
             "gone" \notin from, action = "destroy" => to = "gone",
             Change(id, from, to, action)
      PROVE  \E t \in DockerStates, event \in Event :
                /\ docker[id] # "gone"
                /\ event.id = id
                /\ event.action = "destroy" => t = "gone"
                /\ docker' = [docker EXCEPT ![id] = t]
                /\ log' = Append(log, event)
                /\ UNCHANGED <<steady, faults, eventVars, pollVars, rows, metrics, streamVars>>
  <2>. DEFINE event == [action |-> action, id |-> id]
  <2>1. event \in Event /\ event.id = id /\ event.action = action
    BY DEF Event
  <2>2. /\ docker[id] \in from
        /\ docker' = [docker EXCEPT ![id] = to]
        /\ log' = Append(log, event)
        /\ UNCHANGED <<steady, faults, eventVars, pollVars, rows, metrics, streamVars>>
    BY <1>1 DEF Change
  <2>3. docker[id] # "gone"
    BY <2>2, <1>1
  <2>. HIDE DEF event
  <2>. QED
    BY <1>1, <2>1, <2>2, <2>3
<1>2. CASE Change(id, {"absent", "exited"}, "running", "start")
  BY <1>1, <1>2 DEF DockerStates
<1>3. CASE Change(id, {"running"}, "exited", "die")
  BY <1>1, <1>3 DEF DockerStates
<1>4. CASE Change(id, {"running"}, "paused", "pause")
  BY <1>1, <1>4 DEF DockerStates
<1>5. CASE Change(id, {"paused"}, "running", "unpause")
  BY <1>1, <1>5 DEF DockerStates
<1>6. CASE Change(id, {"exited"}, "gone", "destroy")
  BY <1>1, <1>6 DEF DockerStates
<1>. QED
  BY <1>2, <1>3, <1>4, <1>5, <1>6 DEF DockerStep

-------------------------------------------------------------------------------
(* Type correctness. *)

LEMMA WatcherInit == Init => WatcherInv
<1>. SUFFICES ASSUME Init PROVE WatcherInv
  OBVIOUS
<1>1. TypeOK
  BY NoListIsList, BoundsAssumption DEF Init, TypeOK, Streams!RegistryInit,
     Streams!RegistryTypeOK
<1>. QED
  BY <1>1 DEF Init, WatcherInv, RemovedIsGone, DestroyedIsGone, WritesAreFresh

LEMMA MsgType == ASSUME TypeOK, since # 0 PROVE msg \in Event
  BY DEF TypeOK, msg

LEMMA EventThreadType ==
    ASSUME TypeOK, WritesAreFresh, EventThread \/ Disconnect PROVE TypeOK'
<1>. USE DEF TypeOK, At, Goto, dockerVars, eventVars, pollVars, streamVars
<1>1. CASE ListAtStartup
  BY <1>1, CurrentListType, FaultType, StreamsType DEF ListAtStartup
<1>2. CASE StartAtStartup
  <2>1. Streams!RegistryTypeOK'
    BY <1>2, StreamsType, ListDomain DEF StartAtStartup
  <2>. QED
    BY <1>2, <2>1, NoListIsList DEF StartAtStartup
<1>3. CASE Subscribe
  BY <1>3, StreamsType DEF Subscribe
<1>4. CASE Receive
  <2>1. Reaction(log[next].action) \in {"inspect", "upsert", "receive"}
    BY DEF Reaction
  <2>. QED
    BY <1>4, <2>1, StreamsType DEF Receive
<1>5. CASE Inspect
  BY <1>5, FaultType, StreamsType DEF Inspect
<1>6. CASE WriteStatus
  <2>1. msg \in Event
    BY <1>6, MsgType DEF WriteStatus, WritesAreFresh
  <2>2. rows' \in [Ids -> Statuses \cup {"none"}] /\ faults' \in 0..MaxFaults
    BY <1>6, <2>1, UpsertType, MarkRemovedType DEF WriteStatus, Event
  <2>. QED
    BY <1>6, <2>2, StreamsType DEF WriteStatus
<1>7. CASE ApplyToStream
  <2>1. msg.id \in Ids
    BY <1>7, MsgType DEF ApplyToStream, WritesAreFresh, Event
  <2>2. Streams!RegistryTypeOK'
    BY <1>7, <2>1, StreamsType DEF ApplyToStream
  <2>. QED
    BY <1>7, <2>2 DEF ApplyToStream
<1>8. CASE ListForResync
  BY <1>8, CurrentListType, FaultType, StreamsType DEF ListForResync
<1>9. CASE CloseUnlisted
  <2>1. Streams!RegistryTypeOK'
    BY <1>9, StreamsType DEF CloseUnlisted
  <2>. QED
    BY <1>9, <2>1 DEF CloseUnlisted
<1>10. CASE ResyncContainer
  <2>1. PICK id \in todo : /\ todo' = todo \ {id}
                           /\ UpsertContainer(id, normalizeStatus(listed[id]))
                           /\ EnsureOpen(id)
    BY <1>10 DEF ResyncContainer
  <2>2. id \in Ids /\ normalizeStatus(listed[id]) \in {"running", "exited"}
    BY ListDomain DEF normalizeStatus
  <2>3. rows' \in [Ids -> Statuses \cup {"none"}] /\ faults' \in 0..MaxFaults
    BY <2>1, <2>2, UpsertType
  <2>4. Streams!RegistryTypeOK'
    BY <2>1, <2>2, StreamsType
  <2>. QED
    BY <1>10, <2>1, <2>3, <2>4 DEF ResyncContainer
<1>11. CASE EndResync
  BY <1>11, NoListIsList, StreamsType DEF EndResync
<1>12. CASE Disconnect
  BY <1>12, FaultType, StreamsType DEF Disconnect
<1>. QED
  BY <1>1, <1>2, <1>3, <1>4, <1>5, <1>6, <1>7, <1>8, <1>9, <1>10, <1>11, <1>12
     DEF EventThread

LEMMA OthersType ==
    ASSUME TypeOK,
           \/ Poll \/ DeleteOrphanedContainers
           \/ \E id \in Ids : DockerStep(id) \/ ExpireMetrics(id)
                              \/ StreamFrame(id) \/ StreamDrained(id)
           \/ UNCHANGED vars
    PROVE  TypeOK'
<1>. USE DEF TypeOK, dockerVars, eventVars, pollVars, streamVars
<1>1. CASE PollList
  BY <1>1, CurrentListType, StreamsType DEF PollList
<1>2. ASSUME NEW id \in Ids, PollUpsert(id) PROVE TypeOK'
  <2>1. normalizeStatus(snapshot[id]) \in {"running", "exited"}
    BY DEF normalizeStatus
  <2>2. rows' \in [Ids -> Statuses \cup {"none"}] /\ faults' \in 0..MaxFaults
    BY <1>2, <2>1, UpsertType DEF PollUpsert
  <2>. QED
    BY <1>2, <2>2, StreamsType DEF PollUpsert
<1>3. ASSUME NEW id \in Ids, PollSample(id) PROVE TypeOK'
  BY <1>3, StreamsType DEF PollSample
<1>4. CASE PollReconcile
  <2>1. rows' \in [Ids -> Statuses \cup {"none"}] /\ faults' \in 0..MaxFaults
    BY <1>4, MarkExitedType DEF PollReconcile
  <2>. QED
    BY <1>4, <2>1, NoListIsList, StreamsType DEF PollReconcile
<1>5. CASE DeleteOrphanedContainers
  BY <1>5, StreamsType DEF DeleteOrphanedContainers
<1>6. ASSUME NEW id \in Ids, DockerStep(id) PROVE TypeOK'
  <2>1. PICK to \in DockerStates, event \in Event :
            /\ docker' = [docker EXCEPT ![id] = to]
            /\ log' = Append(log, event)
            /\ UNCHANGED <<steady, faults, eventVars, pollVars, rows, metrics, streamVars>>
    BY <1>6, DockerStepShape
  <2>2. log' \in Seq(Event) /\ Len(log') = Len(log) + 1 /\ Len(log) \in Nat
    BY <2>1
  <2>3. next' \in 1..Len(log') + 1 /\ since' \in 0..Len(log')
    BY <2>1, <2>2
  <2>. QED
    BY <2>1, <2>2, <2>3, StreamsType
<1>7. ASSUME NEW id \in Ids, ExpireMetrics(id) PROVE TypeOK'
  BY <1>7, StreamsType DEF ExpireMetrics
<1>8. ASSUME NEW id \in Ids, StreamFrame(id) PROVE TypeOK'
  BY <1>8, StreamsType DEF StreamFrame
<1>9. ASSUME NEW id \in Ids, StreamDrained(id) PROVE TypeOK'
  BY <1>9, StreamsType DEF StreamDrained
<1>10. CASE UNCHANGED vars
  BY <1>10, StreamsType DEF vars
<1>. QED
  BY <1>1, <1>2, <1>3, <1>4, <1>5, <1>6, <1>7, <1>8, <1>9, <1>10 DEF Poll

LEMMA TypeNext == ASSUME TypeOK, WritesAreFresh, [Next]_vars PROVE TypeOK'
  BY EventThreadType, OthersType DEF Next

-------------------------------------------------------------------------------
(* What a step may do to the containers and to their rows. *)

(* A destroyed container stays destroyed, and the log only grows. *)
LEMMA GoneStaysGone ==
    ASSUME TypeOK, [Next]_vars
    PROVE  /\ \A id \in Ids : docker[id] = "gone" => docker'[id] = "gone"
           /\ Len(log) <= Len(log')
           /\ \A i \in 1..Len(log) : log'[i] = log[i]
<1>1. CASE UNCHANGED <<docker, log>>
  BY <1>1
<1>2. ASSUME NEW id \in Ids, DockerStep(id)
      PROVE  /\ \A i \in Ids : docker[i] = "gone" => docker'[i] = "gone"
             /\ Len(log) <= Len(log')
             /\ \A i \in 1..Len(log) : log'[i] = log[i]
  <2>1. PICK to \in DockerStates, event \in Event :
            /\ docker[id] # "gone"
            /\ docker' = [docker EXCEPT ![id] = to]
            /\ log' = Append(log, event)
    BY <1>2, DockerStepShape
  <2>. QED
    BY <2>1 DEF TypeOK
<1>3. UNCHANGED <<docker, log>> \/ \E id \in Ids : DockerStep(id)
  BY DEF Next, vars, dockerVars, EventThread, Disconnect, Poll, DeleteOrphanedContainers,
     ListAtStartup, StartAtStartup, Subscribe, Receive, Inspect, WriteStatus,
     ApplyToStream, ListForResync, CloseUnlisted, ResyncContainer, EndResync,
     PollList, PollUpsert, PollSample, PollReconcile, ExpireMetrics, StreamFrame,
     StreamDrained
<1>. QED
  BY <1>1, <1>2, <1>3

(* Only the handler of "destroy" marks a row removed, and then the         *)
(* container is gone.                                                      *)
LEMMA RemovalStep ==
    ASSUME WatcherInv, [Next]_vars, NEW id \in Ids,
           rows'[id] = "removed", rows[id] # "removed"
    PROVE  /\ docker[id] = "gone"
           /\ At("upsert") /\ WriteStatus
<1>. USE DEF WatcherInv
<1>1. CASE UNCHANGED rows
  BY <1>1
<1>2. CASE WriteStatus
  <2>1. msg \in Event /\ At("upsert") /\ since \in 1..Len(log)
    BY <1>2, MsgType DEF WriteStatus, WritesAreFresh, At, TypeOK
  <2>2. CASE msg.action = "destroy"
    <3>1. MarkRemoved(msg.id) /\ msg.id \in Ids
      BY <1>2, <2>1, <2>2 DEF WriteStatus, Event
    <3>2. id = msg.id
      BY <3>1, MarkRemovedType
    <3>. QED
      BY <1>2, <2>1, <2>2, <3>2 DEF DestroyedIsGone, msg
  <2>3. CASE msg.action # "destroy"
    <3>1. PICK status \in {"running", "exited"} : UpsertContainer(msg.id, status)
      BY <1>2, <2>3 DEF WriteStatus
    <3>. QED
      BY <2>1, <3>1, UpsertType DEF Event, TypeOK
  <2>. QED
    BY <2>2, <2>3
<1>3. CASE ResyncContainer
  <2>1. PICK i \in todo : UpsertContainer(i, normalizeStatus(listed[i]))
    BY <1>3 DEF ResyncContainer
  <2>2. i \in Ids /\ normalizeStatus(listed[i]) \in {"running", "exited"}
    BY ListDomain DEF normalizeStatus, TypeOK
  <2>. QED
    BY <2>1, <2>2, UpsertType DEF TypeOK
<1>4. ASSUME NEW i \in Ids, PollUpsert(i) PROVE FALSE
  <2>1. UpsertContainer(i, normalizeStatus(snapshot[i]))
    BY <1>4 DEF PollUpsert
  <2>2. normalizeStatus(snapshot[i]) \in {"running", "exited"}
    BY DEF normalizeStatus
  <2>. QED
    BY <2>1, <2>2, UpsertType DEF TypeOK
<1>5. CASE PollReconcile
  BY <1>5, MarkExitedType DEF PollReconcile
<1>6. CASE DeleteOrphanedContainers
  BY <1>6 DEF DeleteOrphanedContainers
<1>7. \/ UNCHANGED rows \/ WriteStatus \/ ResyncContainer
      \/ (\E i \in Ids : PollUpsert(i)) \/ PollReconcile \/ DeleteOrphanedContainers
  <2>1. ASSUME NEW i \in Ids, DockerStep(i) PROVE UNCHANGED rows
    BY <2>1, DockerStepShape
  <2>. QED
    BY <2>1 DEF Next, vars, EventThread, Disconnect, Poll,
     ListAtStartup, StartAtStartup, Subscribe, Receive, Inspect,
     ApplyToStream, ListForResync, CloseUnlisted, EndResync,
     PollList, PollSample, ExpireMetrics, StreamFrame, StreamDrained
<1>. QED
  BY <1>1, <1>2, <1>3, <1>4, <1>5, <1>6, <1>7

-------------------------------------------------------------------------------
(* The invariant. *)

LEMMA DestroyedNext == ASSUME WatcherInv, [Next]_vars PROVE DestroyedIsGone'
<1>. USE DEF WatcherInv
<1>1. TypeOK'
  BY TypeNext
<1>2. \A i \in 1..Len(log) : log[i] \in Event /\ log'[i] = log[i]
  BY GoneStaysGone DEF TypeOK
<1>3. \A i \in 1..Len(log) : log'[i].action = "destroy" => docker'[log'[i].id] = "gone"
  BY <1>2, GoneStaysGone DEF DestroyedIsGone, Event
<1>4. CASE log' = log
  BY <1>3, <1>4 DEF DestroyedIsGone
<1>5. ASSUME NEW id \in Ids, DockerStep(id) PROVE DestroyedIsGone'
  <2>1. PICK to \in DockerStates, event \in Event :
            /\ event.id = id
            /\ event.action = "destroy" => to = "gone"
            /\ docker' = [docker EXCEPT ![id] = to]
            /\ log' = Append(log, event)
    BY <1>5, DockerStepShape
  <2>2. Len(log') = Len(log) + 1 /\ log'[Len(log) + 1] = event /\ Len(log) \in Nat
    BY <2>1 DEF TypeOK
  <2>3. event.action = "destroy" => docker'[event.id] = "gone"
    BY <2>1 DEF TypeOK
  <2>4. ASSUME NEW i \in 1..Len(log'), log'[i].action = "destroy"
        PROVE  docker'[log'[i].id] = "gone"
    <3>1. CASE i \in 1..Len(log)
      BY <1>3, <2>4, <3>1
    <3>2. CASE i = Len(log) + 1
      BY <2>2, <2>3, <2>4, <3>2
    <3>. QED
      BY <2>2, <3>1, <3>2
  <2>. QED
    BY <2>4 DEF DestroyedIsGone
<1>6. log' = log \/ \E id \in Ids : DockerStep(id)
  BY DEF Next, vars, dockerVars, EventThread, Disconnect, Poll, DeleteOrphanedContainers,
     ListAtStartup, StartAtStartup, Subscribe, Receive, Inspect, WriteStatus,
     ApplyToStream, ListForResync, CloseUnlisted, ResyncContainer, EndResync,
     PollList, PollUpsert, PollSample, PollReconcile, ExpireMetrics, StreamFrame,
     StreamDrained
<1>. QED
  BY <1>4, <1>5, <1>6

LEMMA RemovedNext == ASSUME WatcherInv, [Next]_vars PROVE RemovedIsGone'
<1>. SUFFICES ASSUME NEW id \in Ids, rows'[id] = "removed" PROVE docker'[id] = "gone"
  BY DEF RemovedIsGone
<1>1. docker[id] = "gone"
  BY RemovalStep DEF WatcherInv, RemovedIsGone
<1>. QED
  BY <1>1, GoneStaysGone DEF WatcherInv

(* The steps that leave the event thread alone take nothing from it. *)
LEMMA FreshOthers ==
    ASSUME WatcherInv, [Next]_vars, UNCHANGED eventVars PROVE WritesAreFresh'
<1>. USE DEF WatcherInv, eventVars
<1>1. \A id \in Ids : rows'[id] = "removed" => rows[id] = "removed"
  BY RemovalStep DEF WriteStatus, At, Goto
<1>2. since # 0 => msg' = msg
  BY GoneStaysGone DEF msg, TypeOK
<1>3. since # 0 => msg.id \in Ids
  BY MsgType DEF Event
<1>4. todo \subseteq Ids
  BY ListDomain DEF TypeOK
<1>. QED
  BY <1>1, <1>2, <1>3, <1>4 DEF WritesAreFresh

LEMMA FreshEventThread ==
    ASSUME WatcherInv, EventThread \/ Disconnect PROVE WritesAreFresh'
<1>. USE DEF WatcherInv, At, Goto
<1>1. CASE ListAtStartup \/ StartAtStartup \/ Subscribe \/ Disconnect \/ EndResync
  BY <1>1 DEF ListAtStartup, StartAtStartup, Subscribe, Disconnect, EndResync, WritesAreFresh
<1>2. CASE Receive
  <2>1. since' # 0 /\ msg' = log[next]
    BY <1>2 DEF Receive, TypeOK, msg, dockerVars
  <2>2. /\ thread' = "inspect" => msg'.action # "destroy"
        /\ thread' = "upsert" => msg'.action = "destroy"
        /\ thread' \in {"inspect", "upsert", "receive"}
    BY <1>2, <2>1 DEF Receive, Reaction
  <2>. QED
    BY <2>1, <2>2 DEF WritesAreFresh
<1>3. CASE Inspect
  <2>1. msg' = msg /\ since' = since /\ rows' = rows /\ docker' = docker /\ since # 0
    BY <1>3 DEF Inspect, msg, dockerVars, WritesAreFresh
  <2>2. thread' = "upsert" => rows[msg.id] # "removed"
    BY <1>3, <2>1, MsgType DEF Inspect, Exists, RemovedIsGone, Event
  <2>3. thread' \in {"upsert", "stream"}
    BY <1>3 DEF Inspect
  <2>. QED
    BY <2>1, <2>2, <2>3 DEF WritesAreFresh
<1>4. CASE WriteStatus \/ ApplyToStream
  BY <1>4 DEF WriteStatus, ApplyToStream, WritesAreFresh
<1>5. CASE ListForResync
  <2>1. \A id \in DOMAIN CurrentList : id \in Ids /\ docker[id] # "gone"
    BY CurrentListType
  <2>2. \A id \in DOMAIN CurrentList : rows[id] # "removed"
    BY <2>1 DEF RemovedIsGone
  <2>. QED
    BY <1>5, <2>2 DEF ListForResync, WritesAreFresh
<1>6. CASE CloseUnlisted
  BY <1>6 DEF CloseUnlisted, WritesAreFresh
<1>7. CASE ResyncContainer
  <2>1. \A id \in Ids : rows'[id] = "removed" => rows[id] = "removed"
    BY <1>7, RemovalStep DEF Next, EventThread, ResyncContainer
  <2>2. todo \subseteq Ids
    BY ListDomain DEF TypeOK
  <2>. QED
    BY <1>7, <2>1, <2>2 DEF ResyncContainer, WritesAreFresh
<1>. QED
  BY <1>1, <1>2, <1>3, <1>4, <1>5, <1>6, <1>7 DEF EventThread

LEMMA WatcherNext == WatcherInv /\ [Next]_vars => WatcherInv'
<1>. SUFFICES ASSUME WatcherInv, [Next]_vars PROVE WatcherInv'
  OBVIOUS
<1>1. TypeOK'
  BY TypeNext DEF WatcherInv
<1>2. ASSUME EventThread \/ Disconnect PROVE WritesAreFresh'
  BY <1>2, FreshEventThread
<1>3. ASSUME ~(EventThread \/ Disconnect) PROVE WritesAreFresh'
  <2>1. ASSUME NEW id \in Ids, DockerStep(id) PROVE UNCHANGED eventVars
    BY <2>1, DockerStepShape DEF WatcherInv
  <2>2. UNCHANGED eventVars
    BY <1>3, <2>1 DEF Next, vars, Poll, PollList, PollUpsert, PollSample, PollReconcile,
       DeleteOrphanedContainers, ExpireMetrics, StreamFrame, StreamDrained
  <2>. QED
    BY <2>2, FreshOthers
<1>. QED
  BY <1>1, <1>2, <1>3, DestroyedNext, RemovedNext DEF WatcherInv

-------------------------------------------------------------------------------
(* The theorems. *)

(* The invariant holds in every state the watcher, the daemon and the      *)
(* database reach (watcher.go:114-489).                                    *)
THEOREM WatcherSafe == Spec => []WatcherInv
  BY WatcherInit, WatcherNext, PTL DEF Spec

(* Every variable keeps its type. *)
THEOREM WatcherTypeOK == Spec => []TypeOK
<1>1. WatcherInv => TypeOK
  BY DEF WatcherInv
<1>. QED
  BY <1>1, WatcherSafe, PTL

(* A container that exists is never marked removed (watcher.go:424-428). *)
THEOREM OnlyGoneIsRemoved == Spec => []RemovedIsGone
<1>1. WatcherInv => RemovedIsGone
  BY DEF WatcherInv
<1>. QED
  BY <1>1, WatcherSafe, PTL

(* No event, replayed or late, and no resync brings back the row of a      *)
(* destroyed container: only the poll can, from a list it took before the  *)
(* destruction (watcher.go:274-310, 424-442, 471-488).                     *)
THEOREM RevivalNeedsStalePoll == Spec => RevivedOnlyByStalePoll
<1>1. ASSUME WatcherInv, [Next]_vars, NEW id \in Ids,
             rows[id] = "removed", rows'[id] \in {"running", "exited"}
      PROVE  poller = "process" /\ id \in DOMAIN snapshot /\ docker[id] = "gone"
  <2>. USE DEF WatcherInv
  <2>1. docker[id] = "gone"
    BY <1>1 DEF RemovedIsGone
  <2>2. CASE WriteStatus
    <3>1. msg \in Event
      BY <1>1, <2>2, MsgType DEF WriteStatus, WritesAreFresh, At
    <3>2. CASE msg.action = "destroy"
      <4>1. MarkRemoved(msg.id)
        BY <2>2, <3>2 DEF WriteStatus
      <4>. QED
        BY <1>1, <3>1, <4>1, MarkRemovedType DEF Event
    <3>3. CASE msg.action # "destroy"
      <4>1. PICK status \in {"running", "exited"} : UpsertContainer(msg.id, status)
        BY <2>2, <3>3 DEF WriteStatus
      <4>2. rows[msg.id] # "removed"
        BY <1>1, <2>2, <3>3 DEF WriteStatus, WritesAreFresh, At
      <4>. QED
        BY <1>1, <3>1, <4>1, <4>2, UpsertType DEF Event, TypeOK
    <3>. QED
      BY <3>2, <3>3
  <2>3. CASE ResyncContainer
    <3>1. PICK i \in todo : UpsertContainer(i, normalizeStatus(listed[i]))
      BY <2>3 DEF ResyncContainer
    <3>2. i \in Ids /\ normalizeStatus(listed[i]) \in {"running", "exited"}
      BY <1>1, ListDomain DEF normalizeStatus, TypeOK
    <3>3. rows[i] # "removed"
      BY <1>1, <2>3 DEF ResyncContainer, WritesAreFresh, At
    <3>. QED
      BY <1>1, <3>1, <3>2, <3>3, UpsertType DEF TypeOK
  <2>4. ASSUME NEW i \in Ids, PollUpsert(i)
        PROVE  poller = "process" /\ id \in DOMAIN snapshot
    <3>1. UpsertContainer(i, normalizeStatus(snapshot[i])) /\ poller = "process"
          /\ i \in DOMAIN snapshot
      BY <1>1, <2>4 DEF PollUpsert, TypeOK
    <3>2. normalizeStatus(snapshot[i]) \in {"running", "exited"}
      BY DEF normalizeStatus
    <3>3. id = i
      BY <1>1, <3>1, <3>2, UpsertType DEF TypeOK
    <3>. QED
      BY <3>1, <3>3
  <2>5. ~PollReconcile
    BY <1>1, MarkExitedType DEF PollReconcile
  <2>6. ~DeleteOrphanedContainers
    BY <1>1 DEF DeleteOrphanedContainers
  <2>7. rows' # rows
    BY <1>1
  <2>8. ASSUME NEW i \in Ids, DockerStep(i) PROVE FALSE
    BY <1>1, <2>7, <2>8, DockerStepShape
  <2>9. WriteStatus \/ ResyncContainer \/ \E i \in Ids : PollUpsert(i)
    BY <1>1, <2>5, <2>6, <2>7, <2>8 DEF Next, vars, EventThread, Disconnect, Poll,
       ListAtStartup, StartAtStartup, Subscribe, Receive, Inspect,
       ApplyToStream, ListForResync, CloseUnlisted, EndResync,
       PollList, PollSample, ExpireMetrics, StreamFrame, StreamDrained
  <2>. QED
    BY <2>1, <2>2, <2>3, <2>4, <2>9
<1>2. WatcherInv /\ [Next]_vars =>
        [\A id \in Ids :
            rows[id] = "removed" /\ rows'[id] \in {"running", "exited"} =>
                poller = "process" /\ id \in DOMAIN snapshot /\ docker[id] = "gone"]_vars
  BY <1>1
<1>. QED
  BY <1>2, WatcherSafe, PTL DEF Spec, RevivedOnlyByStalePoll

-------------------------------------------------------------------------------
(* The streams of the watcher are those of the registry. *)

LEMMA EnsureIsRegistryStep ==
    ASSUME NEW id \in Ids, EnsureOpen(id) \/ EnsureClosed(id)
    PROVE  [Streams!RegistryNext]_streamVars
<1>1. CASE UNCHANGED streamVars
  BY <1>1
<1>2. CASE Streams!Open(id)
  BY <1>2 DEF Streams!RegistryNext
<1>3. CASE Streams!Close({id})
  BY <1>3 DEF Streams!RegistryNext
<1>. QED
  BY <1>1, <1>2, <1>3 DEF EnsureOpen, EnsureClosed

LEMMA StepIsRegistryStep ==
    ASSUME WatcherInv, [Next]_vars
    PROVE  [Streams!RegistryNext]_streamVars
<1>. USE DEF WatcherInv
<1>1. CASE StartAtStartup
  <2>1. UNCHANGED streamVars \/ \E id \in todo : EnsureOpen(id)
    BY <1>1 DEF StartAtStartup
  <2>2. todo \subseteq Ids
    BY ListDomain DEF TypeOK
  <2>. QED
    BY <2>1, <2>2, EnsureIsRegistryStep
<1>2. CASE ApplyToStream
  <2>1. EnsureOpen(msg.id) \/ EnsureClosed(msg.id)
    BY <1>2 DEF ApplyToStream
  <2>2. msg.id \in Ids
    BY <1>2, MsgType DEF ApplyToStream, WritesAreFresh, Event, At
  <2>. QED
    BY <2>1, <2>2, EnsureIsRegistryStep
<1>3. CASE CloseUnlisted
  <2>1. open \ DOMAIN listed \in SUBSET Ids
    BY DEF TypeOK, Streams!RegistryTypeOK
  <2>. QED
    BY <1>3, <2>1 DEF CloseUnlisted, Streams!RegistryNext
<1>4. CASE ResyncContainer
  <2>1. \E id \in todo : EnsureOpen(id)
    BY <1>4 DEF ResyncContainer
  <2>2. todo \subseteq Ids
    BY ListDomain DEF TypeOK
  <2>. QED
    BY <2>1, <2>2, EnsureIsRegistryStep
<1>5. ASSUME NEW id \in Ids, StreamFrame(id) \/ StreamDrained(id)
      PROVE  Streams!RegistryNext
  BY <1>5 DEF StreamFrame, StreamDrained, Streams!RegistryNext
<1>6. CASE \/ ListAtStartup \/ Subscribe \/ Receive \/ Inspect \/ WriteStatus
           \/ ListForResync \/ EndResync \/ Disconnect \/ Poll \/ DeleteOrphanedContainers
  BY <1>6 DEF ListAtStartup, Subscribe, Receive, Inspect, WriteStatus, ListForResync,
     EndResync, Disconnect, Poll, PollList, PollUpsert, PollSample, PollReconcile,
     DeleteOrphanedContainers
<1>7. ASSUME NEW id \in Ids, DockerStep(id) \/ ExpireMetrics(id)
      PROVE  UNCHANGED streamVars
  BY <1>7 DEF DockerStep, Change, ExpireMetrics
<1>8. CASE UNCHANGED vars
  BY <1>8 DEF vars
<1>. QED
  BY <1>1, <1>2, <1>3, <1>4, <1>5, <1>6, <1>7, <1>8 DEF Next, EventThread

(* Whatever the event thread and its resync do, they use the streams as    *)
(* the registry allows, so that what StatsStreams does behind it, which    *)
(* implements the registry, is what the watcher counts on                  *)
(* (watcher.go:187-257, 367-469).                                          *)
THEOREM WatcherUsesRegistry == Spec => Streams!RegistrySpec
<1>1. Init => Streams!RegistryInit
  BY DEF Init
<1>2. WatcherInv /\ [Next]_vars => [Streams!RegistryNext]_(Streams!registryVars)
  BY StepIsRegistryStep DEF streamVars, Streams!registryVars
<1>. QED
  BY <1>1, <1>2, WatcherSafe, PTL DEF Spec, Streams!RegistrySpec
===============================================================================
