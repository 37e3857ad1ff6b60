-------------------------------- MODULE Watcher --------------------------------
(***************************************************************************)
(* docker.Watcher against the Docker daemon and the database               *)
(* (internal/docker/watcher.go, internal/storage/repository.go and         *)
(* retention.go).                                                          *)
(*                                                                         *)
(* Three threads learn what runs: the event thread (the start of Run, then *)
(* runEvents with handleEvent and resync), the poller (poll, at most one   *)
(* at a time, see PollScheduler) and, once, the start-up list.  They write *)
(* container rows in any order, each from what it read earlier.  The       *)
(* stats streams are those of StreamRegistry, which StatsStreams           *)
(* implements.                                                             *)
(*                                                                         *)
(* A metric is abstracted to its container: metrics holds the containers   *)
(* with at least one raw or hourly row.                                    *)
(***************************************************************************)
EXTENDS Naturals, Sequences

CONSTANTS Ids,             \* container identifiers
          MaxOps,          \* bound on the state changes of containers
          MaxFaults,       \* bound on the failures of the daemon and of SQLite
          Faults           \* what may fail: "stream", "list", "inspect", "write"

ASSUME BoundsAssumption == MaxOps \in Nat /\ MaxFaults \in Nat
ASSUME FaultsAssumption == Faults \subseteq {"stream", "list", "inspect", "write"}

VARIABLES
    docker,            \* the state of each container
    log,               \* the container events the daemon has emitted
    steady,            \* chosen at the start and never changed: containers are
                       \* not paused and change state only while the event
                       \* stream is up, and ContainerList does not fail
    faults             \* failures so far

VARIABLES
    thread,            \* where the event thread is
    listed,            \* the states in the list it works through
    todo,              \* the containers of that list still to do
    next,              \* the event the connection delivers next
    since              \* the last event received, 0 before the first

VARIABLES
    poller,            \* where the poll is
    snapshot,          \* the list of the poll
    pending,           \* the containers of the snapshot still to process
    sampling           \* the container whose frame is to be sampled, if any

VARIABLES
    rows,              \* the status of each container row
    metrics,           \* the containers that have metrics
    open, draining, frames    \* the stats streams, see StreamRegistry

Streams == INSTANCE StreamRegistry

dockerVars == <<docker, log, steady>>
eventVars  == <<thread, listed, todo, next, since>>
pollVars   == <<poller, snapshot, pending, sampling>>
streamVars == <<open, draining, frames>>
vars == <<dockerVars, faults, eventVars, pollVars, rows, metrics, streamVars>>

DockerStates == {"absent", "running", "paused", "exited", "gone"}
Statuses     == {"running", "exited", "removed"}
Event        == [action : {"start", "die", "pause", "unpause", "destroy"}, id : Ids]

(* What ContainerList returns: the containers it does not list have no     *)
(* entry.                                                                  *)
Lists == UNION {[ids -> {"running", "paused"}] : ids \in SUBSET Ids}
NoList == [id \in {} |-> "running"]

TypeOK ==
    /\ docker \in [Ids -> DockerStates]
    /\ log \in Seq(Event)
    /\ steady \in BOOLEAN
    /\ faults \in 0..MaxFaults
    /\ thread \in {"startup", "starting", "subscribe", "receive", "inspect", "upsert",
                   "stream", "backoff", "close", "resync"}
    /\ listed \in Lists
    /\ todo \subseteq DOMAIN listed
    /\ next \in 1..Len(log) + 1
    /\ since \in 0..Len(log)
    /\ poller \in {"idle", "process"}
    /\ snapshot \in Lists
    /\ pending \subseteq DOMAIN snapshot
    /\ sampling \subseteq Ids
    /\ rows \in [Ids -> Statuses \cup {"none"}]
    /\ metrics \subseteq Ids
    /\ Streams!RegistryTypeOK

(* A start of the program on the rows an earlier run has left: a container *)
(* that was destroyed meanwhile may have any row, and only a destroyed one *)
(* is marked removed.                                                      *)
Init ==
    /\ docker \in [Ids -> DockerStates]
    /\ steady \in BOOLEAN
    /\ steady => \A id \in Ids : docker[id] # "paused"
    /\ log = <<>>
    /\ faults = 0
    /\ thread = "startup"
    /\ listed = NoList /\ todo = {}
    /\ next = 1 /\ since = 0
    /\ poller = "idle"
    /\ snapshot = NoList /\ pending = {}
    /\ sampling = {}
    /\ rows \in [Ids -> Statuses \cup {"none"}]
    /\ \A id \in Ids :
        /\ docker[id] = "absent" => rows[id] = "none"
        /\ rows[id] = "removed" => docker[id] = "gone"
    /\ metrics \in SUBSET {id \in Ids : rows[id] # "none"}
    /\ Streams!RegistryInit

-------------------------------------------------------------------------------
(* The Docker daemon, seen through its API. *)

(* One more failure of the given kind. *)
Fault(kind) ==
    /\ kind \in Faults
    /\ steady => kind # "list"
    /\ faults < MaxFaults
    /\ faults' = faults + 1

Change(id, from, to, action) ==
    /\ docker[id] \in from
    /\ Len(log) < MaxOps
    /\ steady => thread \in {"receive", "inspect", "upsert", "stream"}
    /\ docker' = [docker EXCEPT ![id] = to]
    /\ log' = Append(log, [action |-> action, id |-> id])
    /\ UNCHANGED <<steady, faults, eventVars, pollVars, rows, metrics, streamVars>>

(* An id is never used again.  docker stop emits "die" and then "stop",    *)
(* which handleEvent treats alike.                                         *)
DockerStep(id) ==
    \/ Change(id, {"absent", "exited"}, "running", "start")
    \/ Change(id, {"running"}, "exited", "die")
    \/ ~steady /\ Change(id, {"running"}, "paused", "pause")
    \/ ~steady /\ Change(id, {"paused"}, "running", "unpause")
    \/ Change(id, {"exited"}, "gone", "destroy")

(* ContainerList without All: running and paused containers. *)
CurrentList ==
    [id \in {i \in Ids : docker[i] \in {"running", "paused"}} |-> docker[id]]

Exists(id) == docker[id] \notin {"absent", "gone"}

-------------------------------------------------------------------------------
(* The rows of table containers. *)

normalizeStatus(state) == IF state = "running" THEN "running" ELSE "exited"

(* A write succeeds, or fails and is only logged. *)
Write(newRows) ==
    \/ rows' = newRows /\ UNCHANGED faults
    \/ Fault("write") /\ UNCHANGED rows

(* INSERT ... ON CONFLICT DO UPDATE: whatever the row says is replaced. *)
UpsertContainer(id, status) == Write([rows EXCEPT ![id] = status])

MarkRemoved(id) ==
    Write([rows EXCEPT ![id] = IF @ = "none" THEN "none" ELSE "removed"])

(* Mutation: nothing is reconciled when the list is empty. *)
MarkExitedSkipsEmpty(running) ==
    IF running = {} THEN UNCHANGED <<rows, faults>>
    ELSE Write([id \in Ids |->
            IF rows[id] = "running" /\ id \notin running THEN "exited" ELSE rows[id]])

(* Mutation: the update is not restricted to rows that are running. *)
MarkExitedAlways(running) ==
    Write([id \in Ids |->
        IF rows[id] # "none" /\ id \notin running THEN "exited" ELSE rows[id]])

MarkExitedIfNotIn(running) ==
    Write([id \in Ids |->
        IF rows[id] = "running" /\ id \notin running THEN "exited" ELSE rows[id]])

-------------------------------------------------------------------------------
(* The event thread: the start of Run. *)

At(place) == thread = place
Goto(place) == thread' = place

(* The start-up list; when it fails no stream is opened. *)
ListAtStartup ==
    /\ At("startup")
    /\ \/ /\ listed' = CurrentList
          /\ todo' = DOMAIN CurrentList
          /\ Goto("starting")
          /\ UNCHANGED faults
       \/ Fault("list") /\ Goto("subscribe") /\ UNCHANGED <<listed, todo>>
    /\ UNCHANGED <<dockerVars, next, since, pollVars, rows, metrics, streamVars>>

(* startStatsStream: ignored for a container with a stream. *)
EnsureOpen(id) ==
    IF id \in open THEN UNCHANGED streamVars ELSE Streams!Open(id)

(* stopStatsStream: nothing to do without a stream. *)
EnsureClosed(id) ==
    IF id \in open THEN Streams!Close({id}) ELSE UNCHANGED streamVars

StartAtStartup ==
    /\ At("starting")
    /\ IF todo = {}
       THEN Goto("subscribe") /\ listed' = NoList /\ UNCHANGED <<todo, streamVars>>
       ELSE \E id \in todo :
                todo' = todo \ {id} /\ EnsureOpen(id) /\ UNCHANGED <<thread, listed>>
    /\ UNCHANGED <<dockerVars, faults, next, since, pollVars, rows, metrics>>

-------------------------------------------------------------------------------
(* The event thread: runEvents and handleEvent. *)

(* The first connection delivers what comes after it.  Later ones ask for  *)
(* the events since the last one received; how many of them the daemon     *)
(* still replays is its own affair (the code sends nanoseconds where       *)
(* seconds are expected), so every suffix is possible.                     *)
Subscribe ==
    /\ At("subscribe")
    /\ next' \in (IF since = 0 THEN {Len(log) + 1} ELSE since..Len(log) + 1)
    /\ Goto("receive")
    /\ UNCHANGED <<dockerVars, faults, listed, todo, since, pollVars, rows,
                   metrics, streamVars>>

(* Where handleEvent goes on: "destroy" needs no inspection and other      *)
(* actions, "unpause" among them, are ignored.                             *)
Reaction(action) ==
    CASE action \in {"start", "die", "pause"} -> "inspect"
      [] action = "destroy" -> "upsert"
      [] OTHER -> "receive"

Receive ==
    /\ At("receive")
    /\ next <= Len(log)
    /\ since' = next
    /\ next' = next + 1
    /\ Goto(Reaction(log[next].action))
    /\ UNCHANGED <<dockerVars, faults, listed, todo, pollVars, rows, metrics, streamVars>>

(* The event in the hands of handleEvent. *)
msg == log[since]

(* ContainerInspect fails for a container that is gone; nothing is then    *)
(* written.                                                                *)
Inspect ==
    /\ At("inspect")
    /\ \/ Exists(msg.id) /\ Goto("upsert") /\ UNCHANGED faults
       \/ ~Exists(msg.id) /\ Goto("stream") /\ UNCHANGED faults
       \/ Fault("inspect") /\ Goto("stream")
    /\ UNCHANGED <<dockerVars, listed, todo, next, since, pollVars, rows,
                   metrics, streamVars>>

(* Mutation: a container that dies is marked removed. *)
WriteStatusOnDieRemoves ==
    /\ At("upsert")
    /\ IF msg.action = "start" THEN UpsertContainer(msg.id, "running")
       ELSE MarkRemoved(msg.id)
    /\ Goto("stream")
    /\ UNCHANGED <<dockerVars, listed, todo, next, since, pollVars, metrics, streamVars>>

(* The row of the event's container: the status comes from the event, not  *)
(* from the inspection.                                                    *)
WriteStatus ==
    /\ At("upsert")
    /\ CASE msg.action = "start"   -> UpsertContainer(msg.id, "running")
         [] msg.action = "destroy" -> MarkRemoved(msg.id)
         [] OTHER                  -> UpsertContainer(msg.id, "exited")
    /\ Goto("stream")
    /\ UNCHANGED <<dockerVars, listed, todo, next, since, pollVars, metrics, streamVars>>

ApplyToStream ==
    /\ At("stream")
    /\ IF msg.action = "start" THEN EnsureOpen(msg.id) ELSE EnsureClosed(msg.id)
    /\ Goto("receive")
    /\ UNCHANGED <<dockerVars, faults, listed, todo, next, since, pollVars, rows, metrics>>

(* The event stream breaks; what it has not delivered is lost. *)
Disconnect ==
    /\ At("receive")
    /\ Fault("stream")
    /\ Goto("backoff")
    /\ UNCHANGED <<dockerVars, listed, todo, next, since, pollVars, rows,
                   metrics, streamVars>>

-------------------------------------------------------------------------------
(* The event thread: resync. *)

(* After the backoff; a failed list ends the resync. *)
ListForResync ==
    /\ At("backoff")
    /\ \/ /\ listed' = CurrentList
          /\ todo' = DOMAIN CurrentList
          /\ Goto("close")
          /\ UNCHANGED faults
       \/ Fault("list") /\ Goto("subscribe") /\ UNCHANGED <<listed, todo>>
    /\ UNCHANGED <<dockerVars, next, since, pollVars, rows, metrics, streamVars>>

(* Mutation: resync only opens streams. *)
CloseNothing ==
    /\ At("close")
    /\ Goto("resync")
    /\ UNCHANGED <<dockerVars, faults, listed, todo, next, since, pollVars,
                   rows, metrics, streamVars>>

CloseUnlisted ==
    /\ At("close")
    /\ Streams!Close(open \ DOMAIN listed)
    /\ Goto("resync")
    /\ UNCHANGED <<dockerVars, faults, listed, todo, next, since, pollVars,
                   rows, metrics>>

(* Every listed container, running or paused, gets its row and a stream;   *)
(* a failed write does not keep the stream from being opened.              *)
ResyncContainer ==
    /\ At("resync")
    /\ todo # {}
    /\ \E id \in todo :
        /\ todo' = todo \ {id}
        /\ UpsertContainer(id, normalizeStatus(listed[id]))
        /\ EnsureOpen(id)
    /\ UNCHANGED <<dockerVars, thread, listed, next, since, pollVars, metrics>>

EndResync ==
    /\ At("resync")
    /\ todo = {}
    /\ Goto("subscribe")
    /\ listed' = NoList
    /\ UNCHANGED <<dockerVars, faults, todo, next, since, pollVars,
                   rows, metrics, streamVars>>

EventThread ==
    \/ ListAtStartup \/ StartAtStartup
    \/ Subscribe \/ Receive \/ Inspect \/ WriteStatus \/ ApplyToStream
    \/ ListForResync \/ CloseUnlisted \/ ResyncContainer \/ EndResync

-------------------------------------------------------------------------------
(* The poller: poll and processContainer.  A poll whose list fails returns *)
(* at once, which is a stuttering step.                                    *)

(* The loop that polls starts after the start-up list. *)
PollList ==
    /\ poller = "idle"
    /\ ~At("startup") /\ ~At("starting")
    /\ snapshot' = CurrentList
    /\ pending' = DOMAIN CurrentList
    /\ poller' = "process"
    /\ UNCHANGED <<dockerVars, faults, eventVars, sampling, rows, metrics, streamVars>>

(* The upsert of processContainer, which returns when the write fails and  *)
(* for a container that was not running when listed.                       *)
PollUpsert(id) ==
    /\ poller = "process"
    /\ sampling = {}
    /\ id \in pending
    /\ pending' = pending \ {id}
    /\ UpsertContainer(id, normalizeStatus(snapshot[id]))
    /\ sampling' = IF snapshot[id] = "running" /\ faults' = faults THEN {id} ELSE {}
    /\ UNCHANGED <<dockerVars, eventVars, poller, snapshot, metrics, streamVars>>

(* The rest of processContainer.  A cached frame may be skipped (the first *)
(* one, a counter reset); the insert fails, and is logged, when the row is *)
(* gone (foreign key).                                                     *)
PollSample(id) ==
    /\ id \in sampling
    /\ sampling' = {}
    /\ \/ UNCHANGED metrics
       \/ /\ id \in frames
          /\ rows[id] # "none"
          /\ metrics' = metrics \cup {id}
    /\ UNCHANGED <<dockerVars, faults, eventVars, poller, snapshot, pending,
                   rows, streamVars>>

PollReconcile ==
    /\ poller = "process"
    /\ pending = {} /\ sampling = {}
    /\ MarkExitedIfNotIn(DOMAIN snapshot)
    /\ poller' = "idle"
    /\ snapshot' = NoList
    /\ UNCHANGED <<dockerVars, eventVars, pending, sampling, metrics, streamVars>>

Poll == PollList \/ (\E id \in Ids : PollUpsert(id) \/ PollSample(id)) \/ PollReconcile

-------------------------------------------------------------------------------
(* Retention and the stream goroutines. *)

(* deleteRaw and deleteHourly: the last metric of a container expires. *)
ExpireMetrics(id) ==
    /\ id \in metrics
    /\ metrics' = metrics \ {id}
    /\ UNCHANGED <<dockerVars, faults, eventVars, pollVars, rows, streamVars>>

DeleteOrphanedContainers ==
    /\ rows' = [id \in Ids |->
            IF rows[id] = "removed" /\ id \notin metrics THEN "none" ELSE rows[id]]
    /\ rows' # rows
    /\ UNCHANGED <<dockerVars, faults, eventVars, pollVars, metrics, streamVars>>

(* A frame arrives on an open or a draining stream. *)
StreamFrame(id) ==
    /\ Streams!PublishFrame(id)
    /\ UNCHANGED <<dockerVars, faults, eventVars, pollVars, rows, metrics>>

(* The goroutine of a closed stream returns. *)
StreamDrained(id) ==
    /\ id \in draining
    /\ Streams!Drained(id)
    /\ UNCHANGED <<dockerVars, faults, eventVars, pollVars, rows, metrics>>

Next ==
    \/ EventThread \/ Disconnect \/ Poll \/ DeleteOrphanedContainers
    \/ \E id \in Ids : DockerStep(id) \/ ExpireMetrics(id)
                       \/ StreamFrame(id) \/ StreamDrained(id)

Spec == Init /\ [][Next]_vars

(* The event thread and the poller never wait for each other; the polls    *)
(* keep coming (PollScheduler) and so does retention, every hour; the      *)
(* metrics of a container that exists no more expire.  Docker is free to   *)
(* change nothing any more, and no failure ever has to happen.             *)
Fairness ==
    /\ WF_vars(EventThread) /\ WF_vars(Poll) /\ WF_vars(DeleteOrphanedContainers)
    /\ \A id \in Ids : WF_vars(docker[id] = "gone" /\ ExpireMetrics(id))

FairSpec == Spec /\ Fairness

-------------------------------------------------------------------------------
(* Safety. *)

(* A removed row is brought back only by a poll that listed the container  *)
(* before it was destroyed, never by an event, replayed or late, and never *)
(* by a resync: inspection fails for a destroyed container                 *)
(* (watcher.go:433-437) and resync lists and writes on the thread that     *)
(* handles "destroy".                                                      *)
RevivedOnlyByStalePoll ==
    [][\A id \in Ids :
        rows[id] = "removed" /\ rows'[id] \in {"running", "exited"} =>
            poller = "process" /\ id \in DOMAIN snapshot /\ docker[id] = "gone"]_vars

(* A container that exists is never marked removed, whatever is replayed   *)
(* or lost: its row, and with it its metrics' service, stays visible       *)
(* (watcher.go:424-428).                                                   *)
RemovedIsGone == \A id \in Ids : rows[id] = "removed" => docker[id] = "gone"

-------------------------------------------------------------------------------
(* Liveness. *)

(* What the row of a container that changes no more settles to. *)
Settled(state) ==
    CASE state = "running" -> {"running"}
      [] state = "paused"  -> {"exited"}
      [] state = "exited"  -> {"none", "exited"}
      [] state = "gone"    -> {"none", "exited", "removed"}
      [] state = "absent"  -> {"none"}

(* Whatever was lost, replayed, or written from a stale list, the row of a *)
(* container settles to the state Docker has left it in; in particular     *)
(* nothing stays "running" that is not (poll and MarkExitedIfNotIn,        *)
(* watcher.go:274-290).                                                    *)
RowsSettle ==
    \A id \in Ids, state \in DockerStates :
        <>[](docker[id] = state) => <>[](rows[id] \in Settled(state))

(* With a steady daemon a stream is open for good exactly on the           *)
(* containers that run for good, whatever is replayed, and although        *)
(* reconnections, failing inspections and failing writes lose what they    *)
(* lose (watcher.go:51-52,367-489).  Without the three assumptions of      *)
(* steady it is false, see RunningIsStreamed.                              *)
StreamsFollowDocker ==
    steady =>
    \A id \in Ids :
        /\ <>[](docker[id] = "running") => <>[](id \in open)
        /\ <>[](docker[id] \in {"exited", "gone"}) => <>[](id \notin open)

(* "Watcher maintains a persistent stats stream per container"             *)
(* (watcher.go:51).                                                        *)
RunningIsStreamed ==
    \A id \in Ids : <>[](docker[id] = "running") => <>[](id \in open)
===============================================================================
