------------------------------- MODULE Sampling -------------------------------
(***************************************************************************)
(* What a poll makes of the frames of the stats streams                    *)
(* (processContainer in internal/docker/watcher.go, and stats.go).         *)
(*                                                                         *)
(* A sample needs two frames: the one in statsCache and prevRead, the one  *)
(* the poll before has read.  Frames repeat, arrive late from goroutines   *)
(* of closed streams (see StreamRegistry), come from an earlier run of the *)
(* container, or are blank; prevRead outlives the stream when resync       *)
(* closes it.  Counters are abstracted: one total stands for the bytes     *)
(* received, sent, read and written, which are treated alike; CPU time and *)
(* host time are counted in the same unit.                                 *)
(***************************************************************************)
EXTENDS Integers, FiniteSetsExt, Sequences

CONSTANTS Ids,             \* container identifiers
          Nets,            \* network interfaces a container may have
          NoFrame,         \* nil, in place of a frame
          MaxHost,         \* bound on the host's CPU time
          MaxMoved,        \* bound on the bytes a container moves
          MaxChanges       \* bound on starts, ends and detached interfaces

ASSUME SamplingAssumption ==
    MaxHost \in Nat /\ MaxMoved \in Nat /\ MaxChanges \in Nat /\ IsFiniteSet(Nets)

VARIABLES
    host,                        \* CPU time of the whole host
    docker,                      \* each container, as the daemon sees it
    queue,                       \* its events not yet handled
    open, draining,              \* the stats streams, see StreamRegistry
    decoded,                     \* frames decoded and not yet cached
    statsCache, prevRead,        \* the frame cached, and the one last read
    listed,                      \* the containers of a poll still to process
    sampled,                     \* the last sample: its two frames
    late                         \* a frame older than the last sample was
                                 \* cached since

streamVars == <<open, draining, decoded, statsCache>>
vars == <<host, docker, queue, streamVars, prevRead, listed, sampled, late>>

Streams == INSTANCE StreamRegistry WITH
    frames <- {id \in Ids : statsCache[id] # NoFrame}

(* cpu and rx are what the daemon reports; work, moved and detached are    *)
(* the truth: CPU time used, bytes moved and interfaces taken away so far. *)
Container == [running : BOOLEAN, cpu : Nat, nets : SUBSET Nets, rx : [Nets -> Nat],
              work : Nat, moved : Nat, detached : Nat, changes : Nat]

Frame == [host : Nat, cpu : Nat, rx : Nat, work : Nat, moved : Nat, detached : Nat]

(* What a stream delivers of a container that does not run.                *)
BlankFrame == [host |-> 0, cpu |-> 0, rx |-> 0, work |-> 0, moved |-> 0, detached |-> 0]

SamplingTypeOK ==
    /\ host \in Nat
    /\ docker \in [Ids -> Container]
    /\ queue \in [Ids -> Seq({"start", "die"})]
    /\ open \subseteq Ids /\ draining \subseteq Ids
    /\ decoded \in [Ids -> SUBSET Frame]
    /\ statsCache \in [Ids -> Frame \cup {NoFrame}]
    /\ prevRead \in [Ids -> Frame \cup {NoFrame}]
    /\ listed \subseteq Ids
    /\ sampled \in [Ids -> [prev : Frame, cur : Frame] \cup {NoFrame}]
    /\ late \subseteq Ids

NoBytes == [n \in Nets |-> 0]

Init ==
    /\ host = 1
    /\ docker \in [Ids -> {[running |-> r, cpu |-> 0, nets |-> Nets, rx |-> NoBytes, work |-> 0,
                            moved |-> 0, detached |-> 0, changes |-> 0] : r \in BOOLEAN}]
    /\ queue = [id \in Ids |-> <<>>]
    /\ statsCache = [id \in Ids |-> NoFrame]
    /\ Streams!RegistryInit
    /\ decoded = [id \in Ids |-> {}]
    /\ prevRead = [id \in Ids |-> NoFrame]
    /\ listed = {} /\ late = {}
    /\ sampled = [id \in Ids |-> NoFrame]

-------------------------------------------------------------------------------
(* The host and the containers. *)

(* Mutation: an interface is added to the total twice. *)
networkTotalsTwice(d) == 2 * SumFunctionOnSet(d.rx, d.nets)

(* The bytes of all interfaces in one total.                               *)
networkTotals(d) == SumFunctionOnSet(d.rx, d.nets)

CurrentFrame(id) ==
    LET d == docker[id] IN
    IF d.running
    THEN [host |-> host, cpu |-> d.cpu, rx |-> networkTotals(d),
          work |-> d.work, moved |-> d.moved, detached |-> d.detached]
    ELSE BlankFrame

(* The CPU runs: for a container, or for something else. *)
Compute ==
    /\ host < MaxHost
    /\ host' = host + 1
    /\ \/ UNCHANGED docker
       \/ \E id \in Ids :
            /\ docker[id].running
            /\ docker' = [docker EXCEPT ![id].cpu = @ + 1, ![id].work = @ + 1]
    /\ UNCHANGED <<queue, streamVars, prevRead, listed, sampled, late>>

Traffic(id, n) ==
    /\ docker[id].running
    /\ n \in docker[id].nets
    /\ docker[id].moved < MaxMoved
    /\ docker' = [docker EXCEPT ![id].rx[n] = @ + 1, ![id].moved = @ + 1]
    /\ UNCHANGED <<host, queue, streamVars, prevRead, listed, sampled, late>>

(* An interface goes away, with its counter. *)
Detach(id, n) ==
    /\ docker[id].running
    /\ n \in docker[id].nets
    /\ docker[id].changes < MaxChanges
    /\ docker' = [docker EXCEPT ![id].nets = @ \ {n},
                                ![id].detached = @ + 1, ![id].changes = @ + 1]
    /\ UNCHANGED <<host, queue, streamVars, prevRead, listed, sampled, late>>

(* A container starts, with all its counters at zero, or ends. *)
StartOrDie(id) ==
    /\ docker[id].changes < MaxChanges
    /\ docker' = [docker EXCEPT ![id].running = ~@, ![id].cpu = 0,
                                ![id].nets = Nets, ![id].rx = NoBytes,
                                ![id].changes = @ + 1]
    /\ queue' = [queue EXCEPT ![id] =
            Append(@, IF docker[id].running THEN "die" ELSE "start")]
    /\ UNCHANGED <<host, streamVars, prevRead, listed, sampled, late>>

-------------------------------------------------------------------------------
(* The event thread. *)

(* How many goroutines of a container may hold a frame, when those of      *)
(* closed streams hold one at most.                                        *)
Holders(id, drainingNow) ==
    (IF id \in open THEN 1 ELSE 0) + (IF id \in drainingNow THEN 1 ELSE 0)

OpenStream(id) ==
    IF id \in open THEN UNCHANGED <<open, draining, statsCache>>
    ELSE UNCHANGED statsCache /\ Streams!Open(id)

CloseStream(id) ==
    /\ statsCache' = [statsCache EXCEPT ![id] = NoFrame]
    /\ Streams!Close({id})

(* handleEvent: startStatsStream, or stopStatsStream, which forgets the    *)
(* frames of a registered stream.                                          *)
HandleEvent(id) ==
    /\ queue[id] # <<>>
    /\ queue' = [queue EXCEPT ![id] = Tail(@)]
    /\ IF Head(queue[id]) = "start"
       THEN OpenStream(id) /\ UNCHANGED prevRead
       ELSE IF id \in open
            THEN CloseStream(id) /\ prevRead' = [prevRead EXCEPT ![id] = NoFrame]
            ELSE UNCHANGED <<open, draining, statsCache, prevRead>>
    /\ UNCHANGED <<host, docker, decoded, listed, sampled, late>>

(* resync after a lost connection, which keeps prevRead.  Module Watcher   *)
(* has its steps; here a container's is one.                               *)
Resync(id) ==
    /\ IF docker[id].running THEN OpenStream(id) ELSE id \in open /\ CloseStream(id)
    /\ UNCHANGED <<host, docker, queue, decoded, prevRead, listed, sampled, late>>

-------------------------------------------------------------------------------
(* The goroutines of the streams. *)

Decode(id) ==
    /\ CurrentFrame(id) \notin decoded[id]
    /\ Cardinality(decoded[id]) < Holders(id, draining)
    /\ decoded' = [decoded EXCEPT ![id] = @ \cup {CurrentFrame(id)}]
    /\ UNCHANGED <<host, docker, queue, open, draining, statsCache, prevRead, listed,
                   sampled, late>>

Publish(id) ==
    /\ \E f \in decoded[id] :
        /\ statsCache' = [statsCache EXCEPT ![id] = f]
        /\ decoded' = [decoded EXCEPT ![id] = @ \ {f}]
        /\ late' = IF sampled[id] # NoFrame /\ f.host < sampled[id].cur.host
                   THEN late \cup {id} ELSE late
    /\ Streams!PublishFrame(id)
    /\ UNCHANGED <<host, docker, queue, prevRead, listed, sampled>>

(* A goroutine that has published its frame returns. *)
Return(id) ==
    /\ id \in draining
    /\ statsCache' = [statsCache EXCEPT ![id] = NoFrame]
    /\ Streams!Drained(id)
    /\ Cardinality(decoded[id]) <= Holders(id, draining')
    /\ UNCHANGED <<host, docker, queue, decoded, prevRead, listed, sampled, late>>

-------------------------------------------------------------------------------
(* The poll. *)

CpuDelta(cur, prev)  == cur.cpu - prev.cpu
HostDelta(cur, prev) == cur.host - prev.host

(* Mutation: the first frame counts. *)
cpuPercentOfFirst(cur, prev) == prev = NoFrame

(* Mutation: a repeated frame counts. *)
cpuPercentOfRepeated(cur, prev) ==
    /\ prev # NoFrame
    /\ CpuDelta(cur, prev) >= 0
    /\ HostDelta(cur, prev) >= 0

(* Whether cpuPercent makes a sample of two frames: not of the first, not  *)
(* after a reset of the counter, not when the host's time stood still.     *)
cpuPercent(cur, prev) ==
    /\ prev # NoFrame
    /\ CpuDelta(cur, prev) >= 0
    /\ HostDelta(cur, prev) > 0

(* ContainerList, when no poll is running. *)
List ==
    /\ listed = {}
    /\ listed' = {id \in Ids : docker[id].running}
    /\ UNCHANGED <<host, docker, queue, streamVars, prevRead, sampled, late>>

(* Mutation: prevRead is set once. *)
RememberFirst(id, cur) ==
    prevRead' = IF cur = NoFrame \/ prevRead[id] # NoFrame THEN prevRead
                ELSE [prevRead EXCEPT ![id] = cur]

Remember(id, cur) ==
    prevRead' = IF cur = NoFrame THEN prevRead ELSE [prevRead EXCEPT ![id] = cur]

(* processContainer of a running container.  The frame read becomes        *)
(* prevRead whether it makes a sample or not; a pair that makes none       *)
(* leaves its bytes unsampled, too.  A failing UpsertContainer ends the    *)
(* call before the frame is read, a failing InsertRawMetric loses the      *)
(* sample.                                                                 *)
processContainer(id) ==
    /\ id \in listed
    /\ listed' = listed \ {id}
    /\ \/ UNCHANGED <<prevRead, sampled, late>>
       \/ LET cur  == statsCache[id]
              prev == prevRead[id]
          IN  /\ Remember(id, cur)
              /\ \/ /\ cur # NoFrame /\ cpuPercent(cur, prev)
                    /\ sampled' = [sampled EXCEPT ![id] = [prev |-> prev, cur |-> cur]]
                    /\ late' = late \ {id}
                 \/ UNCHANGED <<sampled, late>>
    /\ UNCHANGED <<host, docker, queue, streamVars>>

Next ==
    \/ Compute \/ List
    \/ \E id \in Ids :
        \/ \E n \in Nets : Traffic(id, n) \/ Detach(id, n)
        \/ StartOrDie(id) \/ HandleEvent(id) \/ Resync(id)
        \/ Decode(id) \/ Publish(id) \/ Return(id) \/ processContainer(id)

Spec == Init /\ [][Next]_vars

-------------------------------------------------------------------------------
(* Safety. *)

NewSample(id) == sampled'[id] # sampled[id]

(* "counter reset (container restart)", "guard against NaN/Inf"            *)
(* (stats.go:20,25): whatever frames meet in a poll, late, repeated, blank *)
(* or of an earlier run of the container, the CPU share of a sample is     *)
(* that of a real interval: no less than nothing, no more than the         *)
(* container has used in it, and no more than the host has.                *)
RatesAreReal ==
    [][\A id \in Ids : NewSample(id) =>
        LET cur == sampled'[id].cur  prev == sampled'[id].prev IN
        /\ HostDelta(cur, prev) > 0
        /\ CpuDelta(cur, prev) \in 0..(cur.work - prev.work)
        /\ CpuDelta(cur, prev) <= HostDelta(cur, prev)]_vars

(* A stretch of a container's life is sampled once: a sample that begins   *)
(* before the last one ended is the work of a frame that was blank or came *)
(* late from a closed stream, and became prevRead in its turn.             *)
NoStretchTwice ==
    [][\A id \in Ids : NewSample(id) /\ sampled[id] # NoFrame =>
        \/ sampled'[id].prev.host >= sampled[id].cur.host
        \/ id \in late]_vars

(* What the aggregator makes of two samples in a row (aggregate.go:133-137): *)
(* the growth of the total, or all of it after a reset.                    *)
Increment(p, s) == IF s.rx >= p.rx THEN s.rx - p.rx ELSE s.rx

(* The bytes a sample adds to its hour have moved since the sample before, *)
(* through every restart.  There are two exceptions, in which bytes may    *)
(* count twice, if never more than the container has moved in all: an      *)
(* interface taken away between the two samples, for the rest of the total *)
(* is less than before and counts as new, and a late frame between them,   *)
(* whose bytes an earlier sample may have counted.                         *)
BytesHaveMoved ==
    [][\A id \in Ids : NewSample(id) =>
        LET s == sampled'[id].cur
            p == IF sampled[id] = NoFrame THEN BlankFrame ELSE sampled[id].cur
        IN  Increment(p, s) <= IF s.detached # p.detached \/ id \in late
                               THEN s.moved ELSE s.moved - p.moved]_vars
===============================================================================
