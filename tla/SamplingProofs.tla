----------------------------- MODULE SamplingProofs -----------------------------
(***************************************************************************)
(* Proofs about module Sampling: for any containers and interfaces, with   *)
(* frames that are late, repeated, blank or of an earlier run.             *)
(*                                                                         *)
(* The invariant compares any two frames of a container that are still     *)
(* about, the last sample's too: between them the host's time, the         *)
(* container's work and the work its counter has forgotten in restarts     *)
(* grow together, and so do the bytes it has moved and those its counters  *)
(* show.                                                                   *)
(***************************************************************************)
EXTENDS Sampling, Sums, FiniteSetTheorems, TLAPS

(* Between two frames, the second no earlier than the first: the bytes     *)
(* counted have moved, unless an interface was taken away, and never are   *)
(* more than all that has moved.                                           *)
Counts(f, g) ==
    /\ f.moved <= g.moved /\ f.detached <= g.detached
    /\ f.rx <= f.moved => g.rx <= g.moved
    /\ f.detached = g.detached =>
        \/ g.rx - f.rx = g.moved - f.moved
        \/ g.rx <= g.moved - f.moved

(* g, taken no earlier than f, is consistent with it. *)
Grows(f, g) ==
    /\ f.work <= g.work
    /\ g.work - f.work <= g.host - f.host
    /\ f.work - f.cpu <= g.work - g.cpu
    /\ Counts(f, g)

Comparable(f, g) == f.host < g.host => Grows(f, g)

(* The frames of a container that a poll may still meet, and the one of    *)
(* the last sample.                                                        *)
About(id) ==
    decoded[id] \cup ({statsCache[id], prevRead[id]} \ {NoFrame})
        \cup (IF sampled[id] = NoFrame THEN {} ELSE {sampled[id].cur})

Now(id) ==
    [host |-> host, cpu |-> docker[id].cpu, rx |-> networkTotals(docker[id]),
     work |-> docker[id].work, moved |-> docker[id].moved, detached |-> docker[id].detached]

FramesInv ==
    \A id \in Ids :
        /\ Grows(BlankFrame, Now(id))
        /\ \A f \in About(id) :
            /\ Grows(BlankFrame, f) /\ Grows(f, Now(id))
            /\ \A g \in About(id) : Comparable(f, g)

(* The frames in the cache and in prevRead are no older than the last      *)
(* sample, unless a late one has been cached since.                        *)
OrderInv ==
    \A id \in Ids : sampled[id] # NoFrame /\ id \notin late =>
        \A f \in {statsCache[id], prevRead[id]} \ {NoFrame} : f.host >= sampled[id].cur.host

SamplingInv == SamplingTypeOK /\ FramesInv /\ OrderInv

-------------------------------------------------------------------------------
(* Frames. *)

LEMMA BlankIsFrame == BlankFrame \in Frame
  BY DEF BlankFrame, Frame

LEMMA GrowsIsTransitive ==
  ASSUME NEW f \in Frame, NEW g \in Frame, NEW h \in Frame, Grows(f, g), Grows(g, h)
  PROVE  Grows(f, h)
  <1>1. f.work <= h.work /\ h.work - f.work <= h.host - f.host
        /\ f.work - f.cpu <= h.work - h.cpu
    BY DEF Frame, Grows
  <1>2. Counts(f, h)
    BY DEF Frame, Grows, Counts
  <1> QED  BY <1>1, <1>2 DEF Grows

(* A container has a total, and only the interfaces it has count. *)
LEMMA TotalIsNumber ==
  ASSUME NEW d \in Container
  PROVE  networkTotals(d) \in Nat /\ IsFiniteSet(d.nets)
  <1>1. d.nets \in SUBSET Nets /\ d.rx \in [Nets -> Nat]
    BY DEF Container
  <1>2. IsFiniteSet(d.nets) /\ \A n \in d.nets : d.rx[n] \in Nat
    BY <1>1, FS_Subset, SamplingAssumption
  <1> QED  BY <1>2, SumNat DEF networkTotals

LEMMA NowIsFrame ==
  ASSUME SamplingTypeOK, NEW id \in Ids
  PROVE  Now(id) \in Frame
  <1>1. host \in Nat /\ docker[id] \in Container
    BY DEF SamplingTypeOK
  <1>2. networkTotals(docker[id]) \in Nat
    BY <1>1, TotalIsNumber
  <1> HIDE DEF networkTotals
  <1> QED  BY <1>1, <1>2 DEF Now, Frame, Container

LEMMA CurrentIsFrame ==
  ASSUME SamplingTypeOK, NEW id \in Ids
  PROVE  CurrentFrame(id) \in {Now(id), BlankFrame} /\ CurrentFrame(id) \in Frame
  <1>1. CurrentFrame(id) \in {Now(id), BlankFrame}
    BY DEF CurrentFrame, Now
  <1> QED  BY <1>1, NowIsFrame, BlankIsFrame

LEMMA AboutAreFrames ==
  ASSUME SamplingTypeOK, NEW id \in Ids
  PROVE  About(id) \subseteq Frame
  BY DEF SamplingTypeOK, About

-------------------------------------------------------------------------------
(* The types. *)

LEMMA InitTypes == Init => SamplingTypeOK
  <1> SUFFICES ASSUME Init PROVE SamplingTypeOK
    OBVIOUS
  <1> DEFINE c(r) == [running |-> r, cpu |-> 0, nets |-> Nets, rx |-> NoBytes, work |-> 0,
                      moved |-> 0, detached |-> 0, changes |-> 0]
  <1>1. docker \in [Ids -> {c(r) : r \in BOOLEAN}]
    BY DEF Init
  <1>2. \A r \in BOOLEAN : c(r) \in Container
    BY DEF Container, NoBytes
  <1>3. docker \in [Ids -> Container]
    BY <1>1, <1>2
  <1>4. /\ open = {} /\ draining = {} /\ host = 1 /\ listed = {} /\ late = {}
        /\ queue = [id \in Ids |-> <<>>] /\ decoded = [id \in Ids |-> {}]
        /\ statsCache = [id \in Ids |-> NoFrame] /\ prevRead = [id \in Ids |-> NoFrame]
        /\ sampled = [id \in Ids |-> NoFrame]
    BY DEF Init, Streams!RegistryInit
  <1> HIDE DEF c
  <1> QED  BY <1>3, <1>4 DEF SamplingTypeOK

(* What the host and the containers do. *)
LEMMA ComputeStep ==
  ASSUME SamplingTypeOK, Compute
  PROVE  /\ host' = host + 1
         /\ docker' \in [Ids -> Container]
         /\ \A id \in Ids : Grows(Now(id), Now(id)')
  <1>1. host \in Nat /\ docker \in [Ids -> Container] /\ host' = host + 1
    BY DEF SamplingTypeOK, Compute
  <1>2. CASE UNCHANGED docker
    <2>1. ASSUME NEW id \in Ids PROVE Grows(Now(id), Now(id)')
      <3>1. Now(id) \in Frame
        BY NowIsFrame
      <3>2. /\ Now(id)'.host = Now(id).host + 1 /\ Now(id)'.cpu = Now(id).cpu
            /\ Now(id)'.rx = Now(id).rx /\ Now(id)'.work = Now(id).work
            /\ Now(id)'.moved = Now(id).moved /\ Now(id)'.detached = Now(id).detached
        BY <1>1, <1>2 DEF Now, networkTotals
      <3> QED  BY <3>1, <3>2 DEF Frame, Grows, Counts
    <2> QED  BY <1>1, <1>2, <2>1
  <1>3. ASSUME NEW c \in Ids,
               docker' = [docker EXCEPT ![c].cpu = @ + 1, ![c].work = @ + 1]
        PROVE  /\ docker' \in [Ids -> Container]
               /\ \A id \in Ids : Grows(Now(id), Now(id)')
    <2>1. docker[c] \in Container
      BY <1>1
    <2>2. docker'[c] \in Container
      BY <1>1, <1>3, <2>1 DEF Container
    <2>3. docker' \in [Ids -> Container]
      BY <1>1, <1>3, <2>2
    <2>4. ASSUME NEW id \in Ids PROVE Grows(Now(id), Now(id)')
      <3>1. Now(id) \in Frame
        BY NowIsFrame
      <3>2. /\ Now(id)'.host = Now(id).host + 1 /\ Now(id)'.rx = Now(id).rx
            /\ Now(id)'.moved = Now(id).moved /\ Now(id)'.detached = Now(id).detached
        BY <1>1, <1>3, <2>1 DEF Now, networkTotals, Container
      <3>3. \/ Now(id)'.cpu = Now(id).cpu + 1 /\ Now(id)'.work = Now(id).work + 1
            \/ Now(id)'.cpu = Now(id).cpu /\ Now(id)'.work = Now(id).work
        BY <1>1, <1>3, <2>1 DEF Now, Container
      <3> QED  BY <3>1, <3>2, <3>3 DEF Frame, Grows, Counts
    <2> QED  BY <2>3, <2>4
  <1> QED  BY <1>1, <1>2, <1>3 DEF Compute

(* One container changes: its new description, and what is left alone. *)
LEMMA OneContainer ==
  ASSUME SamplingTypeOK, NEW c \in Ids, NEW d \in Container,
         host' = host, docker' = [docker EXCEPT ![c] = d],
         d.work = docker[c].work, d.cpu \in {docker[c].cpu, 0},
         \/ /\ d.detached = docker[c].detached /\ d.moved = docker[c].moved + 1
            /\ networkTotals(d) = networkTotals(docker[c]) + 1
         \/ /\ d.detached = docker[c].detached + 1 /\ d.moved = docker[c].moved
            /\ networkTotals(d) <= networkTotals(docker[c])
         \/ /\ d.detached = docker[c].detached /\ d.moved = docker[c].moved
            /\ networkTotals(d) = 0
  PROVE  /\ docker' \in [Ids -> Container]
         /\ \A id \in Ids : Grows(Now(id), Now(id)')
  <1>1. host \in Nat /\ docker \in [Ids -> Container]
    BY DEF SamplingTypeOK
  <1>2. docker' \in [Ids -> Container] /\ docker'[c] = d
        /\ \A id \in Ids : id # c => docker'[id] = docker[id]
    BY <1>1
  <1>3. Now(c) \in Frame /\ networkTotals(d) \in Nat
    BY NowIsFrame, TotalIsNumber
  <1>4. /\ Now(c)'.host = Now(c).host /\ Now(c)'.work = Now(c).work
        /\ Now(c)'.cpu \in {Now(c).cpu, 0} /\ Now(c)'.rx = networkTotals(d)
        /\ \/ /\ Now(c)'.detached = Now(c).detached /\ Now(c)'.moved = Now(c).moved + 1
              /\ Now(c)'.rx = Now(c).rx + 1
           \/ /\ Now(c)'.detached = Now(c).detached + 1 /\ Now(c)'.moved = Now(c).moved
              /\ Now(c)'.rx <= Now(c).rx
           \/ /\ Now(c)'.detached = Now(c).detached /\ Now(c)'.moved = Now(c).moved
              /\ Now(c)'.rx = 0
    <2> DEFINE t == networkTotals(d)
    <2>1. networkTotals(docker[c])' = t
      BY <1>2 DEF networkTotals
    <2> HIDE DEF t
    <2> QED  BY <1>2, <2>1 DEF Now, t
  <1>5. Grows(Now(c), Now(c)')
    BY <1>3, <1>4 DEF Frame, Grows, Counts
  <1>6. ASSUME NEW id \in Ids, id # c PROVE Grows(Now(id), Now(id)')
    <2>1. Now(id)' = Now(id) /\ Now(id) \in Frame
      BY <1>2, <1>6, NowIsFrame DEF Now, networkTotals
    <2> QED  BY <2>1 DEF Frame, Grows, Counts
  <1> QED  BY <1>2, <1>5, <1>6

LEMMA TrafficStep ==
  ASSUME SamplingTypeOK, NEW c \in Ids, NEW n \in Nets, Traffic(c, n)
  PROVE  /\ docker' \in [Ids -> Container]
         /\ \A id \in Ids : Grows(Now(id), Now(id)')
  <1> DEFINE o == docker[c]
             rx == [o.rx EXCEPT ![n] = @ + 1]
             d == [o EXCEPT !.rx = rx, !.moved = @ + 1]
  <1>1. o \in Container /\ n \in o.nets /\ host' = host
    BY DEF SamplingTypeOK, Traffic
  <1>2. docker' = [docker EXCEPT ![c] = d]
    BY <1>1 DEF Traffic, SamplingTypeOK
  <1>3. o.rx \in [Nets -> Nat] /\ rx \in [Nets -> Nat] /\ o.nets \in SUBSET Nets
    BY <1>1 DEF Container
  <1>4. d \in Container
    <2>1. o.moved + 1 \in Nat
      BY <1>1 DEF Container
    <2> HIDE DEF rx, o
    <2> QED  BY <1>1, <1>3, <2>1 DEF Container
  <1>5. /\ d.work = o.work /\ d.cpu = o.cpu /\ d.detached = o.detached
        /\ d.moved = o.moved + 1 /\ d.nets = o.nets /\ d.rx = rx
    BY <1>1, <1>3 DEF Container
  <1>6. SumFunctionOnSet(rx, o.nets) = SumFunctionOnSet(o.rx, o.nets) + 1
    <2>1. IsFiniteSet(o.nets)
      BY <1>1, TotalIsNumber
    <2>2. \A x \in o.nets : o.rx[x] \in Int
      BY <1>3
    <2>3. rx[n] = o.rx[n] + 1 /\ \A x \in o.nets \ {n} : rx[x] = o.rx[x]
      BY <1>3
    <2> HIDE DEF rx, o
    <2> QED  BY <1>1, <2>1, <2>2, <2>3, SumUpdate
  <1>7. networkTotals(d) = networkTotals(o) + 1
    BY <1>5, <1>6 DEF networkTotals
  <1> HIDE DEF d, rx
  <1> QED  BY <1>1, <1>2, <1>4, <1>5, <1>7, OneContainer

LEMMA DetachStep ==
  ASSUME SamplingTypeOK, NEW c \in Ids, NEW n \in Nets, Detach(c, n)
  PROVE  /\ docker' \in [Ids -> Container]
         /\ \A id \in Ids : Grows(Now(id), Now(id)')
  <1> DEFINE o == docker[c]
             d == [o EXCEPT !.nets = @ \ {n}, !.detached = @ + 1, !.changes = @ + 1]
  <1>1. o \in Container /\ host' = host
    BY DEF SamplingTypeOK, Detach
  <1>2. docker' = [docker EXCEPT ![c] = d]
    BY <1>1 DEF Detach, SamplingTypeOK
  <1>3. d \in Container
    <2>1. o.detached + 1 \in Nat /\ o.changes + 1 \in Nat /\ o.nets \ {n} \in SUBSET Nets
      BY <1>1 DEF Container
    <2> HIDE DEF o
    <2> QED  BY <1>1, <2>1 DEF Container
  <1>4. /\ d.work = o.work /\ d.cpu = o.cpu /\ d.detached = o.detached + 1 /\ d.moved = o.moved
        /\ d.nets = o.nets \ {n} /\ d.rx = o.rx
    BY <1>1 DEF Container
  <1>5. networkTotals(d) <= networkTotals(o)
    <2>1. o.rx \in [Nets -> Nat] /\ o.nets \in SUBSET Nets /\ IsFiniteSet(o.nets)
      BY <1>1, TotalIsNumber DEF Container
    <2>2. \A x \in o.nets : o.rx[x] \in Nat
      BY <2>1
    <2>3. SumFunctionOnSet(o.rx, o.nets \ {n}) <= SumFunctionOnSet(o.rx, o.nets)
      <3> HIDE DEF o
      <3> QED  BY <2>1, <2>2, SumNat
    <2> QED  BY <1>4, <2>3 DEF networkTotals
  <1> HIDE DEF d
  <1> QED  BY <1>1, <1>2, <1>3, <1>4, <1>5, OneContainer

LEMMA StartOrDieStep ==
  ASSUME SamplingTypeOK, NEW c \in Ids, StartOrDie(c)
  PROVE  /\ docker' \in [Ids -> Container]
         /\ \A id \in Ids : Grows(Now(id), Now(id)')
  <1> DEFINE o == docker[c]
             r == ~ docker[c].running
             d == [o EXCEPT !.running = r, !.cpu = 0, !.nets = Nets, !.rx = NoBytes,
                            !.changes = @ + 1]
  <1>1. o \in Container /\ host' = host
    BY DEF SamplingTypeOK, StartOrDie
  <1>2. docker' = [docker EXCEPT ![c] = d]
    BY <1>1 DEF StartOrDie, SamplingTypeOK
  <1>3. d \in Container
    <2>1. o.changes + 1 \in Nat /\ r \in BOOLEAN /\ NoBytes \in [Nets -> Nat]
      BY <1>1 DEF Container, NoBytes
    <2> HIDE DEF o, r
    <2> QED  BY <1>1, <2>1 DEF Container
  <1>4. /\ d.work = o.work /\ d.cpu = 0 /\ d.detached = o.detached /\ d.moved = o.moved
        /\ d.nets = Nets /\ d.rx = NoBytes
    BY <1>1 DEF Container
  <1>5. networkTotals(d) = 0
    <2>1. \A n \in Nets : NoBytes[n] = 0
      BY DEF NoBytes
    <2>2. SumFunctionOnSet(NoBytes, Nets) = 0
      BY <2>1, SumZero, SamplingAssumption
    <2> QED  BY <1>4, <2>2 DEF networkTotals
  <1> HIDE DEF d
  <1> QED  BY <1>1, <1>2, <1>3, <1>4, <1>5, OneContainer

(* The host and the containers do no more than let time pass. *)
LEMMA EnvironmentStep ==
  ASSUME SamplingTypeOK,
         \/ Compute
         \/ \E c \in Ids : StartOrDie(c) \/ \E n \in Nets : Traffic(c, n) \/ Detach(c, n)
  PROVE  /\ SamplingTypeOK'
         /\ UNCHANGED <<streamVars, prevRead, sampled, late>>
         /\ \A id \in Ids : Grows(Now(id), Now(id)')
  <1>1. /\ docker' \in [Ids -> Container]
        /\ \A id \in Ids : Grows(Now(id), Now(id)')
    BY ComputeStep, StartOrDieStep, TrafficStep, DetachStep
  <1>2. host' \in Nat
    <2>1. host \in Nat
      BY DEF SamplingTypeOK
    <2>2. host' \in {host, host + 1}
      <3>1. CASE Compute
        BY <3>1, ComputeStep
      <3>2. CASE ~ Compute
        BY <3>2 DEF StartOrDie, Traffic, Detach
      <3> QED  BY <3>1, <3>2
    <2> QED  BY <2>1, <2>2
  <1>3. UNCHANGED <<streamVars, prevRead, listed, sampled, late>>
    BY DEF Compute, StartOrDie, Traffic, Detach
  <1>4. queue' \in [Ids -> Seq({"start", "die"})]
    <2>1. CASE UNCHANGED queue
      BY <2>1 DEF SamplingTypeOK
    <2>2. ASSUME NEW c \in Ids, StartOrDie(c) PROVE queue' \in [Ids -> Seq({"start", "die"})]
      <3>1. PICK e \in {"start", "die"} : queue' = [queue EXCEPT ![c] = Append(@, e)]
        BY <2>2 DEF StartOrDie
      <3>2. queue \in [Ids -> Seq({"start", "die"})]
        BY DEF SamplingTypeOK
      <3>3. Append(queue[c], e) \in Seq({"start", "die"})
        BY <3>1, <3>2
      <3> QED  BY <3>1, <3>2, <3>3
    <2> QED  BY <2>1, <2>2 DEF Compute, Traffic, Detach
  <1> HIDE DEF Now, Grows
  <1> QED  BY <1>1, <1>2, <1>3, <1>4 DEF SamplingTypeOK, streamVars

(* Streams are opened and closed, and their goroutines return: cached      *)
(* frames are dropped.                                                     *)
LEMMA StreamStep ==
  ASSUME SamplingTypeOK, NEW id \in Ids, HandleEvent(id) \/ Resync(id) \/ Return(id)
  PROVE  /\ SamplingTypeOK'
         /\ UNCHANGED <<host, docker, decoded, sampled, late>>
         /\ statsCache' \in {statsCache, [statsCache EXCEPT ![id] = NoFrame]}
         /\ prevRead' \in {prevRead, [prevRead EXCEPT ![id] = NoFrame]}
  <1>1. /\ UNCHANGED <<host, docker, decoded, listed, sampled, late>>
        /\ statsCache' \in {statsCache, [statsCache EXCEPT ![id] = NoFrame]}
        /\ prevRead' \in {prevRead, [prevRead EXCEPT ![id] = NoFrame]}
    BY DEF HandleEvent, Resync, Return, OpenStream, CloseStream
  <1>2. \/ queue' = queue
        \/ queue[id] # <<>> /\ queue' = [queue EXCEPT ![id] = Tail(queue[id])]
    BY DEF HandleEvent, Resync, Return
  <1>3. queue' \in [Ids -> Seq({"start", "die"})]
    <2>1. queue \in [Ids -> Seq({"start", "die"})]
      BY DEF SamplingTypeOK
    <2>2. queue[id] # <<>> => Tail(queue[id]) \in Seq({"start", "die"})
      BY <2>1
    <2> QED  BY <1>2, <2>1, <2>2
  <1>4. open' \subseteq Ids /\ draining' \subseteq Ids
    <2>1. open \subseteq Ids /\ draining \subseteq Ids
      BY DEF SamplingTypeOK
    <2> QED  BY <2>1 DEF HandleEvent, Resync, Return, OpenStream, CloseStream,
                         Streams!Open, Streams!Close, Streams!Drained
  <1> QED  BY <1>1, <1>3, <1>4 DEF SamplingTypeOK

LEMMA DecodeStep ==
  ASSUME SamplingTypeOK, NEW id \in Ids, Decode(id)
  PROVE  /\ SamplingTypeOK'
         /\ UNCHANGED <<host, docker, statsCache, prevRead, sampled, late>>
         /\ decoded' = [decoded EXCEPT ![id] = @ \cup {CurrentFrame(id)}]
  <1>1. CurrentFrame(id) \in Frame
    BY CurrentIsFrame
  <1>2. /\ UNCHANGED <<host, docker, queue, open, draining, statsCache, prevRead, listed,
                       sampled, late>>
        /\ decoded' = [decoded EXCEPT ![id] = @ \cup {CurrentFrame(id)}]
    BY DEF Decode
  <1>3. decoded \in [Ids -> SUBSET Frame]
    BY DEF SamplingTypeOK
  <1> HIDE DEF CurrentFrame
  <1>4. decoded' \in [Ids -> SUBSET Frame]
    BY <1>1, <1>2, <1>3
  <1> QED  BY <1>2, <1>4 DEF SamplingTypeOK

(* A frame is late that is older than the last sample. *)
LEMMA PublishStep ==
  ASSUME SamplingTypeOK, NEW id \in Ids, Publish(id)
  PROVE  /\ SamplingTypeOK'
         /\ UNCHANGED <<host, docker, prevRead, sampled>>
         /\ \E f \in decoded[id] :
                /\ statsCache' = [statsCache EXCEPT ![id] = f]
                /\ decoded' = [decoded EXCEPT ![id] = @ \ {f}]
                /\ late' = IF sampled[id] # NoFrame /\ f.host < sampled[id].cur.host
                           THEN late \cup {id} ELSE late
  <1>1. PICK f \in decoded[id] :
                /\ statsCache' = [statsCache EXCEPT ![id] = f]
                /\ decoded' = [decoded EXCEPT ![id] = @ \ {f}]
                /\ late' = IF sampled[id] # NoFrame /\ f.host < sampled[id].cur.host
                           THEN late \cup {id} ELSE late
    BY DEF Publish
  <1>2. UNCHANGED <<host, docker, queue, open, draining, prevRead, listed, sampled>>
    BY DEF Publish, Streams!PublishFrame
  <1>3. f \in Frame
    BY DEF SamplingTypeOK
  <1>4. SamplingTypeOK'
    BY <1>1, <1>2, <1>3 DEF SamplingTypeOK
  <1> QED  BY <1>1, <1>2, <1>4

(* What a poll does to one container. *)
LEMMA ProcessStep ==
  ASSUME SamplingTypeOK, NEW id \in Ids, processContainer(id)
  PROVE  /\ SamplingTypeOK'
         /\ UNCHANGED <<host, docker, decoded, statsCache>>
         /\ prevRead' \in {prevRead, [prevRead EXCEPT ![id] = statsCache[id]]}
         /\ \/ /\ statsCache[id] # NoFrame /\ cpuPercent(statsCache[id], prevRead[id])
               /\ prevRead' = [prevRead EXCEPT ![id] = statsCache[id]]
               /\ sampled' = [sampled EXCEPT ![id] =
                                [prev |-> prevRead[id], cur |-> statsCache[id]]]
               /\ late' = late \ {id}
            \/ UNCHANGED <<sampled, late>>
  <1>1. /\ UNCHANGED <<host, docker, queue, open, draining, decoded, statsCache>>
        /\ listed' = listed \ {id}
        /\ prevRead' \in {prevRead, [prevRead EXCEPT ![id] = statsCache[id]]}
        /\ \/ /\ statsCache[id] # NoFrame /\ cpuPercent(statsCache[id], prevRead[id])
              /\ prevRead' = [prevRead EXCEPT ![id] = statsCache[id]]
              /\ sampled' = [sampled EXCEPT ![id] =
                               [prev |-> prevRead[id], cur |-> statsCache[id]]]
              /\ late' = late \ {id}
           \/ UNCHANGED <<sampled, late>>
    BY DEF processContainer, streamVars, Remember
  <1>2. /\ statsCache \in [Ids -> Frame \cup {NoFrame}] /\ prevRead \in [Ids -> Frame \cup {NoFrame}]
        /\ sampled \in [Ids -> [prev : Frame, cur : Frame] \cup {NoFrame}]
    BY DEF SamplingTypeOK
  <1>3. prevRead' \in [Ids -> Frame \cup {NoFrame}]
    BY <1>1, <1>2
  <1>4. sampled' \in [Ids -> [prev : Frame, cur : Frame] \cup {NoFrame}]
    <2>1. CASE UNCHANGED sampled
      BY <1>2, <2>1
    <2>2. CASE /\ statsCache[id] # NoFrame /\ cpuPercent(statsCache[id], prevRead[id])
               /\ sampled' = [sampled EXCEPT ![id] =
                                [prev |-> prevRead[id], cur |-> statsCache[id]]]
      <3>1. statsCache[id] \in Frame /\ prevRead[id] \in Frame
        BY <1>2, <2>2 DEF cpuPercent
      <3> QED  BY <1>2, <2>2, <3>1
    <2> QED  BY <1>1, <2>1, <2>2
  <1>5. listed' \subseteq Ids /\ late' \subseteq Ids
    BY <1>1 DEF SamplingTypeOK
  <1>6. SamplingTypeOK'
    BY <1>1, <1>3, <1>4, <1>5 DEF SamplingTypeOK
  <1> QED  BY <1>1, <1>6

LEMMA OtherStep ==
  ASSUME SamplingTypeOK, List \/ UNCHANGED vars
  PROVE  SamplingTypeOK' /\ UNCHANGED <<host, docker, streamVars, prevRead, sampled, late>>
  BY DEF SamplingTypeOK, List, vars, streamVars

-------------------------------------------------------------------------------
(* The frames that are about. *)

(* Time passes, frames are dropped, and one that is taken now comes in.    *)
LEMMA FramesStep ==
  ASSUME SamplingTypeOK, SamplingTypeOK', FramesInv,
         \A id \in Ids :
            /\ Grows(Now(id), Now(id)')
            /\ About(id)' \subseteq About(id) \cup {Now(id)', BlankFrame}
  PROVE  FramesInv'
  <1> SUFFICES ASSUME NEW id \in Ids
               PROVE  /\ Grows(BlankFrame, Now(id)')
                      /\ \A f \in About(id)' :
                            /\ Grows(BlankFrame, f) /\ Grows(f, Now(id)')
                            /\ \A g \in About(id)' : Comparable(f, g)
    BY DEF FramesInv, Grows, Counts, Comparable, BlankFrame
  <1> DEFINE now == Now(id)  next == Now(id)'
  <1>1. now \in Frame /\ next \in Frame /\ BlankFrame \in Frame
    <2>1. next \in Frame
      <3>1. (Now(id) \in Frame)'
        BY NowIsFrame, PTL
      <3> QED  BY <3>1 DEF Frame
    <2> QED  BY <2>1, NowIsFrame, BlankIsFrame
  <1>2. Grows(BlankFrame, now) /\ Grows(now, next)
    BY DEF FramesInv
  <1>3. ASSUME NEW f \in About(id)
        PROVE  /\ f \in Frame /\ Grows(BlankFrame, f) /\ Grows(f, now)
               /\ \A g \in About(id) : Comparable(f, g)
    BY AboutAreFrames DEF FramesInv
  <1>4. About(id)' \subseteq About(id) \cup {next, BlankFrame}
    OBVIOUS
  <1> HIDE DEF now, next
  <1>5. Grows(BlankFrame, next)
    BY <1>1, <1>2, GrowsIsTransitive
  <1>6. Grows(next, next) /\ Grows(BlankFrame, BlankFrame)
    BY <1>1 DEF Grows, Counts, Frame
  <1>7. ASSUME NEW f \in About(id) \cup {next, BlankFrame}
        PROVE  f \in Frame /\ Grows(BlankFrame, f) /\ Grows(f, next)
    <2>1. CASE f \in About(id)
      BY <1>1, <1>2, <1>3, <2>1, GrowsIsTransitive
    <2> QED  BY <1>1, <1>5, <1>6, <1>7, <2>1
  <1>8. ASSUME NEW f \in About(id) \cup {next, BlankFrame},
               NEW g \in About(id) \cup {next, BlankFrame}
        PROVE  Comparable(f, g)
    <2>1. f.host \in Nat /\ g.host \in Nat /\ f.host <= next.host /\ next.host \in Nat
      BY <1>1, <1>7 DEF Grows, Frame
    <2>2. g.host <= next.host
      BY <1>1, <1>7 DEF Grows, Frame
    <2>3. CASE f \in About(id) /\ g \in About(id)
      BY <1>3, <2>3
    <2>4. CASE g = next
      BY <1>7, <2>4 DEF Comparable
    <2>5. CASE f = next
      BY <2>1, <2>2, <2>5 DEF Comparable
    <2>6. CASE f = BlankFrame
      BY <1>7, <2>6 DEF Comparable
    <2>7. CASE g = BlankFrame
      BY <2>1, <2>7 DEF Comparable, BlankFrame
    <2> QED  BY <2>3, <2>4, <2>5, <2>6, <2>7
  <1>9. ASSUME NEW f \in About(id)'
        PROVE  /\ Grows(BlankFrame, f) /\ Grows(f, next)
               /\ \A g \in About(id)' : Comparable(f, g)
    BY <1>4, <1>7, <1>8, <1>9
  <1> QED  BY <1>5, <1>9 DEF next

(* The same, when no time passes. *)
LEMMA FramesStill ==
  ASSUME SamplingTypeOK, SamplingTypeOK', FramesInv, UNCHANGED <<host, docker>>,
         \A id \in Ids : About(id)' \subseteq About(id) \cup {Now(id), BlankFrame}
  PROVE  FramesInv'
  <1> SUFFICES ASSUME NEW id \in Ids PROVE Grows(Now(id), Now(id)') /\ Now(id)' = Now(id)
    BY FramesStep
  <1>1. Now(id)' = Now(id) /\ Now(id) \in Frame
    BY NowIsFrame DEF Now, networkTotals
  <1> QED  BY <1>1 DEF Grows, Counts, Frame

(* Neither the samples nor what comes after them change, but for frames    *)
(* that are dropped.                                                       *)
LEMMA OrderStays ==
  ASSUME OrderInv, UNCHANGED <<sampled, late>>,
         \A id \in Ids : statsCache'[id] \in {statsCache[id], NoFrame}
                      /\ prevRead'[id] \in {prevRead[id], NoFrame}
  PROVE  OrderInv'
  BY DEF OrderInv

LEMMA InitSamplingInv == Init => SamplingInv
  <1> SUFFICES ASSUME Init PROVE SamplingInv
    OBVIOUS
  <1>1. SamplingTypeOK
    BY InitTypes
  <1>2. ASSUME NEW id \in Ids
        PROVE  About(id) = {} /\ docker[id].work = 0 /\ docker[id].cpu = 0
               /\ docker[id].moved = 0 /\ docker[id].detached = 0 /\ docker[id].rx = NoBytes
    BY DEF Init, About
  <1>3. ASSUME NEW id \in Ids PROVE Grows(BlankFrame, Now(id))
    <2>1. docker[id] \in Container
      BY <1>1 DEF SamplingTypeOK
    <2>2. IsFiniteSet(docker[id].nets) /\ docker[id].nets \in SUBSET Nets
      BY <2>1, TotalIsNumber DEF Container
    <2>3. \A n \in docker[id].nets : NoBytes[n] = 0
      BY <2>2 DEF NoBytes
    <2>4. networkTotals(docker[id]) = 0
      BY <1>2, <2>2, <2>3, SumZero DEF networkTotals
    <2> QED  BY <1>2, <2>4 DEF Grows, Counts, BlankFrame, Now, Init
  <1>4. FramesInv
    BY <1>2, <1>3 DEF FramesInv
  <1>5. OrderInv
    BY DEF Init, OrderInv
  <1> QED  BY <1>1, <1>4, <1>5 DEF SamplingInv

LEMMA NextSamplingInv == SamplingInv /\ [Next]_vars => SamplingInv'
  <1> SUFFICES ASSUME SamplingInv, [Next]_vars PROVE SamplingInv'
    OBVIOUS
  <1> USE DEF SamplingInv
  <1>0. /\ statsCache \in [Ids -> Frame \cup {NoFrame}] /\ prevRead \in [Ids -> Frame \cup {NoFrame}]
        /\ decoded \in [Ids -> SUBSET Frame]
        /\ sampled \in [Ids -> [prev : Frame, cur : Frame] \cup {NoFrame}]
    BY DEF SamplingTypeOK
  <1>1. CASE \/ Compute
             \/ \E c \in Ids : StartOrDie(c) \/ \E n \in Nets : Traffic(c, n) \/ Detach(c, n)
    <2>1. /\ SamplingTypeOK' /\ UNCHANGED <<statsCache, decoded, prevRead, sampled, late>>
          /\ \A id \in Ids : Grows(Now(id), Now(id)')
      BY <1>1, EnvironmentStep DEF streamVars
    <2>2. \A id \in Ids : About(id)' = About(id)
      BY <2>1 DEF About
    <2> QED  BY <2>1, <2>2, FramesStep, OrderStays
  <1>2. ASSUME NEW id \in Ids, HandleEvent(id) \/ Resync(id) \/ Return(id)
        PROVE  SamplingInv'
    <2>1. /\ SamplingTypeOK' /\ UNCHANGED <<host, docker, decoded, sampled, late>>
          /\ statsCache' \in {statsCache, [statsCache EXCEPT ![id] = NoFrame]}
          /\ prevRead' \in {prevRead, [prevRead EXCEPT ![id] = NoFrame]}
      BY <1>2, StreamStep
    <2>2. \A x \in Ids : statsCache'[x] \in {statsCache[x], NoFrame}
                      /\ prevRead'[x] \in {prevRead[x], NoFrame}
      BY <1>0, <2>1
    <2>3. \A x \in Ids : About(x)' \subseteq About(x)
      BY <2>1, <2>2 DEF About
    <2> QED  BY <2>1, <2>2, <2>3, FramesStill, OrderStays
  <1>3. ASSUME NEW id \in Ids, Decode(id)
        PROVE  SamplingInv'
    <2>1. /\ SamplingTypeOK' /\ UNCHANGED <<host, docker, statsCache, prevRead, sampled, late>>
          /\ decoded' = [decoded EXCEPT ![id] = @ \cup {CurrentFrame(id)}]
      BY <1>3, DecodeStep
    <2>2. CurrentFrame(id) \in {Now(id), BlankFrame}
      BY CurrentIsFrame
    <2>3. \A x \in Ids : decoded'[x] \subseteq decoded[x] \cup {Now(x), BlankFrame}
      BY <1>0, <2>1, <2>2
    <2>4. \A x \in Ids : About(x)' \subseteq About(x) \cup {Now(x), BlankFrame}
      BY <2>1, <2>3 DEF About
    <2> QED  BY <2>1, <2>4, FramesStill, OrderStays
  <1>4. ASSUME NEW id \in Ids, Publish(id)
        PROVE  SamplingInv'
    <2>1. SamplingTypeOK' /\ UNCHANGED <<host, docker, prevRead, sampled>>
      BY <1>4, PublishStep
    <2>2. PICK f \in decoded[id] :
                /\ statsCache' = [statsCache EXCEPT ![id] = f]
                /\ decoded' = [decoded EXCEPT ![id] = @ \ {f}]
                /\ late' = IF sampled[id] # NoFrame /\ f.host < sampled[id].cur.host
                           THEN late \cup {id} ELSE late
      BY <1>4, PublishStep
    <2>3. /\ statsCache'[id] = f /\ decoded'[id] = decoded[id] \ {f}
          /\ \A x \in Ids \ {id} : statsCache'[x] = statsCache[x] /\ decoded'[x] = decoded[x]
      BY <1>0, <2>2
    <2>4. \A x \in Ids : About(x)' \subseteq About(x)
      BY <2>1, <2>3 DEF About
    <2>5. OrderInv'
      <3> SUFFICES ASSUME NEW x \in Ids, sampled[x] # NoFrame, x \notin late',
                          NEW g \in {statsCache'[x], prevRead[x]} \ {NoFrame}
                   PROVE  g.host >= sampled[x].cur.host
        BY <2>1 DEF OrderInv
      <3>1. x \notin late
        BY <2>2
      <3>2. CASE g \in {statsCache[x], prevRead[x]}
        BY <3>1, <3>2 DEF OrderInv
      <3>3. CASE g \notin {statsCache[x], prevRead[x]}
        <4>1. x = id /\ g = f
          BY <2>3, <3>3
        <4>2. ~ (f.host < sampled[id].cur.host)
          BY <2>2, <4>1
        <4>3. f.host \in Nat /\ sampled[id].cur.host \in Nat
          BY <1>0, <4>1 DEF Frame
        <4> QED  BY <4>1, <4>2, <4>3
      <3> QED  BY <3>2, <3>3
    <2> QED  BY <2>1, <2>4, <2>5, FramesStill
  <1>5. ASSUME NEW id \in Ids, processContainer(id)
        PROVE  SamplingInv'
    <2> DEFINE cur == statsCache[id]  prev == prevRead[id]
    <2>1. /\ SamplingTypeOK' /\ UNCHANGED <<host, docker, decoded, statsCache>>
          /\ prevRead' \in {prevRead, [prevRead EXCEPT ![id] = cur]}
          /\ \/ /\ cur # NoFrame /\ prevRead' = [prevRead EXCEPT ![id] = cur]
                /\ sampled' = [sampled EXCEPT ![id] = [prev |-> prev, cur |-> cur]]
                /\ late' = late \ {id}
             \/ UNCHANGED <<sampled, late>>
      BY <1>5, ProcessStep
    <2>2. /\ prevRead'[id] \in {prev, cur}
          /\ \A x \in Ids \ {id} : prevRead'[x] = prevRead[x] /\ sampled'[x] = sampled[x]
          /\ \A x \in Ids \ {id} : x \in late' <=> x \in late
          /\ \/ /\ cur # NoFrame /\ sampled'[id].cur = cur /\ prevRead'[id] = cur
             \/ sampled'[id] = sampled[id] /\ (id \in late' <=> id \in late)
      BY <1>0, <2>1
    <2>3. \A x \in Ids : About(x)' \subseteq About(x)
      <3>1. About(id)' \subseteq About(id)
        BY <2>1, <2>2 DEF About
      <3>2. \A x \in Ids \ {id} : About(x)' = About(x)
        BY <2>1, <2>2 DEF About
      <3> QED  BY <3>1, <3>2
    <2>4. OrderInv'
      <3> SUFFICES ASSUME NEW x \in Ids, sampled'[x] # NoFrame, x \notin late',
                          NEW g \in {statsCache[x], prevRead'[x]} \ {NoFrame}
                   PROVE  g.host >= sampled'[x].cur.host
        BY <2>1 DEF OrderInv
      <3>1. CASE x # id
        BY <2>2, <3>1 DEF OrderInv
      <3>2. CASE x = id /\ sampled'[id] = sampled[id] /\ (id \in late' <=> id \in late)
        BY <2>2, <3>2 DEF OrderInv
      <3>3. CASE x = id /\ cur # NoFrame /\ sampled'[id].cur = cur /\ prevRead'[id] = cur
        <4>1. g = cur /\ cur.host \in Nat
          BY <1>0, <3>3 DEF Frame
        <4> QED  BY <3>3, <4>1
      <3> QED  BY <2>2, <3>1, <3>2, <3>3
    <2> QED  BY <2>1, <2>3, <2>4, FramesStill
  <1>6. CASE List \/ UNCHANGED vars
    <2>1. SamplingTypeOK' /\ UNCHANGED <<host, docker, statsCache, decoded, prevRead, sampled, late>>
      BY <1>6, OtherStep DEF streamVars
    <2>2. \A x \in Ids : About(x)' \subseteq About(x)
      BY <2>1 DEF About
    <2> QED  BY <2>1, <2>2, FramesStill, OrderStays
  <1> QED  BY <1>1, <1>2, <1>3, <1>4, <1>5, <1>6 DEF Next

-------------------------------------------------------------------------------
(* The theorems. *)

(* In every state of the sampling of a container the invariant holds. *)
THEOREM SamplingInvariant == Spec => []SamplingInv
  BY InitSamplingInv, NextSamplingInv, PTL DEF Spec

(* The totals over any interfaces are numbers, and the frames, pairs and   *)
(* events of a container what they should be (watcher.go, stats.go:52-58). *)
THEOREM SamplingTypes == Spec => []SamplingTypeOK
  <1>1. SamplingInv => SamplingTypeOK
    BY DEF SamplingInv
  <1> QED  BY <1>1, SamplingInvariant, PTL

(* Samples are made by processContainer, of the frames it finds.           *)
LEMMA SampleIsMade ==
  ASSUME SamplingInv, [Next]_vars, NEW id \in Ids, sampled'[id] # sampled[id]
  PROVE  /\ statsCache[id] # NoFrame /\ cpuPercent(statsCache[id], prevRead[id])
         /\ sampled'[id] = [prev |-> prevRead[id], cur |-> statsCache[id]]
         /\ statsCache[id] \in About(id) /\ statsCache[id] \in Frame
         /\ prevRead[id] # NoFrame /\ prevRead[id] \in About(id) /\ prevRead[id] \in Frame
  <1>1. PICK c \in Ids : processContainer(c)
    <2>1. ~ UNCHANGED sampled
      OBVIOUS
    <2>2. ~ (UNCHANGED vars \/ Compute \/ List)
      BY <2>1 DEF vars, Compute, List
    <2>3. ASSUME NEW x \in Ids, NEW n \in Nets PROVE ~ (Traffic(x, n) \/ Detach(x, n))
      BY <2>1 DEF Traffic, Detach
    <2>4. ASSUME NEW x \in Ids
          PROVE  ~ (\/ StartOrDie(x) \/ HandleEvent(x) \/ Resync(x) \/ Decode(x) \/ Publish(x)
                    \/ Return(x))
      BY <2>1 DEF StartOrDie, HandleEvent, Resync, Decode, Publish, Return
    <2> QED  BY <2>2, <2>3, <2>4 DEF Next
  <1>2. /\ sampled \in [Ids -> [prev : Frame, cur : Frame] \cup {NoFrame}]
        /\ statsCache[id] \in Frame \cup {NoFrame} /\ prevRead[id] \in Frame \cup {NoFrame}
    BY DEF SamplingInv, SamplingTypeOK
  <1>3. /\ statsCache[c] # NoFrame /\ cpuPercent(statsCache[c], prevRead[c])
        /\ sampled' = [sampled EXCEPT ![c] = [prev |-> prevRead[c], cur |-> statsCache[c]]]
    BY <1>1 DEF processContainer
  <1>4. c = id
    BY <1>2, <1>3
  <1>5. prevRead[id] # NoFrame
    BY <1>3, <1>4 DEF cpuPercent
  <1> QED  BY <1>2, <1>3, <1>4, <1>5 DEF About

(* For any containers and any number of restarts, and for frames that are  *)
(* late, repeated or blank: the CPU share of a sample is that of a real    *)
(* interval (stats.go:17-32).                                              *)
THEOREM SampledRatesAreReal == Spec => RatesAreReal
  <1> DEFINE Real ==
        \A id \in Ids : NewSample(id) =>
            LET cur == sampled'[id].cur  prev == sampled'[id].prev IN
            /\ HostDelta(cur, prev) > 0
            /\ CpuDelta(cur, prev) \in 0..(cur.work - prev.work)
            /\ CpuDelta(cur, prev) <= HostDelta(cur, prev)
  <1>1. SamplingInv /\ [Next]_vars => [Real]_vars
    <2> SUFFICES ASSUME SamplingInv, [Next]_vars, NEW id \in Ids, NewSample(id)
                 PROVE  LET cur == sampled'[id].cur  prev == sampled'[id].prev IN
                        /\ HostDelta(cur, prev) > 0
                        /\ CpuDelta(cur, prev) \in 0..(cur.work - prev.work)
                        /\ CpuDelta(cur, prev) <= HostDelta(cur, prev)
      OBVIOUS
    <2> DEFINE cur == statsCache[id]  prev == prevRead[id]
    <2>1. sampled'[id] # sampled[id]
      BY DEF NewSample
    <2>2. /\ cpuPercent(cur, prev) /\ prev # NoFrame
          /\ sampled'[id] = [prev |-> prev, cur |-> cur]
          /\ cur \in About(id) /\ cur \in Frame /\ prev \in About(id) /\ prev \in Frame
      BY <2>1, SampleIsMade
    <2>3. Comparable(prev, cur)
      BY <2>2 DEF SamplingInv, FramesInv
    <2> HIDE DEF cur, prev
    <2>4. /\ HostDelta(cur, prev) > 0
          /\ CpuDelta(cur, prev) \in 0..(cur.work - prev.work)
          /\ CpuDelta(cur, prev) <= HostDelta(cur, prev)
      BY <2>2, <2>3 DEF Frame, cpuPercent, Comparable, Grows, HostDelta, CpuDelta
    <2> QED  BY <2>2, <2>4
  <1>2. Spec => [][Real]_vars
    BY <1>1, SamplingInvariant, PTL DEF Spec
  <1> QED  BY <1>2 DEF RatesAreReal

(* A sample that overlaps the one before it follows a frame that was late  *)
(* or blank (watcher.go:318).                                              *)
THEOREM StretchesAreSampledOnce == Spec => NoStretchTwice
  <1> DEFINE Once ==
        \A id \in Ids : NewSample(id) /\ sampled[id] # NoFrame =>
            \/ sampled'[id].prev.host >= sampled[id].cur.host
            \/ id \in late
  <1>1. SamplingInv /\ [Next]_vars => [Once]_vars
    <2> SUFFICES ASSUME SamplingInv, [Next]_vars, NEW id \in Ids, NewSample(id), sampled[id] # NoFrame
                 PROVE  sampled'[id].prev.host >= sampled[id].cur.host \/ id \in late
      OBVIOUS
    <2>1. sampled'[id] # sampled[id]
      BY DEF NewSample
    <2>2. sampled'[id].prev = prevRead[id] /\ prevRead[id] # NoFrame
      <3>1. /\ prevRead[id] # NoFrame
            /\ sampled'[id] = [prev |-> prevRead[id], cur |-> statsCache[id]]
        BY <2>1, SampleIsMade
      <3> QED  BY <3>1
    <2> QED  BY <2>2 DEF SamplingInv, OrderInv
  <1>2. Spec => [][Once]_vars
    BY <1>1, SamplingInvariant, PTL DEF Spec
  <1> QED  BY <1>2 DEF NoStretchTwice

(* For any interfaces and any number of restarts: what the aggregator      *)
(* makes of two samples in a row has moved between them; when an interface *)
(* was taken away between the two, or a late frame came in, it has moved   *)
(* at some time of the container's life (stats.go:52-58,                   *)
(* aggregate.go:133-137).                                                  *)
THEOREM SampledBytesHaveMoved == Spec => BytesHaveMoved
  <1> DEFINE Moved ==
        \A id \in Ids : NewSample(id) =>
            LET s == sampled'[id].cur
                p == IF sampled[id] = NoFrame THEN BlankFrame ELSE sampled[id].cur
            IN  Increment(p, s) <= IF s.detached # p.detached \/ id \in late
                                   THEN s.moved ELSE s.moved - p.moved
  <1>1. SamplingInv /\ [Next]_vars => [Moved]_vars
    <2> SUFFICES ASSUME SamplingInv, [Next]_vars, NEW id \in Ids, NewSample(id)
                 PROVE  LET s == sampled'[id].cur
                            p == IF sampled[id] = NoFrame THEN BlankFrame ELSE sampled[id].cur
                        IN  Increment(p, s) <= IF s.detached # p.detached \/ id \in late
                                               THEN s.moved ELSE s.moved - p.moved
      OBVIOUS
    <2> DEFINE s == statsCache[id]  prev == prevRead[id]
               p == IF sampled[id] = NoFrame THEN BlankFrame ELSE sampled[id].cur
    <2>1. sampled'[id] # sampled[id]
      BY DEF NewSample
    <2>2. /\ cpuPercent(s, prev) /\ prev # NoFrame
          /\ sampled'[id] = [prev |-> prev, cur |-> s]
          /\ s \in About(id) /\ s \in Frame /\ prev \in Frame
      BY <2>1, SampleIsMade
    <2>3. p \in Frame
      <3>1. CASE sampled[id] = NoFrame
        BY <3>1, BlankIsFrame
      <3>2. CASE sampled[id] # NoFrame
        BY <3>2, AboutAreFrames DEF About, SamplingInv
      <3> QED  BY <3>1, <3>2
    <2>4. Grows(BlankFrame, s)
      BY <2>2 DEF SamplingInv, FramesInv
    <2>5. ASSUME id \notin late PROVE Grows(p, s)
      <3>1. CASE sampled[id] = NoFrame
        BY <2>4, <3>1
      <3>2. CASE sampled[id] # NoFrame
        <4>1. p \in About(id)
          BY <3>2 DEF About
        <4>2. prev.host >= p.host
          BY <2>2, <2>5, <3>2 DEF SamplingInv, OrderInv
        <4>3. Comparable(p, s)
          BY <2>2, <4>1 DEF SamplingInv, FramesInv
        <4> HIDE DEF p, s, prev
        <4>4. p.host < s.host
          BY <2>2, <2>3, <4>2 DEF Frame, cpuPercent, HostDelta
        <4> QED  BY <4>3, <4>4 DEF Comparable
      <3> QED  BY <3>1, <3>2
    <2> HIDE DEF p, s, prev
    <2>6. Increment(p, s) <= s.moved
      BY <2>2, <2>3, <2>4 DEF Frame, Grows, Counts, BlankFrame, Increment
    <2>7. id \notin late /\ s.detached = p.detached => Increment(p, s) <= s.moved - p.moved
      BY <2>2, <2>3, <2>5 DEF Frame, Grows, Counts, Increment
    <2>8. sampled'[id].cur = s
      BY <2>2
    <2> QED  BY <2>6, <2>7, <2>8 DEF p, Increment
  <1>2. Spec => [][Moved]_vars
    BY <1>1, SamplingInvariant, PTL DEF Spec
  <1> QED  BY <1>2 DEF BytesHaveMoved

-------------------------------------------------------------------------------
(* The streams are those of the registry. *)

LEMMA RegistryStays ==
  ASSUME UNCHANGED <<open, draining, statsCache>>
  PROVE  UNCHANGED Streams!registryVars
  BY DEF Streams!registryVars

LEMMA StepIsRegistryStep == [Next]_vars => [Streams!RegistryNext]_(Streams!registryVars)
  <1> SUFFICES ASSUME [Next]_vars
               PROVE  Streams!RegistryNext \/ UNCHANGED Streams!registryVars
    OBVIOUS
  <1>1. ASSUME NEW id \in Ids, OpenStream(id)
        PROVE  Streams!RegistryNext \/ UNCHANGED Streams!registryVars
    BY <1>1, RegistryStays DEF OpenStream, Streams!RegistryNext
  <1>2. ASSUME NEW id \in Ids, CloseStream(id)
        PROVE  Streams!RegistryNext
    BY <1>2 DEF CloseStream, Streams!RegistryNext
  <1>3. ASSUME NEW id \in Ids, HandleEvent(id) \/ Resync(id)
        PROVE  Streams!RegistryNext \/ UNCHANGED Streams!registryVars
    <2>1. OpenStream(id) \/ CloseStream(id) \/ UNCHANGED <<open, draining, statsCache>>
      BY <1>3 DEF HandleEvent, Resync
    <2> QED  BY <2>1, <1>1, <1>2, RegistryStays
  <1>4. ASSUME NEW id \in Ids, Publish(id) \/ Return(id)
        PROVE  Streams!RegistryNext
    BY <1>4 DEF Publish, Return, Streams!RegistryNext
  <1>5. ASSUME NEW id \in Ids, \/ \E n \in Nets : Traffic(id, n) \/ Detach(id, n)
                               \/ StartOrDie(id) \/ Decode(id) \/ processContainer(id)
        PROVE  UNCHANGED <<open, draining, statsCache>>
    BY <1>5 DEF Traffic, Detach, StartOrDie, Decode, processContainer, streamVars
  <1>6. CASE Compute \/ List \/ UNCHANGED vars
    <2>1. UNCHANGED <<open, draining, statsCache>>
      BY <1>6 DEF Compute, List, vars, streamVars
    <2> QED  BY <2>1, RegistryStays
  <1> QED  BY <1>3, <1>4, <1>5, <1>6, RegistryStays DEF Next

(* The event thread and the poller use the streams as the registry allows, *)
(* a frame being cached when it is the container's entry of statsCache, so *)
(* that what StatsStreams does behind it is what the samples are made of   *)
(* (watcher.go:187-257).                                                   *)
THEOREM SamplingUsesRegistry == Spec => Streams!RegistrySpec
  <1>1. Init => Streams!RegistryInit
    BY DEF Init
  <1> QED  BY <1>1, StepIsRegistryStep, PTL DEF Spec, Streams!RegistrySpec
===============================================================================
