-------------------------- MODULE StatsStreamsProofs --------------------------
(***************************************************************************)
(* Proofs about StatsStreams, for any set of containers and of goroutines. *)
(* The conjunction of the three safety invariants with the type invariant  *)
(* is inductive; the refinement of StreamRegistry rests on it.             *)
(***************************************************************************)
EXTENDS StatsStreams, TLAPS

StreamsInv ==
    TypeOK /\ FramePublisherAlive /\ UnregisteredIsCancelled /\ RegisteredIsLive

(* Where a goroutine goes next at a test of its context. *)
LEMMA ResumePlace ==
    ASSUME NEW w \in Workers, NEW next \in Places \ {"idle", "exiting"}
    PROVE  /\ Resume(w, next) \in Places
           /\ Resume(w, next) # "idle"
           /\ Resume(w, next) = "exiting" => Done(w)
  BY DEF Resume, Places

(* The initial state satisfies the inductive invariant. *)
LEMMA InitInv == Init => StreamsInv
  BY NoneAssumption DEF Init, StreamsInv, TypeOK, Places, FramePublisherAlive,
     UnregisteredIsCancelled, RegisteredIsLive, Alive

(* A step of a goroutine that touches no map and neither starts nor ends   *)
(* it keeps the invariant, if it heads for the exit only when done.        *)
LEMMA MoveKeepsInv ==
    ASSUME StreamsInv,
           NEW w \in Workers, Alive(w),
           NEW place \in Places \ {"idle"},
           place = "exiting" => Done(w),
           Goto(w, place),
           UNCHANGED <<maps, owner, cancelled, toCancel, ctxDone>>
    PROVE  StreamsInv'
  BY NoneAssumption DEF StreamsInv, TypeOK, FramePublisherAlive,
     UnregisteredIsCancelled, RegisteredIsLive, Alive, Done, Goto, maps

LEMMA StartKeepsInv ==
    ASSUME StreamsInv, NEW id \in Ids, StartStatsStream(id)
    PROVE  StreamsInv'
<1>1. PICK w \in Workers :
        /\ ~Alive(w) /\ ~Registered(w)
        /\ streamCancel' = [streamCancel EXCEPT ![id] = w]
        /\ pc' = [pc EXCEPT ![w] = "opening"]
        /\ owner' = [owner EXCEPT ![w] = id]
        /\ cancelled' = cancelled \ {w}
  BY DEF StartStatsStream
<1>2. toCancel = {} /\ streamCancel[id] = None
      /\ UNCHANGED <<statsCache, prevRead, toCancel, ctxDone>>
  BY DEF StartStatsStream
<1>3. TypeOK'
  BY <1>1, <1>2 DEF StreamsInv, TypeOK, Places
<1>4. FramePublisherAlive'
  BY <1>1, <1>2, NoneAssumption DEF StreamsInv, TypeOK, FramePublisherAlive, Alive
<1>5. UnregisteredIsCancelled'
  <2>. SUFFICES ASSUME NEW v \in Workers, Alive(v)', v \notin (cancelled \cup toCancel)'
                PROVE  streamCancel'[owner'[v]] = v
    BY DEF UnregisteredIsCancelled
  <2>1. CASE v = w
    BY <2>1, <1>1 DEF StreamsInv, TypeOK
  <2>2. CASE v # w
    <3>1. Alive(v) /\ v \notin cancelled \cup toCancel /\ owner'[v] = owner[v]
      BY <2>2, <1>1, <1>2 DEF StreamsInv, TypeOK, Alive
    <3>2. streamCancel[owner[v]] = v
      BY <3>1 DEF StreamsInv, UnregisteredIsCancelled
    <3>3. owner[v] # id
      BY <3>2, <1>2, NoneAssumption
    <3>. QED
      BY <3>1, <3>2, <3>3, <1>1 DEF StreamsInv, TypeOK
  <2>. QED
    BY <2>1, <2>2
<1>6. RegisteredIsLive'
  <2>. SUFFICES ASSUME NEW i \in Ids, streamCancel'[i] # None
                PROVE  /\ streamCancel'[i] \notin (cancelled \cup toCancel)'
                       /\ owner'[streamCancel'[i]] = i
                       /\ pc'[streamCancel'[i]] \in {"idle", "exiting"} => ctxDone'
    BY DEF RegisteredIsLive
  <2>1. CASE i = id
    BY <2>1, <1>1, <1>2 DEF StreamsInv, TypeOK
  <2>2. CASE i # id
    <3>1. streamCancel'[i] = streamCancel[i] /\ streamCancel[i] \in Workers \ {w}
      BY <2>2, <1>1 DEF StreamsInv, TypeOK, Registered
    <3>. QED
      BY <3>1, <1>1, <1>2 DEF StreamsInv, TypeOK, RegisteredIsLive
  <2>. QED
    BY <2>1, <2>2
<1>. QED
  BY <1>3, <1>4, <1>5, <1>6 DEF StreamsInv

LEMMA StopKeepsInv ==
    ASSUME StreamsInv, NEW id \in Ids, StopStatsStream(id)
    PROVE  StreamsInv'
<1>. DEFINE w == streamCancel[id]
<1>1. /\ toCancel = {} /\ w \in Workers
      /\ toCancel' = {w}
      /\ streamCancel' = [streamCancel EXCEPT ![id] = None]
      /\ statsCache' = [statsCache EXCEPT ![id] = None]
      /\ prevRead' = [prevRead EXCEPT ![id] = None]
      /\ UNCHANGED <<pc, owner, cancelled, ctxDone>>
  BY DEF StopStatsStream, StreamsInv, TypeOK
<1>2. owner[w] = id
  BY <1>1, NoneAssumption DEF StreamsInv, RegisteredIsLive
<1>3. TypeOK'
  BY <1>1 DEF StreamsInv, TypeOK
<1>4. FramePublisherAlive'
  BY <1>1 DEF StreamsInv, TypeOK, FramePublisherAlive, Alive
<1>5. UnregisteredIsCancelled'
  BY <1>1, <1>2 DEF StreamsInv, TypeOK, UnregisteredIsCancelled, Alive
<1>6. RegisteredIsLive'
  BY <1>1, <1>2 DEF StreamsInv, TypeOK, RegisteredIsLive
<1>. QED
  BY <1>3, <1>4, <1>5, <1>6 DEF StreamsInv

LEMMA ResyncKeepsInv ==
    ASSUME StreamsInv, NEW running \in SUBSET Ids, ResyncStreams(running)
    PROVE  StreamsInv'
<1>. DEFINE dropped == {id \in Ids \ running : streamCancel[id] # None}
<1>1. /\ toCancel = {}
      /\ toCancel' = {streamCancel[id] : id \in dropped}
      /\ streamCancel' = [id \in Ids |-> IF id \in dropped THEN None ELSE streamCancel[id]]
      /\ statsCache' = [id \in Ids |-> IF id \in dropped THEN None ELSE statsCache[id]]
      /\ UNCHANGED <<prevRead, pc, owner, cancelled, ctxDone>>
  BY DEF ResyncStreams
<1>2. TypeOK'
  BY <1>1 DEF StreamsInv, TypeOK
<1>3. FramePublisherAlive'
  BY <1>1 DEF StreamsInv, TypeOK, FramePublisherAlive, Alive
<1>4. UnregisteredIsCancelled'
  <2>. SUFFICES ASSUME NEW v \in Workers, Alive(v)', v \notin (cancelled \cup toCancel)'
                PROVE  streamCancel'[owner'[v]] = v
    BY DEF UnregisteredIsCancelled
  <2>1. streamCancel[owner[v]] = v /\ owner[v] \in Ids
    BY <1>1 DEF StreamsInv, TypeOK, UnregisteredIsCancelled, Alive
  <2>2. owner[v] \notin dropped
    BY <2>1, <1>1
  <2>. QED
    BY <2>1, <2>2, <1>1
<1>5. RegisteredIsLive'
  <2>. SUFFICES ASSUME NEW i \in Ids, streamCancel'[i] # None
                PROVE  /\ streamCancel'[i] \notin (cancelled \cup toCancel)'
                       /\ owner'[streamCancel'[i]] = i
                       /\ pc'[streamCancel'[i]] \in {"idle", "exiting"} => ctxDone'
    BY DEF RegisteredIsLive
  <2>1. i \notin dropped /\ streamCancel'[i] = streamCancel[i]
    BY <1>1
  <2>2. /\ streamCancel[i] \notin cancelled
        /\ owner[streamCancel[i]] = i
        /\ pc[streamCancel[i]] \in {"idle", "exiting"} => ctxDone
    BY <2>1 DEF StreamsInv, RegisteredIsLive
  <2>3. \A d \in dropped : owner[streamCancel[d]] = d
    BY DEF StreamsInv, RegisteredIsLive
  <2>4. streamCancel[i] \notin toCancel'
    BY <2>1, <2>2, <2>3, <1>1
  <2>. QED
    BY <2>1, <2>2, <2>4, <1>1
<1>. QED
  BY <1>2, <1>3, <1>4, <1>5 DEF StreamsInv

LEMMA WorkerKeepsInv ==
    ASSUME StreamsInv, NEW w \in Workers, WorkerStep(w)
    PROVE  StreamsInv'
<1>1. CASE OpenStream(w)
  <2>1. Alive(w)
    BY <1>1 DEF OpenStream, Alive
  <2>2. UNCHANGED <<maps, owner, cancelled, toCancel, ctxDone>>
    BY <1>1 DEF OpenStream
  <2>3. CASE Goto(w, Resume(w, "decoding"))
    BY <2>1, <2>2, <2>3, ResumePlace, MoveKeepsInv DEF Places
  <2>4. CASE Goto(w, Resume(w, "backoff"))
    BY <2>1, <2>2, <2>4, ResumePlace, MoveKeepsInv DEF Places
  <2>. QED
    BY <1>1, <2>3, <2>4 DEF OpenStream
<1>2. CASE BackoffDone(w)
  <2>1. /\ Alive(w)
        /\ Goto(w, Resume(w, "opening"))
        /\ UNCHANGED <<maps, owner, cancelled, toCancel, ctxDone>>
    BY <1>2 DEF BackoffDone, Alive
  <2>. QED
    BY <2>1, ResumePlace, MoveKeepsInv DEF Places
<1>3. CASE Decode(w)
  <2>1. Alive(w)
    BY <1>3 DEF Decode, Alive
  <2>2. UNCHANGED <<maps, owner, cancelled, toCancel, ctxDone>>
    BY <1>3 DEF Decode
  <2>3. CASE Goto(w, "publishing")
    BY <2>1, <2>2, <2>3, MoveKeepsInv DEF Places
  <2>4. CASE Goto(w, Resume(w, "opening"))
    BY <2>1, <2>2, <2>4, ResumePlace, MoveKeepsInv DEF Places
  <2>. QED
    BY <1>3, <2>3, <2>4 DEF Decode
<1>4. CASE Publish(w)
  <2>. DEFINE place == Resume(w, "decoding")
  <2>1. /\ Alive(w)
        /\ statsCache' = [statsCache EXCEPT ![owner[w]] = w]
        /\ pc' = [pc EXCEPT ![w] = place]
        /\ UNCHANGED <<streamCancel, prevRead, owner, cancelled, toCancel, ctxDone>>
    BY <1>4 DEF Publish, Alive, Goto
  <2>2. place \in Places /\ place # "idle" /\ (place = "exiting" => Done(w))
    BY ResumePlace DEF Places
  <2>. HIDE DEF place
  <2>3. TypeOK'
    BY <2>1, <2>2 DEF StreamsInv, TypeOK
  <2>4. FramePublisherAlive'
    BY <2>1, <2>2 DEF StreamsInv, TypeOK, FramePublisherAlive, Alive
  <2>5. UnregisteredIsCancelled'
    BY <2>1, <2>2 DEF StreamsInv, TypeOK, UnregisteredIsCancelled, Alive
  <2>6. RegisteredIsLive'
    BY <2>1, <2>2 DEF StreamsInv, TypeOK, RegisteredIsLive, Alive, Done
  <2>. QED
    BY <2>3, <2>4, <2>5, <2>6 DEF StreamsInv
<1>5. CASE Exit(w)
  <2>1. /\ pc[w] = "exiting"
        /\ statsCache' = [statsCache EXCEPT ![owner[w]] = None]
        /\ pc' = [pc EXCEPT ![w] = "idle"]
        /\ UNCHANGED <<streamCancel, prevRead, owner, cancelled, toCancel, ctxDone>>
    BY <1>5 DEF Exit, Goto
  <2>2. TypeOK'
    BY <2>1 DEF StreamsInv, TypeOK, Places
  <2>3. FramePublisherAlive'
    BY <2>1 DEF StreamsInv, TypeOK, FramePublisherAlive, Alive
  <2>4. UnregisteredIsCancelled'
    BY <2>1 DEF StreamsInv, TypeOK, UnregisteredIsCancelled, Alive
  <2>5. RegisteredIsLive'
    BY <2>1 DEF StreamsInv, TypeOK, RegisteredIsLive
  <2>. QED
    BY <2>2, <2>3, <2>4, <2>5 DEF StreamsInv
<1>. QED
  BY <1>1, <1>2, <1>3, <1>4, <1>5 DEF WorkerStep

(* Every step keeps the inductive invariant. *)
LEMMA NextInv == StreamsInv /\ [Next]_vars => StreamsInv'
<1>. SUFFICES ASSUME StreamsInv, [Next]_vars PROVE StreamsInv'
  OBVIOUS
<1>1. ASSUME NEW id \in Ids, StartStatsStream(id) PROVE StreamsInv'
  BY <1>1, StartKeepsInv
<1>2. ASSUME NEW id \in Ids, StopStatsStream(id) PROVE StreamsInv'
  BY <1>2, StopKeepsInv
<1>3. ASSUME NEW id \in Ids, ReadFrame(id) PROVE StreamsInv'
  BY <1>3 DEF ReadFrame, StreamsInv, TypeOK, FramePublisherAlive,
     UnregisteredIsCancelled, RegisteredIsLive, Alive
<1>4. ASSUME NEW running \in SUBSET Ids, ResyncStreams(running) PROVE StreamsInv'
  BY <1>4, ResyncKeepsInv
<1>5. ASSUME NEW w \in Workers, Cancel(w) PROVE StreamsInv'
  BY <1>5 DEF Cancel, maps, StreamsInv, TypeOK, FramePublisherAlive,
     UnregisteredIsCancelled, RegisteredIsLive, Alive
<1>6. ASSUME NEW w \in Workers, WorkerStep(w) PROVE StreamsInv'
  BY <1>6, WorkerKeepsInv
<1>7. CASE Shutdown
  BY <1>7 DEF Shutdown, maps, StreamsInv, TypeOK, FramePublisherAlive,
     UnregisteredIsCancelled, RegisteredIsLive, Alive
<1>8. CASE UNCHANGED vars
  BY <1>8 DEF vars, maps, StreamsInv, TypeOK, FramePublisherAlive,
     UnregisteredIsCancelled, RegisteredIsLive, Alive
<1>. QED
  BY <1>1, <1>2, <1>3, <1>4, <1>5, <1>6, <1>7, <1>8 DEF Next

(* The invariant holds in every reachable state. *)
THEOREM StreamsSafe == Spec => []StreamsInv
  BY InitInv, NextInv, PTL DEF Spec

(* Type correctness of the stream maps and goroutines. *)
THEOREM StreamsTypeOK == Spec => []TypeOK
  BY StreamsSafe, PTL DEF StreamsInv

(* No cached frame outlives the goroutine that decoded it. *)
THEOREM FramesHaveLivePublisher == Spec => []FramePublisherAlive
  BY StreamsSafe, PTL DEF StreamsInv

(* A goroutine that nobody cancels is registered, and a registered one is  *)
(* alive, serves its container and is not cancelled.                       *)
THEOREM NoLeakNorDeadEntry == Spec => []EntriesMatchWorkers
  BY StreamsSafe, PTL DEF StreamsInv, EntriesMatchWorkers

-------------------------------------------------------------------------------
(* Refinement of StreamRegistry, one lemma per kind of step. *)

mapped == <<OpenStreams, DrainingStreams, CachedFrames>>

LEMMA StartRefines ==
    ASSUME StreamsInv, NEW id \in Ids, StartStatsStream(id)
    PROVE  Registry!Open(id)
<1>1. PICK w \in Workers :
        /\ ~Alive(w) /\ ~Registered(w)
        /\ streamCancel' = [streamCancel EXCEPT ![id] = w]
        /\ pc' = [pc EXCEPT ![w] = "opening"]
        /\ owner' = [owner EXCEPT ![w] = id]
        /\ UNCHANGED statsCache
  BY DEF StartStatsStream
<1>2. streamCancel[id] = None
  BY DEF StartStatsStream
<1>3. OpenStreams' = OpenStreams \cup {id} /\ id \notin OpenStreams
  BY <1>1, <1>2, NoneAssumption DEF StreamsInv, TypeOK, OpenStreams
<1>4. CachedFrames' = CachedFrames
  BY <1>1 DEF CachedFrames
<1>5. ASSUME NEW i \in Ids
      PROVE  i \in DrainingStreams' <=> i \in DrainingStreams
  <2>1. ASSUME NEW v \in Workers, v # w
        PROVE  (Alive(v) /\ owner[v] = i /\ streamCancel[i] # v)'
               <=> Alive(v) /\ owner[v] = i /\ streamCancel[i] # v
    BY <2>1, <1>1, <1>2, NoneAssumption DEF StreamsInv, TypeOK, Alive
  <2>2. ~(Alive(w) /\ owner[w] = i /\ streamCancel[i] # w)
    BY <1>1
  <2>3. ~(Alive(w) /\ owner[w] = i /\ streamCancel[i] # w)'
    BY <1>1 DEF StreamsInv, TypeOK
  <2>. QED
    BY <2>1, <2>2, <2>3 DEF DrainingStreams
<1>6. DrainingStreams' = DrainingStreams
  BY <1>5 DEF DrainingStreams
<1>. QED
  BY <1>3, <1>4, <1>6 DEF Registry!Open

(* Dropping the entries of a set of open containers closes them: their     *)
(* goroutines, if still alive, are draining from then on.                  *)
LEMMA DropRefines ==
    ASSUME StreamsInv, NEW dropped \in SUBSET OpenStreams,
           streamCancel' = [id \in Ids |-> IF id \in dropped THEN None ELSE streamCancel[id]],
           statsCache' = [id \in Ids |-> IF id \in dropped THEN None ELSE statsCache[id]],
           UNCHANGED <<pc, owner>>
    PROVE  Registry!Close(dropped)
<1>. DEFINE lingering == {id \in dropped : Alive(streamCancel[id])}
<1>1. OpenStreams' = OpenStreams \ dropped
  BY DEF OpenStreams
<1>2. CachedFrames' = CachedFrames \ dropped
  BY DEF CachedFrames
<1>3. ASSUME NEW i \in Ids
      PROVE  i \in DrainingStreams' <=> i \in DrainingStreams \cup lingering
  <2>1. CASE i \in dropped
    <3>1. streamCancel[i] \in Workers /\ owner[streamCancel[i]] = i
      BY <2>1 DEF StreamsInv, TypeOK, RegisteredIsLive, OpenStreams
    <3>2. streamCancel'[i] = None
      BY <2>1
    <3>3. i \in DrainingStreams' <=> \E v \in Workers : Alive(v) /\ owner[v] = i
      BY <3>2, NoneAssumption DEF DrainingStreams, Alive
    <3>. QED
      BY <2>1, <3>1, <3>3 DEF DrainingStreams
  <2>2. CASE i \notin dropped
    BY <2>2 DEF DrainingStreams, Alive
  <2>. QED
    BY <2>1, <2>2
<1>4. DrainingStreams' = DrainingStreams \cup lingering
  <2>1. dropped \subseteq Ids
    BY DEF OpenStreams
  <2>. QED
    BY <1>3, <2>1 DEF DrainingStreams
<1>. QED
  BY <1>1, <1>2, <1>4 DEF Registry!Close

LEMMA StopRefines ==
    ASSUME StreamsInv, NEW id \in Ids, StopStatsStream(id)
    PROVE  Registry!Close({id})
<1>1. {id} \in SUBSET OpenStreams
  BY DEF StopStatsStream, OpenStreams
<1>2. /\ streamCancel' = [i \in Ids |-> IF i \in {id} THEN None ELSE streamCancel[i]]
      /\ statsCache' = [i \in Ids |-> IF i \in {id} THEN None ELSE statsCache[i]]
      /\ UNCHANGED <<pc, owner>>
  BY DEF StopStatsStream, StreamsInv, TypeOK
<1>. QED
  BY <1>1, <1>2, DropRefines

LEMMA ResyncRefines ==
    ASSUME StreamsInv, NEW running \in SUBSET Ids, ResyncStreams(running)
    PROVE  \E closed \in SUBSET Ids : Registry!Close(closed)
<1>. DEFINE dropped == {id \in Ids \ running : streamCancel[id] # None}
<1>1. dropped \in SUBSET OpenStreams /\ dropped \in SUBSET Ids
  BY DEF OpenStreams
<1>2. /\ streamCancel' = [i \in Ids |-> IF i \in dropped THEN None ELSE streamCancel[i]]
      /\ statsCache' = [i \in Ids |-> IF i \in dropped THEN None ELSE statsCache[i]]
      /\ UNCHANGED <<pc, owner>>
  BY DEF ResyncStreams
<1>3. Registry!Close(dropped)
  BY <1>1, <1>2, DropRefines
<1>. QED
  BY <1>1, <1>3

(* A goroutine that stays alive and touches no map is invisible. *)
LEMMA MoveRefines ==
    ASSUME StreamsInv, NEW w \in Workers, Alive(w),
           NEW place \in Places \ {"idle"}, Goto(w, place),
           UNCHANGED <<streamCancel, owner>>
    PROVE  DrainingStreams' = DrainingStreams /\ OpenStreams' = OpenStreams
<1>1. \A v \in Workers : Alive(v)' <=> Alive(v)
  BY DEF StreamsInv, TypeOK, Alive, Goto
<1>. QED
  BY <1>1 DEF DrainingStreams, OpenStreams

LEMMA PublishRefines ==
    ASSUME StreamsInv, NEW w \in Workers, Publish(w)
    PROVE  Registry!PublishFrame(owner[w])
<1>1. /\ Alive(w) /\ owner[w] \in Ids
      /\ Goto(w, Resume(w, "decoding"))
      /\ statsCache' = [statsCache EXCEPT ![owner[w]] = w]
      /\ UNCHANGED <<streamCancel, owner>>
  BY DEF Publish, Alive, StreamsInv, TypeOK
<1>2. DrainingStreams' = DrainingStreams /\ OpenStreams' = OpenStreams
  BY <1>1, ResumePlace, MoveRefines DEF Places
<1>3. CachedFrames' = CachedFrames \cup {owner[w]}
  BY <1>1, NoneAssumption DEF CachedFrames, StreamsInv, TypeOK
<1>4. owner[w] \in OpenStreams \cup DrainingStreams
  BY <1>1, NoneAssumption DEF OpenStreams, DrainingStreams
<1>. QED
  BY <1>2, <1>3, <1>4 DEF Registry!PublishFrame

LEMMA ExitRefines ==
    ASSUME StreamsInv, NEW w \in Workers, Exit(w)
    PROVE  Registry!Drained(owner[w])
<1>. DEFINE id == owner[w]
<1>1. /\ Alive(w) /\ id \in Ids
      /\ pc' = [pc EXCEPT ![w] = "idle"]
      /\ statsCache' = [statsCache EXCEPT ![id] = None]
      /\ UNCHANGED <<streamCancel, owner>>
  BY DEF Exit, Goto, Alive, StreamsInv, TypeOK
<1>2. OpenStreams' = OpenStreams
  BY <1>1 DEF OpenStreams
<1>3. CachedFrames' = CachedFrames \ {id}
  BY <1>1 DEF CachedFrames, StreamsInv, TypeOK
<1>4. id \in OpenStreams \cup DrainingStreams
  BY <1>1, NoneAssumption DEF OpenStreams, DrainingStreams
<1>5. ~Alive(w)' /\ \A v \in Workers \ {w} : Alive(v)' <=> Alive(v)
  BY <1>1 DEF StreamsInv, TypeOK, Alive
<1>6. \A i \in Ids \ {id} : i \in DrainingStreams' <=> i \in DrainingStreams
  BY <1>1, <1>5 DEF DrainingStreams
<1>7. DrainingStreams' \subseteq DrainingStreams
  BY <1>1, <1>5 DEF DrainingStreams
<1>8. DrainingStreams \subseteq Ids
  BY DEF DrainingStreams
<1>9. DrainingStreams' \in {DrainingStreams, DrainingStreams \ {id}}
  BY <1>6, <1>7, <1>8
<1>. QED
  BY <1>2, <1>3, <1>4, <1>9 DEF Registry!Drained

LEMMA NextRefines ==
    StreamsInv /\ [Next]_vars => [Registry!RegistryNext]_(Registry!registryVars)
<1>. SUFFICES ASSUME StreamsInv, [Next]_vars
              PROVE  Registry!RegistryNext \/ UNCHANGED mapped
  BY DEF mapped, Registry!registryVars
<1>1. ASSUME NEW id \in Ids, StartStatsStream(id) PROVE Registry!RegistryNext
  BY <1>1, StartRefines DEF Registry!RegistryNext
<1>2. ASSUME NEW id \in Ids, StopStatsStream(id) PROVE Registry!RegistryNext
  BY <1>2, StopRefines DEF Registry!RegistryNext
<1>3. ASSUME NEW id \in Ids, ReadFrame(id) PROVE UNCHANGED mapped
  BY <1>3 DEF ReadFrame, mapped, OpenStreams, DrainingStreams, CachedFrames, Alive
<1>4. ASSUME NEW running \in SUBSET Ids, ResyncStreams(running)
      PROVE  Registry!RegistryNext
  BY <1>4, ResyncRefines DEF Registry!RegistryNext
<1>5. ASSUME NEW w \in Workers, Cancel(w) PROVE UNCHANGED mapped
  BY <1>5 DEF Cancel, maps, mapped, OpenStreams, DrainingStreams, CachedFrames, Alive
<1>6. ASSUME NEW w \in Workers, WorkerStep(w)
      PROVE  Registry!RegistryNext \/ UNCHANGED mapped
  <2>1. CASE OpenStream(w) \/ BackoffDone(w) \/ Decode(w)
    <3>1. PICK place \in Places \ {"idle"} : Goto(w, place)
      BY <2>1, ResumePlace DEF OpenStream, BackoffDone, Decode, Places
    <3>2. Alive(w) /\ UNCHANGED <<maps, owner>>
      BY <2>1 DEF OpenStream, BackoffDone, Decode, Alive
    <3>3. DrainingStreams' = DrainingStreams /\ OpenStreams' = OpenStreams
      BY <3>1, <3>2, MoveRefines DEF maps
    <3>. QED
      BY <3>2, <3>3 DEF mapped, maps, CachedFrames
  <2>2. CASE Publish(w)
    BY <2>2, PublishRefines DEF Registry!RegistryNext, StreamsInv, TypeOK
  <2>3. CASE Exit(w)
    BY <2>3, ExitRefines DEF Registry!RegistryNext, StreamsInv, TypeOK
  <2>. QED
    BY <1>6, <2>1, <2>2, <2>3 DEF WorkerStep
<1>7. CASE Shutdown
  BY <1>7 DEF Shutdown, maps, mapped, OpenStreams, DrainingStreams, CachedFrames, Alive
<1>8. CASE UNCHANGED vars
  BY <1>8 DEF vars, maps, mapped, OpenStreams, DrainingStreams, CachedFrames, Alive
<1>. QED
  BY <1>1, <1>2, <1>3, <1>4, <1>5, <1>6, <1>7, <1>8 DEF Next

(* The goroutines, contexts and maps implement StreamRegistry. *)
THEOREM StreamsImplementRegistry == Spec => RegistrySpec
<1>1. Init => Registry!RegistryInit
  BY NoneAssumption DEF Init, Registry!RegistryInit, OpenStreams,
     DrainingStreams, CachedFrames, Alive
<1>. QED
  BY <1>1, NextRefines, StreamsSafe, PTL
     DEF Spec, RegistrySpec, Registry!RegistrySpec
===============================================================================
