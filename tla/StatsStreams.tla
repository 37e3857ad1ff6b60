----------------------------- MODULE StatsStreams -----------------------------
(***************************************************************************)
(* The per-container stats streams of docker.Watcher                       *)
(* (internal/docker/watcher.go): the goroutines that read the Docker stats *)
(* API, the maps they share with the event thread and the poller under     *)
(* w.mu, and the contexts that end them.                                   *)
(*                                                                         *)
(* Threads:                                                                *)
(*  - the event thread, the only one that adds to or deletes from          *)
(*    streamCancel (Run calls startStatsStream before it starts it).  It   *)
(*    deletes map entries under the lock and cancels after the unlock, so  *)
(*    the contexts it still has to cancel are kept in toCancel and it does *)
(*    nothing else until that set is empty;                                *)
(*  - one goroutine per startStatsStream call (Workers), which works on    *)
(*    between two critical sections whatever the maps have become;         *)
(*  - the poller, which copies statsCache to prevRead.                     *)
(*                                                                         *)
(* A frame is abstracted to the goroutine that decoded it.                 *)
(***************************************************************************)
CONSTANTS Ids,         \* container identifiers
          Workers,     \* goroutines running runStatsStream (the bound on how
                       \* many are alive at a time)
          None         \* the value of a missing map entry

ASSUME NoneAssumption == None \notin Workers

VARIABLES
    streamCancel,      \* the goroutine whose cancel function is registered
    statsCache,        \* the latest frame of a container
    prevRead,          \* the frame the last poll used
    pc,                \* where each goroutine is in runStatsStream
    owner,             \* the container each goroutine was started for
    cancelled,         \* goroutines whose own context is cancelled
    toCancel,          \* contexts the event thread has yet to cancel
    ctxDone            \* the context of Run is cancelled

maps == <<streamCancel, statsCache, prevRead>>
vars == <<maps, pc, owner, cancelled, toCancel, ctxDone>>

Places == {"idle", "opening", "backoff", "decoding", "publishing", "exiting"}

TypeOK ==
    /\ streamCancel \in [Ids -> Workers \cup {None}]
    /\ statsCache \in [Ids -> Workers \cup {None}]
    /\ prevRead \in [Ids -> Workers \cup {None}]
    /\ pc \in [Workers -> Places]
    /\ owner \in [Workers -> Ids]
    /\ cancelled \subseteq Workers
    /\ toCancel \subseteq Workers
    /\ ctxDone \in BOOLEAN

Init ==
    /\ streamCancel = [id \in Ids |-> None]
    /\ statsCache = [id \in Ids |-> None]
    /\ prevRead = [id \in Ids |-> None]
    /\ pc = [w \in Workers |-> "idle"]
    /\ owner \in [Workers -> Ids]
    /\ cancelled = {}
    /\ toCancel = {}
    /\ ctxDone = FALSE

(* ctx.Err() # nil in goroutine w: its context derives from that of Run. *)
Done(w) == ctxDone \/ w \in cancelled

(* Mutation: the loop does not look at its context. *)
ResumeBlindly(w, next) == next

(* Every loop head and every error branch of runStatsStream tests ctx.Err(). *)
Resume(w, next) == IF Done(w) THEN "exiting" ELSE next

Registered(w) == \E id \in Ids : streamCancel[id] = w

Alive(w) == pc[w] # "idle"

-------------------------------------------------------------------------------
(* The event thread. *)

(* Mutation: the duplicate check of startStatsStream is dropped. *)
StartWithoutDuplicateCheck(id) ==
    /\ toCancel = {}
    /\ \E w \in Workers :
        /\ ~Alive(w) /\ ~Registered(w)
        /\ streamCancel' = [streamCancel EXCEPT ![id] = w]
        /\ pc' = [pc EXCEPT ![w] = "opening"]
        /\ owner' = [owner EXCEPT ![w] = id]
        /\ cancelled' = cancelled \ {w}
    /\ UNCHANGED <<statsCache, prevRead, toCancel, ctxDone>>

(* Registers a fresh context and starts a goroutine on it.  A call for a   *)
(* container that has an entry returns at once and is a stuttering step.   *)
(* The event thread may still be in a handler when ctxDone holds.          *)
StartStatsStream(id) ==
    /\ toCancel = {}
    /\ streamCancel[id] = None
    /\ \E w \in Workers :
        /\ ~Alive(w) /\ ~Registered(w)
        /\ streamCancel' = [streamCancel EXCEPT ![id] = w]
        /\ pc' = [pc EXCEPT ![w] = "opening"]
        /\ owner' = [owner EXCEPT ![w] = id]
        /\ cancelled' = cancelled \ {w}
    /\ UNCHANGED <<statsCache, prevRead, toCancel, ctxDone>>

(* Mutation: the cached frame is left to the goroutine's deferred delete. *)
StopKeepsFrame(id) ==
    /\ toCancel = {}
    /\ streamCancel[id] # None
    /\ toCancel' = {streamCancel[id]}
    /\ streamCancel' = [streamCancel EXCEPT ![id] = None]
    /\ prevRead' = [prevRead EXCEPT ![id] = None]
    /\ UNCHANGED <<statsCache, pc, owner, cancelled, ctxDone>>

(* Clears the three maps under the lock; Cancel runs after the unlock.  It *)
(* does nothing for a container without an entry.                          *)
StopStatsStream(id) ==
    /\ toCancel = {}
    /\ streamCancel[id] # None
    /\ toCancel' = {streamCancel[id]}
    /\ streamCancel' = [streamCancel EXCEPT ![id] = None]
    /\ statsCache' = [statsCache EXCEPT ![id] = None]
    /\ prevRead' = [prevRead EXCEPT ![id] = None]
    /\ UNCHANGED <<pc, owner, cancelled, ctxDone>>

(* The critical section of resync, given the listed containers: every      *)
(* registered stream outside the list is dropped together with its frame;  *)
(* prevRead is left alone.                                                 *)
ResyncStreams(running) ==
    /\ toCancel = {}
    /\ LET dropped == {id \in Ids \ running : streamCancel[id] # None}
       IN  /\ toCancel' = {streamCancel[id] : id \in dropped}
           /\ streamCancel' = [id \in Ids |->
                  IF id \in dropped THEN None ELSE streamCancel[id]]
           /\ statsCache' = [id \in Ids |->
                  IF id \in dropped THEN None ELSE statsCache[id]]
    /\ UNCHANGED <<prevRead, pc, owner, cancelled, ctxDone>>

(* cancel(), called outside the lock, in any order for a resync. *)
Cancel(w) ==
    /\ w \in toCancel
    /\ toCancel' = toCancel \ {w}
    /\ cancelled' = cancelled \cup {w}
    /\ UNCHANGED <<maps, pc, owner, ctxDone>>

-------------------------------------------------------------------------------
(* The goroutine of a stream (runStatsStream). *)

Goto(w, place) == pc' = [pc EXCEPT ![w] = place]

(* ContainerStats answers or fails; both may race with the cancellation. *)
OpenStream(w) ==
    /\ pc[w] = "opening"
    /\ \/ Goto(w, Resume(w, "decoding"))
       \/ Goto(w, Resume(w, "backoff"))
    /\ UNCHANGED <<maps, owner, cancelled, toCancel, ctxDone>>

(* time.After(backoff) against ctx.Done(). *)
BackoffDone(w) ==
    /\ pc[w] = "backoff"
    /\ Goto(w, Resume(w, "opening"))
    /\ UNCHANGED <<maps, owner, cancelled, toCancel, ctxDone>>

(* A frame may be decoded from buffered data after the cancellation; an    *)
(* error returns when the context is done and reconnects otherwise.        *)
Decode(w) ==
    /\ pc[w] = "decoding"
    /\ \/ Goto(w, "publishing")
       \/ Goto(w, Resume(w, "opening"))
    /\ UNCHANGED <<maps, owner, cancelled, toCancel, ctxDone>>

(* The frame is cached under the lock without another look at the context. *)
Publish(w) ==
    /\ pc[w] = "publishing"
    /\ statsCache' = [statsCache EXCEPT ![owner[w]] = w]
    /\ Goto(w, Resume(w, "decoding"))
    /\ UNCHANGED <<streamCancel, prevRead, owner, cancelled, toCancel, ctxDone>>

(* Mutation: no deferred delete. *)
ExitWithoutDelete(w) ==
    /\ pc[w] = "exiting"
    /\ Goto(w, "idle")
    /\ UNCHANGED <<maps, owner, cancelled, toCancel, ctxDone>>

(* The deferred delete, whoever published the frame. *)
Exit(w) ==
    /\ pc[w] = "exiting"
    /\ statsCache' = [statsCache EXCEPT ![owner[w]] = None]
    /\ Goto(w, "idle")
    /\ UNCHANGED <<streamCancel, prevRead, owner, cancelled, toCancel, ctxDone>>

WorkerStep(w) ==
    OpenStream(w) \/ BackoffDone(w) \/ Decode(w) \/ Publish(w) \/ Exit(w)

-------------------------------------------------------------------------------
(* The poller, and the end of the process. *)

(* processContainer, for a container listed as running: the cached frame,  *)
(* if there is one, becomes the previous frame of the next poll.           *)
ReadFrame(id) ==
    /\ statsCache[id] # None
    /\ prevRead' = [prevRead EXCEPT ![id] = statsCache[id]]
    /\ UNCHANGED <<streamCancel, statsCache, pc, owner, cancelled, toCancel, ctxDone>>

(* The signal context of main is cancelled. *)
Shutdown ==
    /\ ctxDone' = TRUE
    /\ UNCHANGED <<maps, pc, owner, cancelled, toCancel>>

Next ==
    \/ \E id \in Ids : StartStatsStream(id) \/ StopStatsStream(id) \/ ReadFrame(id)
    \/ \E running \in SUBSET Ids : ResyncStreams(running)
    \/ \E w \in Workers : Cancel(w) \/ WorkerStep(w)
    \/ Shutdown

Spec == Init /\ [][Next]_vars

(* The event thread goes on to the cancellations it has collected, and a   *)
(* goroutine whose context is done makes progress: the Docker client fails *)
(* or answers once its context is done.  A goroutine with a live context   *)
(* may wait for Docker forever.                                            *)
Fairness ==
    \A w \in Workers :
        /\ WF_vars(Cancel(w))
        /\ WF_vars(Done(w) /\ WorkerStep(w))

FairSpec == Spec /\ Fairness

-------------------------------------------------------------------------------
(* Safety. *)

(* No frame outlives its goroutine: a cached frame was decoded by a        *)
(* goroutine that is still alive and was started for that container, so    *)
(* its deferred delete is still to come (watcher.go:216-220), although     *)
(* stop, resync and late publications interleave with it freely.           *)
FramePublisherAlive ==
    \A id \in Ids : statsCache[id] # None =>
        /\ Alive(statsCache[id])
        /\ owner[statsCache[id]] = id

(* No stream leaks: a goroutine that is still running on a live context    *)
(* and that nobody is about to cancel is the registered one of its         *)
(* container, so there is at most one such goroutine per container         *)
(* (the duplicate check of startStatsStream, watcher.go:186-192).          *)
UnregisteredIsCancelled ==
    \A w \in Workers :
        Alive(w) /\ w \notin cancelled \cup toCancel => streamCancel[owner[w]] = w

(* No dead registration: a registered goroutine is not cancelled nor about *)
(* to be, serves that container and, until the shutdown, is alive and not  *)
(* on its way out.  Otherwise startStatsStream would ignore every later    *)
(* start of the container (watcher.go:189) and it would never be sampled.  *)
RegisteredIsLive ==
    \A id \in Ids : streamCancel[id] # None =>
        LET w == streamCancel[id] IN
        /\ w \notin cancelled \cup toCancel
        /\ owner[w] = id
        /\ pc[w] \in {"idle", "exiting"} => ctxDone

(* The entries of streamCancel and the goroutines match, in both ways.     *)
EntriesMatchWorkers == UnregisteredIsCancelled /\ RegisteredIsLive

-------------------------------------------------------------------------------
(* Liveness. *)

(* Every goroutine the event thread has decided to stop, or that the       *)
(* shutdown ends, leaves runStatsStream, whatever it was waiting for       *)
(* (watcher.go:223-259).                                                   *)
StoppedWorkerExits ==
    \A w \in Workers :
        Alive(w) /\ (Done(w) \/ w \in toCancel) ~> ~Alive(w)

-------------------------------------------------------------------------------
(* The goroutines implement the registry the other threads rely on. *)

OpenStreams == {id \in Ids : streamCancel[id] # None}

DrainingStreams ==
    {id \in Ids : \E w \in Workers :
        Alive(w) /\ owner[w] = id /\ streamCancel[id] # w}

CachedFrames == {id \in Ids : statsCache[id] # None}

Registry == INSTANCE StreamRegistry
    WITH open <- OpenStreams, draining <- DrainingStreams, frames <- CachedFrames

(* Refinement: what stop, resync, publications and deferred deletes do to  *)
(* the maps, in any interleaving, is what StreamRegistry allows.           *)
RegistrySpec == Registry!RegistrySpec
===============================================================================
