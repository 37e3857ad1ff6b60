-------------------------------- MODULE Analyzer --------------------------------
(***************************************************************************)
(* The zombie verdict (internal/analyzer/analyzer.go, called by            *)
(* GET /api/zombies and by "breaker scan") on the metric store of module   *)
(* HourlyStore, while samples arrive, the maintenance goroutine works and  *)
(* containers are deployed and removed.  Analyzer.Run reads the database   *)
(* with four queries that no transaction holds together.                   *)
(*                                                                         *)
(* Ids are the containers of one service; services do not meet.  The       *)
(* counter of HourlyStore stands for network and disk bytes; the CPU       *)
(* average is left out.                                                    *)
(***************************************************************************)
EXTENDS HourlyStore, SequencesExt

CONSTANTS Images,          \* image identifiers
          NoImage,         \* the empty image identifier, if it may occur
          MaxSamples,      \* bound on the samples of a container
          Window,          \* WindowDays, in ticks
          MinSpan,         \* a thousandth of a day, in ticks
          MinSamples,      \* the samples a verdict takes
          Threshold        \* bytes per tick below which a service is a zombie

ASSUME AnalyzerAssumption ==
    /\ Window \in Nat \ {0} /\ MinSamples \in Nat \ {0} /\ Threshold \in Nat \ {0}
    /\ MinSpan \in 1..Window /\ MaxSamples \in Nat /\ IsFiniteSet(Ids)

VARIABLES
    created,           \* when each container was created, NotYet before
    image,             \* its image
    removed            \* containers whose row says 'removed'

VARIABLES
    stage4,            \* the query Analyzer.Run is at
    at,                \* now, as Analyzer.Run has read it
    gens,              \* the generations read, newest first
    hours,             \* the hourly rows read
    verdict            \* the result for the service

NotYet == -1
NoVerdict == [status |-> "none", start |-> 0, span |-> 0, bytes |-> 0, count |-> 0]

deployVars == <<created, image, removed>>
scanVars   == <<stage4, at, gens, hours, verdict>>
allVars    == <<vars, deployVars, scanVars>>

Generation == [created : 0..MaxTime, image : Images]
HourRow    == [id : Ids, bucket : Buckets, delta : Nat, count : Nat, torn : BOOLEAN]

AnalyzerTypeOK ==
    /\ TypeOK
    /\ created \in [Ids -> 0..MaxTime \cup {NotYet}]
    /\ image \in [Ids -> Images]
    /\ removed \subseteq {id \in Ids : created[id] # NotYet}
    /\ stage4 \in {"idle", "containers", "hourly", "raw", "done"}
    /\ at \in 0..now
    /\ gens \in Seq(Generation)
    /\ hours \subseteq HourRow
    /\ verdict.status \in {"none", "insufficient_data", "active", "zombie"}
    /\ verdict.start \in -Window..MaxTime
    /\ \/ verdict.span \in MinSpan..Window
       \/ verdict.span = 0 /\ verdict.status \in {"none", "insufficient_data"}
    /\ verdict.bytes \in Nat
    /\ verdict.count \in 0..Cardinality(Buckets)

(* The service has at most one container when the program starts. *)
AnalyzerInit ==
    /\ Init
    /\ created \in [Ids -> {0, NotYet}]
    /\ Cardinality({id \in Ids : created[id] = 0}) <= 1
    /\ \A id \in Ids : created[id] = NotYet => counter[id] = 0
    /\ image \in [Ids -> Images]
    /\ removed = {}
    /\ stage4 = "idle" /\ at = 0 /\ gens = <<>> /\ hours = {}
    /\ verdict = NoVerdict

-------------------------------------------------------------------------------
(* The containers of the service.  The rows of table containers say when   *)
(* they were created and from which image.                                 *)

Listed == {id \in Ids : created[id] # NotYet} \ removed

(* Creation times, in seconds, are distinct. *)
Deploy(id) ==
    /\ created[id] = NotYet
    /\ \A other \in Ids : created[other] # now
    /\ created' = [created EXCEPT ![id] = now]
    /\ UNCHANGED <<vars, image, removed, scanVars>>

MarkRemoved(id) ==
    /\ id \in Listed
    /\ removed' = removed \cup {id}
    /\ UNCHANGED <<vars, created, image, scanVars>>

StoreStep ==
    /\ \/ Tick \/ Maintenance \/ RestartProgram
       \/ \E id \in Listed :
            \/ Traffic(id) \/ RestartContainer(id)
            \/ Len(history[id]) < MaxSamples /\ InsertRawMetric(id)
    /\ UNCHANGED <<deployVars, scanVars>>

-------------------------------------------------------------------------------
(* evaluateInMemory. *)

(* Mutation: the run does not end at a container with another image. *)
WholeImageRun(list) ==
    Max({k \in DOMAIN list : list[k].image = list[1].image})

(* How many of the newest generations share the image of the first. *)
ImageRun(list) ==
    Max({k \in DOMAIN list : \A j \in 1..k : list[j].image = list[1].image})

(* The start of the observation: the window's, or the creation of the      *)
(* oldest container of that run when it is later.  An empty image id       *)
(* clamps nothing.                                                         *)
ClampedStart(list) ==
    LET change == list[ImageRun(list)].created
    IN  IF list[1].image # NoImage /\ change > at - Window THEN change ELSE at - Window

(* delta = max - min of the counter over the raw rows. *)
Spread(counts) == IF counts = {} THEN 0 ELSE Max(counts) - Min(counts)

(* Mutation: the length of the observation has no floor. *)
SpanUnfloored(start) == at - start

(* The length of the observation: at least a thousandth of a day, even     *)
(* when the container was created after at was read.                       *)
Span(start) == Max({MinSpan, at - start})

(* Below the threshold on average. *)
BelowThreshold(bytes, span) == bytes < Threshold * span

(* The result, over the rows of an observation. *)
Judge(start, counted, recent) ==
    LET count == Cardinality({h.bucket : h \in counted})
                 + Cardinality({BucketOf(r.at) : r \in recent})
        bytes == SumFunction([h \in counted |-> h.delta]) + Spread({r.rx : r \in recent})
    IN  [start |-> start, span |-> Span(start), bytes |-> bytes, count |-> count,
         status |-> IF count < MinSamples THEN "insufficient_data"
                    ELSE IF BelowThreshold(bytes, Span(start)) THEN "zombie" ELSE "active"]

(* The result, given the generations and the hourly and raw rows read.     *)
Evaluate(list, rows, raw) ==
    IF list = <<>> THEN [NoVerdict EXCEPT !.status = "insufficient_data"]
    ELSE LET start == ClampedStart(list)
         IN  Judge(start, {h \in rows : h.bucket * HourLen >= start},
                   {r \in raw : r.at >= start})

-------------------------------------------------------------------------------
(* Analyzer.Run, one action per query. *)

(* ORDER BY created_at DESC. *)
NewestFirst(ids) ==
    CHOOSE order \in SetToSeqs(ids) :
        \A j, k \in DOMAIN order : j < k => created[order[j]] > created[order[k]]

(* The services with a container that is not removed. *)
QueryServices ==
    /\ stage4 = "idle"
    /\ Listed # {}
    /\ at' = now
    /\ stage4' = "containers"
    /\ UNCHANGED <<vars, deployVars, gens, hours, verdict>>

QueryContainers ==
    /\ stage4 = "containers"
    /\ gens' = LET order == NewestFirst(Listed)
               IN  [k \in DOMAIN order |->
                        [created |-> created[order[k]], image |-> image[order[k]]]]
    /\ stage4' = "hourly"
    /\ UNCHANGED <<vars, deployVars, at, hours, verdict>>

HourOf(id, b) ==
    [id |-> id, bucket |-> b, delta |-> hourly[id][b].delta, count |-> hourly[id][b].count,
     torn |-> hourly[id][b].torn]

(* Mutation: the current hour is read from both tables. *)
QueryHourlyWithCurrent ==
    /\ stage4 = "hourly"
    /\ hours' = {HourOf(p[1], p[2]) : p \in
            {q \in Ids \X Buckets :
                /\ HasRow(q[1], q[2])
                /\ q[2] * HourLen >= at - Window
                /\ q[2] <= BucketOf(at)}}
    /\ stage4' = "raw"
    /\ UNCHANGED <<vars, deployVars, at, gens, verdict>>

(* The rows of the window's hours up to the current one, of removed        *)
(* containers too.                                                         *)
QueryHourly ==
    /\ stage4 = "hourly"
    /\ hours' = {HourOf(p[1], p[2]) : p \in
            {q \in Ids \X Buckets :
                /\ HasRow(q[1], q[2])
                /\ q[2] * HourLen >= at - Window
                /\ q[2] < BucketOf(at)}}
    /\ stage4' = "raw"
    /\ UNCHANGED <<vars, deployVars, at, gens, verdict>>

RawRow(id, i) == [id |-> id, at |-> history[id][i].at, rx |-> history[id][i].rx]

(* The raw rows since an hour began. *)
RawSince(b) ==
    UNION {{RawRow(id, i) : i \in {j \in Raw(id) : BucketOf(history[id][j].at) >= b}} :
            id \in Ids}

(* Mutation: the raw rows are read from now on, not since the hour began.  *)
QueryRawFromNow ==
    /\ stage4 = "raw"
    /\ LET raw == {r \in RawSince(BucketOf(at)) : r.at >= at}
       IN  verdict' = Evaluate(gens, hours, raw)
    /\ stage4' = "done"
    /\ UNCHANGED <<vars, deployVars, at, gens, hours>>

(* The raw rows since the current hour began; the rest is in memory. *)
QueryRaw ==
    /\ stage4 = "raw"
    /\ verdict' = Evaluate(gens, hours, RawSince(BucketOf(at)))
    /\ stage4' = "done"
    /\ UNCHANGED <<vars, deployVars, at, gens, hours>>

(* The result is returned, before anything else happens: it is a value     *)
(* nobody shares.                                                          *)
Return ==
    /\ stage4 = "done"
    /\ stage4' = "idle" /\ at' = 0 /\ gens' = <<>> /\ hours' = {}
    /\ verdict' = NoVerdict
    /\ UNCHANGED <<vars, deployVars>>

(* A query fails, or the client leaves: no result. *)
FailQuery ==
    /\ stage4 \in {"containers", "hourly", "raw"}
    /\ stage4' = "idle" /\ at' = 0 /\ gens' = <<>> /\ hours' = {}
    /\ UNCHANGED <<vars, deployVars, verdict>>

Scan == QueryServices \/ QueryContainers \/ QueryHourly \/ QueryRaw \/ FailQuery

AnalyzerNext ==
    \/ Return
    \/ stage4 # "done" /\ (StoreStep \/ Scan \/ \E id \in Ids : Deploy(id) \/ MarkRemoved(id))

AnalyzerSpec == AnalyzerInit /\ [][AnalyzerNext]_allVars

-------------------------------------------------------------------------------
(* Safety. *)

Observed == verdict.status \in {"active", "zombie"}

(* The containers with samples in the observation. *)
Sampled ==
    {id \in Ids : \E i \in DOMAIN history[id] : history[id][i].at >= verdict.start}

Total(ids) == SumFunctionOnSet(moved, ids)

(* No phantom bytes: a service observed in one container, none of whose    *)
(* counters was reset and none of whose samples expired, is never charged  *)
(* with more bytes than the container has moved, though the aggregator     *)
(* rewrites rows, hours turn and samples arrive between the queries: an    *)
(* hour is read from one table only (analyzer.go:78,141-142,169).  A torn  *)
(* row among those read may count again what earlier rows have counted.    *)
NoPhantomBytes ==
    /\ Observed
    /\ Cardinality(Sampled) <= 1
    /\ \A h \in hours : ~h.torn
    /\ resets = 0 /\ \A id \in Ids : dropped[id] = 0
    => verdict.bytes <= Total(Sampled)

(* The sample count is a number of distinct hours with samples: what is    *)
(* read of an hour from two tables, or of two containers, counts once      *)
(* (analyzer.go:241-262).                                                  *)
HoursCountedOnce ==
    verdict.count <= Cardinality(
        {b \in Buckets : \E id \in Ids : AllIn(id, b) # {} /\ (b + 1) * HourLen > verdict.start})

(* What is read of an hour counts once, in bytes and in samples.           *)
NothingCountedTwice == NoPhantomBytes /\ HoursCountedOnce

(* The observation starts with the current image: of the containers read,  *)
(* those created since the start all have the image of the newest, and one *)
(* created just before has another (analyzer.go:225-239).                  *)
ObservesOneImage ==
    stage4 = "done" /\ gens # <<>> =>
        LET clamped == gens[1].image # NoImage /\ verdict.start > at - Window
            Current(k) == gens[k].image = gens[1].image
            Since(k) == gens[k].created >= verdict.start
        IN  clamped => \A k \in DOMAIN gens :
                IF Since(k) THEN Current(k)
                ELSE Current(k) => \E j \in 1..k : ~Since(j) /\ ~Current(j)

(* "delta = max - min per counter" (analyzer.go:280): no counter was       *)
(* reset, no sample expired, and still no service is charged with more     *)
(* than its containers have moved.                                         *)
ServiceBytesWereMoved ==
    /\ Observed
    /\ resets = 0 /\ \A id \in Ids : dropped[id] = 0
    => verdict.bytes <= Total(Ids)

(* The past hours and the current one, as far as they are observed. *)
PastHours == {b \in Buckets : b * HourLen >= verdict.start /\ b < BucketOf(at)}

InPast(s)    == BucketOf(s.at) \in PastHours
InCurrent(s) == s.at >= verdict.start /\ BucketOf(s.at) >= BucketOf(at)

(* The rows read count every sample of the past hours. *)
RowsComplete ==
    \A id \in Ids, b \in PastHours : AllIn(id, b) # {} =>
        \E h \in hours :
            h.id = id /\ h.bucket = b /\ h.count = Cardinality(AllIn(id, b))

(* "ZOMBIE: below ALL configured thresholds for the full observation       *)
(* window" (cmd/breaker/main.go:98), as far as the code keeps it: when no  *)
(* counter was reset, no sample expired and the aggregator had finished    *)
(* with the past hours, no container of a zombie moved more between two    *)
(* of its samples than the threshold allows, whatever the maintenance      *)
(* goroutine did between the queries (analyzer.go:133-187,241-300).  The   *)
(* two samples lie both in past hours or both in the current one: the      *)
(* bytes between the last sample before the current hour and the first one *)
(* in it are in no row.                                                    *)
ZombieIsIdle ==
    /\ verdict.status = "zombie"
    /\ resets = 0 /\ \A id \in Ids : dropped[id] = 0
    /\ RowsComplete
    => \A id \in Ids : \A i, j \in DOMAIN history[id] :
        LET s == history[id][i]
            t == history[id][j]
        IN  /\ i < j
            /\ \/ InPast(s) /\ InPast(t)
               \/ InCurrent(s) /\ InCurrent(t)
            => BelowThreshold(t.moved - s.moved, verdict.span)
===============================================================================
