------------------------------ MODULE HourlyStore ------------------------------
(***************************************************************************)
(* The metric store: raw rows written by polls, the Aggregator that turns  *)
(* them into hourly rows and the Retention that deletes what is old        *)
(* (internal/storage/aggregate.go and retention.go, run one after the      *)
(* other by the maintenance goroutine of cmd/breaker/main.go).             *)
(*                                                                         *)
(* One cumulative counter stands for the four the rows carry, which are    *)
(* treated alike (network received and sent, block reads and writes).      *)
(* Averages are left out; the sample count is kept.  history is every      *)
(* sample ever inserted; deletion by age removes a prefix of it, so the    *)
(* table metrics_raw of a container is history without its first           *)
(* dropped[id] entries.  An hour is HourLen ticks of the clock.            *)
(***************************************************************************)
EXTENDS Integers, Sequences, FiniteSetsExt

CONSTANTS Ids,             \* container identifiers
          HourLen,         \* 3600 seconds
          RawKeep,         \* RawRetentionDays, in ticks
          HourlyKeep,      \* HourlyRetentionDays, in ticks
          MaxTime,         \* bound on the clock
          MaxMoved,        \* bound on the bytes a container moves
          MaxResets,       \* bound on the restarts of a container
          Faults,          \* what may go wrong: "aggregate", "retention", "restart"
          MaxFaults        \* bound on how often

ASSUME ConstantsAssumption ==
    /\ HourLen \in Nat \ {0}
    /\ Faults \subseteq {"aggregate", "retention", "restart"}
    /\ RawKeep \in Nat \ {0} /\ HourlyKeep \in Nat \ {0}
    /\ MaxTime \in Nat /\ MaxMoved \in Nat \ {0} /\ MaxResets \in Nat /\ MaxFaults \in Nat

VARIABLES
    now,               \* the clock
    counter,           \* each container's cumulative counter
    moved,             \* the bytes each container has really moved
    resets,            \* restarts of a container, which zero its counter
    history,           \* every sample of a container: when, what the counter
                       \* said, and what had really moved
    dropped,           \* how many of them deleteRaw has deleted
    hourly,            \* metrics_hourly: per container and hour a delta and a
                       \* sample count, zero when there is no row; torn says
                       \* that the hour's first sample came between the two
                       \* queries the row was made from
    stage,             \* where the maintenance goroutine is
    bucket,            \* the hour the aggregator is at
    last,              \* the hour the run ends with (currentBucket)
    prevMap,           \* what the counters said before that hour; 0, the zero
                       \* value of a map, where there is no entry
    seen,              \* the containers that had samples of that hour then
    batch,             \* what the aggregator has read for that hour
    started,           \* when the run started
    failed,            \* the hours whose aggregation failed in this run
    faults             \* failures and restarts of the program so far

envVars   == <<now, counter, moved, resets>>
storeVars == <<history, dropped, hourly>>
readVars  == <<prevMap, seen>>
runVars   == <<stage, bucket, last, readVars, batch, started, failed>>
vars      == <<envVars, storeVars, runVars, faults>>

Buckets == 0..MaxTime \div HourLen
BucketOf(at) == at \div HourLen

NoRow == [delta |-> 0, count |-> 0, torn |-> FALSE]
Row == [delta : Nat, count : Nat, torn : BOOLEAN]

TypeOK ==
    /\ now \in 0..MaxTime
    /\ counter \in [Ids -> 0..MaxMoved]
    /\ moved \in [Ids -> 0..MaxMoved]
    /\ resets \in 0..MaxResets
    /\ \A id \in Ids :
        /\ history[id] \in Seq([at : 0..MaxTime, rx : 0..MaxMoved, moved : 0..MaxMoved])
        /\ dropped[id] \in 0..Len(history[id])
    /\ hourly \in [Ids -> [Buckets -> Row]]
    /\ stage \in {"idle", "read", "rows", "commit", "deleteRaw", "deleteHourly"}
    /\ bucket \in Buckets \cup {last + 1}
    /\ last \in Buckets
    /\ prevMap \in [Ids -> 0..MaxMoved]
    /\ seen \subseteq Ids
    /\ batch \in [Ids -> Row]
    /\ started \in 0..now
    /\ failed \subseteq Buckets
    /\ faults \in 0..MaxFaults

(* An empty database; the container may have moved bytes before.  (Rows of *)
(* an earlier run are reached through RestartProgram.)                     *)
Init ==
    /\ now = 0
    /\ counter \in [Ids -> 0..1]
    /\ moved = counter
    /\ resets = 0
    /\ history = [id \in Ids |-> <<>>]
    /\ dropped = [id \in Ids |-> 0]
    /\ hourly = [id \in Ids |-> [b \in Buckets |-> NoRow]]
    /\ stage = "idle" /\ bucket = 0 /\ last = 0 /\ started = 0 /\ failed = {}
    /\ prevMap = [id \in Ids |-> 0] /\ seen = {}
    /\ batch = [id \in Ids |-> NoRow]
    /\ faults = 0

-------------------------------------------------------------------------------
(* The surroundings. *)

(* A run of the maintenance goroutine takes less than the retention time.  *)
Tick ==
    /\ now < MaxTime
    /\ stage # "idle" => now - started < RawKeep
    /\ now' = now + 1
    /\ UNCHANGED <<counter, moved, resets, storeVars, runVars, faults>>

Traffic(id) ==
    /\ moved[id] < MaxMoved
    /\ moved' = [moved EXCEPT ![id] = @ + 1]
    /\ counter' = [counter EXCEPT ![id] = @ + 1]
    /\ UNCHANGED <<now, resets, storeVars, runVars, faults>>

RestartContainer(id) ==
    /\ resets < MaxResets
    /\ resets' = resets + 1
    /\ counter' = [counter EXCEPT ![id] = 0]
    /\ UNCHANGED <<now, moved, storeVars, runVars, faults>>

(* InsertRawMetric; two samples of a container never share a timestamp     *)
(* (forced polls less than a second apart are left out).                   *)
InsertRawMetric(id) ==
    /\ \A i \in DOMAIN history[id] : history[id][i].at < now
    /\ history' = [history EXCEPT ![id] =
            Append(@, [at |-> now, rx |-> counter[id], moved |-> moved[id]])]
    /\ UNCHANGED <<envVars, dropped, hourly, runVars, faults>>

-------------------------------------------------------------------------------
(* The rows of metrics_raw. *)

Raw(id) == dropped[id] + 1..Len(history[id])

RawIn(id, b) == {i \in Raw(id) : BucketOf(history[id][i].at) = b}

(* Mutation: the first query returns nothing. *)
LastBeforeNone(id, b) == 0

(* The last row before an hour, of a container with rows in the hour, none *)
(* of which is older; no entry when metrics_raw has none.                  *)
LastBefore(id, b) ==
    LET older == {i \in Raw(id) : BucketOf(history[id][i].at) < b}
    IN  IF RawIn(id, b) # {} /\ older # {} THEN history[id][Max(older)].rx ELSE 0

(* The counter before a row of an hour: the row's before it, or, for the   *)
(* first one, what the first query has found.                              *)
Previous(id, b, i) == IF i - 1 \in RawIn(id, b) THEN history[id][i - 1].rx ELSE prevMap[id]

(* What a sample adds to the hour: the growth since the previous one, or   *)
(* all of it after a reset.                                                *)
Increment(id, b, i) ==
    IF history[id][i].rx >= Previous(id, b, i)
    THEN history[id][i].rx - Previous(id, b, i)
    ELSE history[id][i].rx

Aggregate(id, b) ==
    [delta |-> SumFunction([i \in RawIn(id, b) |-> Increment(id, b, i)]),
     count |-> Cardinality(RawIn(id, b)),
     torn  |-> RawIn(id, b) # {} /\ id \notin seen]

-------------------------------------------------------------------------------
(* The maintenance goroutine: agg.Run, then ret.Run. *)

Fault(kind) ==
    /\ kind \in Faults
    /\ faults < MaxFaults
    /\ faults' = faults + 1

AllRaw == UNION {{BucketOf(history[id][i].at) : i \in Raw(id)} : id \in Ids}

(* Mutation: the run is about the current hour only. *)
StartRunAtLastHour ==
    /\ stage = "idle"
    /\ started' = now
    /\ last' = BucketOf(now)
    /\ bucket' = BucketOf(now)
    /\ stage' = IF AllRaw = {} THEN "deleteRaw" ELSE "read"
    /\ UNCHANGED <<envVars, storeVars, readVars, batch, failed, faults>>

(* Once at the start of the program, then every hour; the model starts a   *)
(* run whenever the last one is over.  When there are no raw rows, or the  *)
(* query fails, the aggregator returns nil at once.                        *)
StartRun ==
    /\ stage = "idle"
    /\ started' = now
    /\ last' = BucketOf(now)
    /\ \/ /\ AllRaw # {}
          /\ bucket' = Min(AllRaw)
          /\ stage' = "read"
          /\ UNCHANGED <<failed, faults>>
       \/ /\ \/ AllRaw = {} /\ UNCHANGED <<failed, faults>>
             \/ Fault("aggregate") /\ failed' = Buckets
          /\ bucket' = 0
          /\ stage' = "deleteRaw"
    /\ UNCHANGED <<envVars, storeVars, readVars, batch>>

(* The local variables of the run are gone. *)
EndRun ==
    stage' = "idle" /\ bucket' = 0 /\ last' = 0 /\ started' = 0 /\ failed' = {}

(* After an hour: the next one, or the retention. *)
NextBucket ==
    /\ bucket' = bucket + 1
    /\ stage' = IF bucket + 1 > last THEN "deleteRaw" ELSE "read"

(* An error is logged, and the run goes on. *)
FailBucket == Fault("aggregate") /\ failed' = failed \cup {bucket}

(* processBucket: the first query, or its failure. *)
QueryPrevious ==
    /\ stage = "read"
    /\ \/ /\ prevMap' = [id \in Ids |-> LastBefore(id, bucket)]
          /\ seen' = {id \in Ids : RawIn(id, bucket) # {}}
          /\ stage' = "rows"
          /\ UNCHANGED <<bucket, failed, faults>>
       \/ FailBucket /\ NextBucket /\ UNCHANGED readVars
    /\ UNCHANGED <<envVars, storeVars, last, batch, started>>

NothingRead == prevMap' = [id \in Ids |-> 0] /\ seen' = {}

(* processBucket: the second query; no transaction holds the two together. *)
(* An hour without rows is left alone.                                     *)
QueryRows ==
    /\ stage = "rows"
    /\ \/ /\ \E id \in Ids : RawIn(id, bucket) # {}
          /\ batch' = [id \in Ids |-> Aggregate(id, bucket)]
          /\ stage' = "commit"
          /\ UNCHANGED <<bucket, failed, faults>>
       \/ /\ \A id \in Ids : RawIn(id, bucket) = {}
          /\ NextBucket
          /\ UNCHANGED <<batch, failed, faults>>
       \/ FailBucket /\ NextBucket /\ UNCHANGED batch
    /\ NothingRead
    /\ UNCHANGED <<envVars, storeVars, last, started>>

(* Mutation: a row that exists is kept. *)
CommitBucketOnce ==
    /\ stage = "commit"
    /\ \/ /\ hourly' = [id \in Ids |->
                [hourly[id] EXCEPT ![bucket] = IF @.count > 0 THEN @ ELSE batch[id]]]
          /\ UNCHANGED <<failed, faults>>
       \/ FailBucket /\ UNCHANGED hourly
    /\ batch' = [id \in Ids |-> NoRow]
    /\ NextBucket
    /\ UNCHANGED <<envVars, history, dropped, last, readVars, started>>

(* processBucket: the transaction.  A row that exists is overwritten; the  *)
(* transaction writes all rows of the hour or, when it fails, none.        *)
CommitBucket ==
    /\ stage = "commit"
    /\ \/ /\ hourly' = [id \in Ids |->
                [hourly[id] EXCEPT ![bucket] = IF batch[id].count = 0 THEN @ ELSE batch[id]]]
          /\ UNCHANGED <<failed, faults>>
       \/ FailBucket /\ UNCHANGED hourly
    /\ batch' = [id \in Ids |-> NoRow]
    /\ NextBucket
    /\ UNCHANGED <<envVars, history, dropped, last, readVars, started>>

(* Mutation: the retention time is not subtracted. *)
DeleteRawWithoutKeep ==
    /\ stage = "deleteRaw"
    /\ dropped' = [id \in Ids |->
            Max({dropped[id]} \cup {i \in Raw(id) : history[id][i].at < now})]
    /\ stage' = "deleteHourly"
    /\ UNCHANGED <<envVars, history, hourly, bucket, last, readVars, batch, started,
                   failed, faults>>

Expirable(id) == {i \in Raw(id) : history[id][i].at < now - RawKeep}

(* batchDelete on metrics_raw.  A failure, or the end of the program,      *)
(* between two batches leaves some of the expired samples; either ends     *)
(* ret.Run, and the run of the goroutine.                                  *)
DeleteRaw ==
    /\ stage = "deleteRaw"
    /\ \/ /\ dropped' = [id \in Ids |-> Max({dropped[id]} \cup Expirable(id))]
          /\ stage' = "deleteHourly"
          /\ UNCHANGED <<bucket, last, started, failed, faults>>
       \/ /\ \E kind \in {"retention", "restart"} : Fault(kind)
          /\ dropped' \in [Ids -> UNION {{dropped[id]} \cup Expirable(id) : id \in Ids}]
          /\ \A id \in Ids : dropped'[id] \in {dropped[id]} \cup Expirable(id)
          /\ EndRun
    /\ UNCHANGED <<envVars, history, hourly, readVars, batch>>

(* batchDelete on metrics_hourly, by the hour a row begins.  What comes    *)
(* after it, deleteOrphanedContainers, is in module Watcher.               *)
DeleteHourly ==
    /\ stage = "deleteHourly"
    /\ \/ /\ hourly' = [id \in Ids |-> [b \in Buckets |->
                IF b * HourLen < now - HourlyKeep THEN NoRow ELSE hourly[id][b]]]
          /\ UNCHANGED faults
       \/ Fault("retention") /\ UNCHANGED hourly
    /\ EndRun
    /\ UNCHANGED <<envVars, history, dropped, readVars, batch>>

(* A crash, or a shutdown: agg.Run and ret.Run return at once when the     *)
(* context is done.  The next thing the goroutine does is a new run.       *)
RestartProgram ==
    /\ stage # "idle"
    /\ Fault("restart")
    /\ EndRun
    /\ NothingRead
    /\ batch' = [id \in Ids |-> NoRow]
    /\ UNCHANGED <<envVars, storeVars>>

Maintenance == 
    \/ StartRun \/ QueryPrevious \/ QueryRows \/ CommitBucket \/ DeleteRaw \/ DeleteHourly

Next ==
    \/ Tick \/ Maintenance \/ RestartProgram
    \/ \E id \in Ids : Traffic(id) \/ RestartContainer(id) \/ InsertRawMetric(id)

Spec == Init /\ [][Next]_vars

(* The ticker of main.go starts run after run. *)
FairSpec == Spec /\ WF_vars(Maintenance)

-------------------------------------------------------------------------------
(* Safety. *)

AllIn(id, b) == {i \in DOMAIN history[id] : BucketOf(history[id][i].at) = b}

HasRow(id, b) == hourly[id][b].count > 0

Expired(b) == b * HourLen < now - HourlyKeep

(* The bytes that moved from sample i - 1 to sample j, whatever the        *)
(* counter says; everything so far for the first sample.                   *)
TrueMoved(id, i, j) ==
    history[id][j].moved - (IF i = 1 THEN 0 ELSE history[id][i - 1].moved)

(* Delta continuity (aggregate.go:63,133-153): a committed row that rests  *)
(* on a complete hour and on the sample before it never claims more bytes  *)
(* than have moved since that sample, and claims exactly those when no     *)
(* counter was reset.  The row may miss the samples inserted after the     *)
(* reads, which come last.  A torn row does not know the sample before its *)
(* first one: it claims all that the container had ever moved, no more.    *)
CommittedRowsExact ==
    [][\A id \in Ids, b \in Buckets :
        LET row == hourly'[id][b] IN
        row # hourly[id][b] /\ row.count > 0 =>
            LET first == Min(AllIn(id, b))
                final == first + row.count - 1
                claim == TrueMoved(id, IF row.torn THEN 1 ELSE first, final)
            IN  \/ dropped[id] < first - 1 \/ dropped[id] = 0
                \/ row.torn /\ dropped[id] < first
                =>
                    /\ row.delta <= claim
                    /\ resets = 0 => row.delta = claim]_vars

(* Nothing is deleted that was not aggregated, "aggregate must have run    *)
(* first (caller's responsibility)" (retention.go:25, main.go:247-263): a  *)
(* sample that deleteRaw deletes, and every one before it still there, is  *)
(* counted in the row of its hour, although samples keep arriving behind   *)
(* the aggregator's reads and runs are cut short.  The exception is an     *)
(* hour that failed in the same run: aggregator errors are only logged,    *)
(* and retention runs all the same.                                        *)
DeletedIsAggregated ==
    [][\A id \in Ids : \A i \in dropped[id] + 1..dropped'[id] :
        LET b == BucketOf(history[id][i].at) IN
        \/ b \in failed
        \/ hourly[id][b].count >= Cardinality({j \in RawIn(id, b) : j <= i})]_vars

(* "processes the current incomplete bucket plus any unprocessed past      *)
(* buckets" (aggregate.go:22), "preserving per-service history"            *)
(* (main.go:66-67): the row of a past hour that counts every sample of it, *)
(* and is not torn, is not replaced until it expires.                      *)
PastRowsKept ==
    [][\A id \in Ids, b \in Buckets :
        /\ b < BucketOf(now)
        /\ HasRow(id, b) /\ ~hourly[id][b].torn
        /\ hourly[id][b].count = Cardinality(AllIn(id, b))
        => hourly'[id][b] \in {hourly[id][b], NoRow}]_vars

-------------------------------------------------------------------------------
(* Liveness. *)

(* Samples of the hour have been deleted; see DeletedIsAggregated. *)
CutInto(id, b) == \E i \in AllIn(id, b) : i <= dropped[id]

(* In the end the row of an hour counts every sample of it, although runs  *)
(* are cut short by restarts and rows are inserted behind the reads,       *)
(* unless the hour expires or its samples begin to be deleted              *)
(* (aggregate.go:36-44).                                                   *)
SamplesAreAggregated ==
    <>[](\A id \in Ids, b \in Buckets :
            \/ hourly[id][b].count = Cardinality(AllIn(id, b))
            \/ Expired(b) \/ CutInto(id, b))

(* A torn row is made again, from the sample before it, by a later run,    *)
(* unless the samples of the hour begin to be deleted before: every run    *)
(* goes over all hours that have raw rows (aggregate.go:30-43, 67-102).    *)
TornRowsAreMended ==
    <>[](\A id \in Ids, b \in Buckets : hourly[id][b].torn => CutInto(id, b))
===============================================================================
