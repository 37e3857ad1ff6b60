--------------------------- MODULE HourlyStoreProofs ---------------------------
(***************************************************************************)
(* Proofs about modules HourlyStore and Analyzer: for any containers,      *)
(* hours and retention times, nothing is deleted that was not aggregated,  *)
(* the rows written claim the bytes that have moved, and what the analyzer *)
(* makes of them charges nobody twice and calls nobody idle who is not.    *)
(*                                                                         *)
(* What a run counts of an hour may miss samples inserted behind its       *)
(* reads, but none from before the run started; what the retention that    *)
(* follows may delete is older than that, because a run takes less than    *)
(* the retention time.                                                     *)
(*                                                                         *)
(* The samples of an hour follow one another; when the hour is complete,   *)
(* what they add is a telescoping sum, exact unless a counter was reset,   *)
(* and the rows that another run of the aggregator overwrites stay so.     *)
(* The sum starts from what the first of two queries has found; an hour    *)
(* that begins between the two starts from zero, and its row is torn.      *)
(*                                                                         *)
(* The analyzer takes no step of the store, so that all this holds of the  *)
(* rows it has read, too: those of one container are steps of a function   *)
(* of the hour, what the container had moved by its end, and the raw rows  *)
(* of the current hour come after the last of them.                        *)
(***************************************************************************)
EXTENDS Analyzer, Sums, FiniteSetTheorems, SequenceTheorems, WellFoundedInduction, TLAPS

Sample == [at : 0..MaxTime, rx : Nat, moved : Nat]

StoreInv ==
    /\ now \in 0..MaxTime
    /\ counter \in [Ids -> Nat] /\ moved \in [Ids -> Nat]
    /\ history \in [Ids -> Seq(Sample)]
    /\ \A id \in Ids :
        /\ \A i \in DOMAIN history[id] : history[id][i].at <= now
        /\ \A i, j \in DOMAIN history[id] : i < j => history[id][i].at < history[id][j].at
    /\ dropped \in [Ids -> Nat]

(* The deltas, which are sums, are left out. *)
RowsInv ==
    /\ hourly = [id \in Ids |-> [b \in Buckets |-> hourly[id][b]]]
    /\ \A id \in Ids, b \in Buckets : hourly[id][b].count \in Nat

RunInv ==
    /\ stage \in {"idle", "read", "rows", "commit", "deleteRaw", "deleteHourly"}
    /\ failed \subseteq Buckets
    /\ stage # "idle" =>
        /\ started \in 0..now /\ now <= started + RawKeep
        /\ last = BucketOf(started)
        /\ bucket \in Nat
    /\ stage \in {"read", "rows", "commit"} => bucket <= last

(* The samples of an hour from before the run started. *)
Old(id, b) == {i \in RawIn(id, b) : history[id][i].at < started}

(* The row of an hour counts them, unless its aggregation failed. *)
Settled(b) == b \in failed \/ \A id \in Ids : hourly[id][b].count >= Cardinality(Old(id, b))

ProgressInv ==
    /\ stage \in {"read", "rows", "commit"} => \A b \in Buckets : b < bucket => Settled(b)
    /\ stage = "commit" => \A id \in Ids :
        /\ batch[id].count \in Nat
        /\ batch[id].count >= Cardinality(Old(id, bucket))
    /\ stage = "deleteRaw" => \A b \in Buckets : Settled(b)

HourlyInv == StoreInv /\ RowsInv /\ RunInv /\ ProgressInv

-------------------------------------------------------------------------------
(* Arithmetic and finite sets. *)

(* Later times are in later hours. *)
LEMMA HoursAreOrdered ==
  ASSUME NEW x \in Nat, NEW y \in Nat, x <= y
  PROVE  BucketOf(x) \in Nat /\ BucketOf(y) \in Nat /\ BucketOf(x) <= BucketOf(y)
  <1>1. /\ BucketOf(x) \in Int /\ BucketOf(y) \in Int
        /\ x = HourLen * BucketOf(x) + (x % HourLen) /\ (x % HourLen) \in 0..HourLen - 1
        /\ y = HourLen * BucketOf(y) + (y % HourLen) /\ (y % HourLen) \in 0..HourLen - 1
    BY ConstantsAssumption, SMTT(30) DEF BucketOf
  <1>2. BucketOf(x) >= 0 /\ BucketOf(y) >= 0
    BY <1>1, ConstantsAssumption, SMTT(30)
  <1>3. BucketOf(x) <= BucketOf(y)
    <2> SUFFICES ASSUME BucketOf(x) >= BucketOf(y) + 1 PROVE FALSE
      BY <1>1
    <2>1. HourLen * BucketOf(x) >= HourLen * BucketOf(y) + HourLen
      BY <1>1, <1>2, ConstantsAssumption, SMTT(30)
    <2> DEFINE p == HourLen * BucketOf(x)  q == HourLen * BucketOf(y)
    <2>2. p \in Int /\ q \in Int
      BY <1>1, ConstantsAssumption
    <2> HIDE DEF p, q
    <2>3. x >= p /\ y < q + HourLen
      BY <1>1, <2>2, ConstantsAssumption DEF p, q
    <2> QED  BY <2>1, <2>2, <2>3, ConstantsAssumption DEF p, q
  <1> QED  BY <1>1, <1>2, <1>3

(* A time on the clock lies in one of the hours. *)
LEMMA HourExists ==
  ASSUME NEW x \in 0..MaxTime
  PROVE  BucketOf(x) \in Buckets
  <1>1. BucketOf(x) \in Nat /\ BucketOf(x) <= BucketOf(MaxTime)
    BY HoursAreOrdered, ConstantsAssumption
  <1> QED  BY <1>1, HoursAreOrdered, ConstantsAssumption DEF Buckets, BucketOf

(* A set of numbers that is not empty has a least one. *)
LEMMA LeastExists ==
  ASSUME NEW S \in SUBSET Nat, S # {}
  PROVE  Min(S) \in S /\ \A x \in S : Min(S) <= x
  <1> DEFINE R == {ss \in Nat \X Nat : ss[1] < ss[2]}
  <1>1. IsWellFoundedOn(R, Nat)
    BY NatLessThanWellFounded DEF OpToRel
  <1>2. PICK x \in S : \A y \in S : ~ (<<y, x>> \in R)
    BY <1>1, WFMin
  <1>3. ASSUME NEW y \in S PROVE x <= y
    <2>1. <<y, x>> \in Nat \X Nat /\ <<y, x>>[1] = y /\ <<y, x>>[2] = x
      OBVIOUS
    <2>2. ~ (y < x)
      BY <1>2, <2>1
    <2> QED  BY <2>2
  <1> QED  BY <1>3 DEF Min

(* One that is bounded, too, has a greatest one. *)
LEMMA GreatestExists ==
  ASSUME NEW S \in SUBSET Nat, S # {}, NEW n \in Nat, \A x \in S : x <= n
  PROVE  Max(S) \in S /\ \A x \in S : Max(S) >= x
  <1> DEFINE T == {n - x : x \in S}
  <1>1. T \in SUBSET Nat /\ T # {}
    <2>1. \A x \in S : n - x \in Nat
      OBVIOUS
    <2>2. T \in SUBSET Nat
      BY <2>1
    <2>3. PICK x \in S : TRUE
      OBVIOUS
    <2>4. n - x \in T
      BY <2>3
    <2> QED  BY <2>2, <2>4
  <1>2. Min(T) \in T /\ \A t \in T : Min(T) <= t
    BY <1>1, LeastExists
  <1>3. PICK x \in S : Min(T) = n - x
    BY <1>2
  <1>4. ASSUME NEW y \in S PROVE x >= y
    <2>1. n - y \in T
      OBVIOUS
    <2>2. n - x <= n - y
      BY <1>2, <1>3, <2>1
    <2> QED  BY <2>2
  <1> QED  BY <1>4 DEF Max

-------------------------------------------------------------------------------
(* The rows of metrics_raw. *)

(* Rows are numbered within the history, and their times are on the clock. *)
LEMMA RawIsHistory ==
  ASSUME StoreInv, NEW id \in Ids, NEW i \in Raw(id)
  PROVE  /\ i \in Nat /\ i \in DOMAIN history[id]
         /\ history[id][i].at \in 0..MaxTime
         /\ history[id][i].at <= now
         /\ BucketOf(history[id][i].at) \in Buckets
  <1>1. i \in DOMAIN history[id] /\ i \in Nat
    BY DEF StoreInv, Raw
  <1>2. history[id][i] \in Sample
    BY <1>1 DEF StoreInv
  <1>3. history[id][i].at \in 0..MaxTime /\ history[id][i].at <= now
    BY <1>1, <1>2 DEF StoreInv, Sample
  <1> QED  BY <1>1, <1>3, HourExists

(* The samples of an hour can be counted, the old ones among them too. *)
LEMMA OldAreCounted ==
  ASSUME StoreInv, NEW id \in Ids, NEW b
  PROVE  /\ IsFiniteSet(RawIn(id, b)) /\ Cardinality(RawIn(id, b)) \in Nat
         /\ IsFiniteSet(Old(id, b)) /\ Cardinality(Old(id, b)) \in Nat
         /\ Cardinality(Old(id, b)) <= Cardinality(RawIn(id, b))
         /\ RawIn(id, b) = {} => Cardinality(Old(id, b)) = 0
         /\ Cardinality(RawIn(id, b)) = 0 => Cardinality(Old(id, b)) = 0
  <1>1. dropped[id] + 1 \in Int /\ Len(history[id]) \in Int
    BY DEF StoreInv
  <1>2. IsFiniteSet(Raw(id))
    BY <1>1, FS_Interval DEF Raw
  <1>3. IsFiniteSet(RawIn(id, b))
    BY <1>2, FS_Subset DEF RawIn
  <1>4. Old(id, b) \in SUBSET RawIn(id, b)
    BY DEF Old
  <1>5. IsFiniteSet(Old(id, b)) /\ Cardinality(Old(id, b)) <= Cardinality(RawIn(id, b))
    BY <1>3, <1>4, FS_Subset
  <1>6. Cardinality(RawIn(id, b)) \in Nat /\ Cardinality(Old(id, b)) \in Nat
    BY <1>3, <1>5, FS_CardinalityType
  <1>7. RawIn(id, b) = {} => Cardinality(Old(id, b)) = 0
    BY <1>4, FS_EmptySet
  <1> QED  BY <1>3, <1>5, <1>6, <1>7

(* An hour without samples in the table needs no row. *)
LEMMA EmptyIsSettled ==
  ASSUME StoreInv, RowsInv, NEW b \in Buckets, \A id \in Ids : Old(id, b) = {}
  PROVE  Settled(b)
  <1>1. Cardinality({}) = 0
    BY FS_EmptySet
  <1>2. \A id \in Ids : hourly[id][b].count \in Nat
    BY DEF RowsInv
  <1> QED  BY <1>1, <1>2 DEF Settled

(* No sample from before the run is in an hour after the run's last. *)
LEMMA NothingOldIsLater ==
  ASSUME StoreInv, RunInv, stage # "idle", NEW b \in Buckets, b > last
  PROVE  \A id \in Ids : Old(id, b) = {}
  <1> SUFFICES ASSUME NEW id \in Ids, NEW i \in Old(id, b) PROVE FALSE
    OBVIOUS
  <1>1. i \in Raw(id) /\ BucketOf(history[id][i].at) = b /\ history[id][i].at < started
    BY DEF Old, RawIn
  <1>2. history[id][i].at \in Nat /\ started \in Nat
    <2>1. history[id][i].at \in Nat
      BY <1>1, RawIsHistory
    <2>2. started \in 0..now /\ now \in Nat
      BY DEF RunInv, StoreInv
    <2> QED  BY <2>1, <2>2
  <1>3. b <= last /\ last \in Nat /\ b \in Nat
    BY <1>1, <1>2, HoursAreOrdered DEF RunInv
  <1> QED  BY <1>3

(* The same rows, the same start and the same failures settle the same     *)
(* hours.                                                                  *)
LEMMA SettledStays ==
  ASSUME UNCHANGED <<history, dropped, hourly, started, failed>>, NEW b, Settled(b)
  PROVE  Settled(b)'
  BY DEF Settled, Old, RawIn, Raw, BucketOf

-------------------------------------------------------------------------------
(* The steps. *)

LEMMA InitHourlyInv == Init => HourlyInv
  <1> SUFFICES ASSUME Init PROVE HourlyInv
    OBVIOUS
  <1>1. StoreInv
    BY ConstantsAssumption DEF Init, StoreInv
  <1>2. RowsInv
    BY DEF Init, RowsInv, NoRow
  <1>3. RunInv /\ ProgressInv
    BY DEF Init, RunInv, ProgressInv
  <1> QED  BY <1>1, <1>2, <1>3 DEF HourlyInv

(* The clock, traffic and restarts of containers touch neither the rows    *)
(* nor the run.                                                            *)
LEMMA SurroundingsStep ==
  ASSUME HourlyInv, UNCHANGED <<storeVars, runVars>>,
         now' \in 0..MaxTime, now <= now', stage # "idle" => now' <= started + RawKeep,
         counter' \in [Ids -> Nat], moved' \in [Ids -> Nat]
  PROVE  HourlyInv'
  <1>1. StoreInv'
    <2>1. history' = history /\ dropped' = dropped
      BY DEF storeVars
    <2>2. ASSUME NEW id \in Ids, NEW i \in DOMAIN history[id] PROVE history[id][i].at \in Int
      <3>1. history[id] \in Seq(Sample)
        BY DEF HourlyInv, StoreInv
      <3>2. history[id][i] \in Sample
        BY <3>1
      <3> QED  BY <3>2, ConstantsAssumption DEF Sample
    <2>3. now \in Int /\ now' \in Int
      BY ConstantsAssumption DEF HourlyInv, StoreInv
    <2>4. \A id \in Ids : \A i \in DOMAIN history[id] : history[id][i].at <= now'
      BY <2>2, <2>3 DEF HourlyInv, StoreInv
    <2> QED  BY <2>1, <2>4 DEF HourlyInv, StoreInv
  <1>2. RowsInv'
    BY DEF HourlyInv, RowsInv, storeVars
  <1>3. RunInv'
    BY ConstantsAssumption DEF HourlyInv, StoreInv, RunInv, runVars
  <1>4. ProgressInv'
    BY DEF HourlyInv, ProgressInv, Settled, Old, RawIn, Raw, storeVars, runVars
  <1> QED  BY <1>1, <1>2, <1>3, <1>4 DEF HourlyInv

(* A sample inserted during a run is not old. *)
LEMMA InsertStep ==
  ASSUME HourlyInv, NEW id \in Ids, InsertRawMetric(id)
  PROVE  HourlyInv'
  <1> DEFINE s == [at |-> now, rx |-> counter[id], moved |-> moved[id]]
  <1>1. s \in Sample /\ s.at = now
    BY DEF HourlyInv, StoreInv, Sample
  <1>2. history' = [history EXCEPT ![id] = Append(@, s)]
    BY DEF InsertRawMetric
  <1> HIDE DEF s
  <1>3. UNCHANGED <<now, counter, moved, dropped, hourly, stage, bucket, last, batch,
                    started, failed>>
    BY DEF InsertRawMetric, envVars, runVars
  <1>4. /\ history'[id] \in Seq(Sample) /\ Len(history'[id]) = Len(history[id]) + 1
        /\ \A i \in 1..Len(history[id]) : history'[id][i] = history[id][i]
        /\ history'[id][Len(history[id]) + 1] = s
        /\ \A c \in Ids \ {id} : history'[c] = history[c]
        /\ history' \in [Ids -> Seq(Sample)]
        /\ Len(history[id]) \in Nat /\ history[id] \in Seq(Sample)
    BY <1>1, <1>2 DEF HourlyInv, StoreInv
  <1>5. StoreInv'
    <2>1. \A i \in 1..Len(history[id]) : history[id][i].at < now
      BY DEF InsertRawMetric, HourlyInv, StoreInv
    <2>2. /\ \A i \in DOMAIN history'[id] : history'[id][i].at <= now
          /\ \A i, j \in DOMAIN history'[id] : i < j => history'[id][i].at < history'[id][j].at
      <3>1. DOMAIN history'[id] = 1..Len(history[id]) + 1 /\ DOMAIN history[id] = 1..Len(history[id])
        BY <1>4
      <3>2. now \in Int
        BY ConstantsAssumption DEF HourlyInv, StoreInv
      <3>3. \A i \in 1..Len(history[id]) : history[id][i].at <= now
        BY <3>1 DEF HourlyInv, StoreInv
      <3>4. \A i \in 1..Len(history[id]) + 1 :
                i \in 1..Len(history[id]) \/ i = Len(history[id]) + 1
        BY <1>4
      <3>5. \A i \in DOMAIN history'[id] : history'[id][i].at <= now
        BY <1>1, <1>4, <3>1, <3>2, <3>3, <3>4
      <3>6. ASSUME NEW i \in DOMAIN history'[id], NEW j \in DOMAIN history'[id], i < j
            PROVE  history'[id][i].at < history'[id][j].at
        <4>1. i \in 1..Len(history[id])
          BY <3>1, <3>6, <1>4
        <4>2. CASE j = Len(history[id]) + 1
          BY <4>1, <4>2, <2>1, <1>1, <1>4
        <4>3. CASE j \in 1..Len(history[id])
          BY <4>1, <4>3, <3>1, <3>6, <1>4 DEF HourlyInv, StoreInv
        <4> QED  BY <4>2, <4>3, <3>1, <3>4
      <3> QED  BY <3>5, <3>6
    <2> QED  BY <2>2, <1>3, <1>4 DEF HourlyInv, StoreInv
  <1>6. RowsInv' /\ RunInv'
    BY <1>3 DEF HourlyInv, RowsInv, RunInv, BucketOf
  <1>7. ProgressInv'
    <2>1. CASE stage = "idle"
      BY <2>1, <1>3 DEF ProgressInv
    <2>2. CASE stage # "idle"
      <3>1. ASSUME NEW c \in Ids, NEW b PROVE Old(c, b)' = Old(c, b)
        <4>1. CASE c # id
          BY <4>1, <1>3, <1>4 DEF Old, RawIn, Raw, BucketOf
        <4>2. CASE c = id
          <5>1. ~ (s.at < started)
            BY <2>2, <1>1, ConstantsAssumption DEF HourlyInv, StoreInv, RunInv
          <5>2. dropped[id] \in Nat
            BY DEF HourlyInv, StoreInv
          <5>3. \A i : i \in Raw(id)' <=> i \in Raw(id) \/ (i = Len(history[id]) + 1 /\ i \in Raw(id)')
            BY <5>2, <1>3, <1>4 DEF Raw
          <5>4. \A i \in Raw(id) : i \in 1..Len(history[id])
            BY <5>2, <1>4 DEF Raw
          <5>5. \A i : i \in Old(id, b) <=>
                    i \in Raw(id) /\ history[id][i].at \div HourLen = b /\ history[id][i].at < started
            BY DEF Old, RawIn, BucketOf
          <5>6. \A i : i \in Old(id, b)' <=>
                    i \in Raw(id)' /\ history'[id][i].at \div HourLen = b /\ history'[id][i].at < started
            BY <1>3 DEF Old, RawIn, BucketOf
          <5>7. ASSUME NEW i PROVE i \in Old(id, b)' <=> i \in Old(id, b)
            <6>1. CASE i \in Raw(id)
              BY <6>1, <5>3, <5>4, <5>5, <5>6, <1>4
            <6>2. CASE i \notin Raw(id)
              BY <6>2, <5>1, <5>3, <5>5, <5>6, <1>4
            <6> QED  BY <6>1, <6>2
          <5> QED  BY <4>2, <5>7 DEF Old, RawIn
        <4> QED  BY <4>1, <4>2
      <3>2. ASSUME NEW b, Settled(b) PROVE Settled(b)'
        BY <3>1, <3>2, <1>3 DEF Settled
      <3> QED  BY <3>1, <3>2, <1>3 DEF HourlyInv, ProgressInv
    <2> QED  BY <2>1, <2>2
  <1> QED  BY <1>5, <1>6, <1>7 DEF HourlyInv

(* The run begins with the first hour that has samples. *)
LEMMA StartStep ==
  ASSUME HourlyInv, StartRun
  PROVE  HourlyInv'
  <1>1. UNCHANGED <<now, counter, moved, history, dropped, hourly, batch>>
    BY DEF StartRun, envVars, storeVars
  <1>2. stage = "idle" /\ started' = now /\ last' = BucketOf(now) /\ now \in 0..MaxTime
    BY DEF StartRun, HourlyInv, StoreInv
  <1>3. StoreInv' /\ RowsInv'
    BY <1>1 DEF HourlyInv, StoreInv, RowsInv
  <1>4. CASE AllRaw # {} /\ bucket' = Min(AllRaw) /\ stage' = "read" /\ failed' = failed
    <2>1. AllRaw \in SUBSET Nat /\ \A x \in AllRaw : x <= last'
      <3> SUFFICES ASSUME NEW id \in Ids, NEW i \in Raw(id)
                   PROVE  BucketOf(history[id][i].at) \in Nat /\ BucketOf(history[id][i].at) <= last'
        BY DEF AllRaw
      <3>1. history[id][i].at \in Nat /\ history[id][i].at <= now /\ now \in Nat
        BY <1>2, RawIsHistory, ConstantsAssumption DEF HourlyInv
      <3> QED  BY <1>2, <3>1, HoursAreOrdered
    <2>2. bucket' \in AllRaw /\ \A x \in AllRaw : bucket' <= x
      BY <1>4, <2>1, LeastExists
    <2>3. RunInv'
      BY <1>1, <1>2, <1>4, <2>1, <2>2, ConstantsAssumption DEF HourlyInv, RunInv, BucketOf
    <2>4. ASSUME NEW b \in Buckets, b < bucket' PROVE Settled(b)'
      <3>1. b \in Nat /\ bucket' \in Nat
        BY <2>1, <2>2 DEF Buckets
      <3>2. ~ (b \in AllRaw)
        BY <2>2, <2>4, <3>1
      <3>3. \A id \in Ids : RawIn(id, b) = {}
        BY <3>2 DEF RawIn, AllRaw
      <3>4. \A id \in Ids : Old(id, b)' = {}
        BY <1>1, <3>3 DEF Old, RawIn, Raw, BucketOf
      <3>5. \A id \in Ids : hourly'[id][b].count >= 0
        BY <1>3 DEF RowsInv, Buckets
      <3>6. \A id \in Ids : Cardinality(Old(id, b)') = 0
        BY <3>4, FS_EmptySet
      <3>7. \A id \in Ids : hourly'[id][b].count >= Cardinality(Old(id, b)')
        BY <3>5, <3>6
      <3> QED  BY <3>7 DEF Settled
    <2>5. ProgressInv'
      BY <1>4, <2>4 DEF ProgressInv, Buckets
    <2> QED  BY <1>3, <2>3, <2>5 DEF HourlyInv
  <1>5. CASE AllRaw = {} /\ bucket' = 0 /\ stage' = "deleteRaw" /\ failed' = failed
    <2>1. RunInv'
      BY <1>1, <1>2, <1>5, ConstantsAssumption DEF HourlyInv, RunInv, BucketOf
    <2>2. ASSUME NEW b \in Buckets PROVE Settled(b)'
      <3>1. \A id \in Ids : RawIn(id, b) = {}
        BY <1>5 DEF RawIn, AllRaw
      <3>2. \A id \in Ids : Old(id, b)' = {}
        BY <1>1, <3>1 DEF Old, RawIn, Raw, BucketOf
      <3>3. \A id \in Ids : hourly'[id][b].count >= 0
        BY <1>3 DEF RowsInv, Buckets
      <3>4. \A id \in Ids : Cardinality(Old(id, b)') = 0
        BY <3>2, FS_EmptySet
      <3>5. \A id \in Ids : hourly'[id][b].count >= Cardinality(Old(id, b)')
        BY <3>3, <3>4
      <3> QED  BY <3>5 DEF Settled
    <2>3. ProgressInv'
      BY <1>5, <2>2 DEF ProgressInv, Buckets
    <2> QED  BY <1>3, <2>1, <2>3 DEF HourlyInv
  <1>6. CASE failed' = Buckets /\ bucket' = 0 /\ stage' = "deleteRaw"
    <2>1. RunInv'
      BY <1>1, <1>2, <1>6, ConstantsAssumption DEF HourlyInv, RunInv, BucketOf, Buckets
    <2>2. ProgressInv'
      BY <1>6 DEF ProgressInv, Settled, Buckets
    <2> QED  BY <1>3, <2>1, <2>2 DEF HourlyInv
  <1> QED  BY <1>4, <1>5, <1>6 DEF StartRun

(* The run goes on to the next hour when the hour it is at is settled; the *)
(* last one settles all the later ones.                                    *)
LEMMA NextBucketStep ==
  ASSUME HourlyInv, stage \in {"read", "rows", "commit"}, NextBucket,
         UNCHANGED <<now, counter, moved, history, dropped, last, started>>,
         failed \subseteq failed', failed' \subseteq Buckets, RowsInv',
         \A b \in Buckets : b <= bucket => Settled(b)'
  PROVE  HourlyInv'
  <1>1. StoreInv'
    BY DEF HourlyInv, StoreInv
  <1>2. bucket \in Nat /\ bucket' = bucket + 1 /\ bucket <= last /\ last = BucketOf(started)
        /\ started \in 0..now /\ now \in 0..MaxTime
    BY DEF HourlyInv, RunInv, NextBucket, StoreInv
  <1>3. last \in Nat
    BY <1>2, HoursAreOrdered, ConstantsAssumption
  <1>4. RunInv'
    BY <1>2, <1>3 DEF HourlyInv, RunInv, NextBucket, BucketOf, Buckets
  <1>5. CASE bucket + 1 <= last
    <2>1. stage' = "read"
      BY <1>2, <1>3, <1>5 DEF NextBucket
    <2>2. \A b \in Buckets : b < bucket' => Settled(b)'
      BY <1>2 DEF Buckets
    <2> QED  BY <1>1, <1>4, <2>1, <2>2 DEF HourlyInv, ProgressInv, Buckets
  <1>6. CASE bucket + 1 > last
    <2>1. stage' = "deleteRaw"
      BY <1>2, <1>3, <1>6 DEF NextBucket
    <2>2. ASSUME NEW b \in Buckets PROVE Settled(b)'
      <3>1. CASE b <= bucket
        BY <3>1
      <3>2. CASE b > bucket
        <4>1. b > last
          BY <1>2, <1>3, <1>6, <3>2 DEF Buckets
        <4>2. \A id \in Ids : Old(id, b) = {}
          BY <4>1, NothingOldIsLater DEF HourlyInv
        <4>3. \A id \in Ids : Old(id, b)' = {}
          BY <4>2 DEF Old, RawIn, Raw, BucketOf
        <4>4. Cardinality({}) = 0 /\ \A id \in Ids : hourly'[id][b].count \in Nat
          BY FS_EmptySet DEF RowsInv, Buckets
        <4>5. ASSUME NEW id \in Ids PROVE hourly'[id][b].count >= Cardinality(Old(id, b)')
          <5>1. Cardinality(Old(id, b)') = 0
            BY <4>3, <4>4, Zenon
          <5>2. hourly'[id][b].count \in Nat
            BY <4>4
          <5> QED  BY <5>1, <5>2
        <4> QED  BY <4>5 DEF Settled
      <3> QED  BY <1>2, <3>1, <3>2 DEF Buckets
    <2> QED  BY <1>1, <1>4, <2>1, <2>2 DEF HourlyInv, ProgressInv, Buckets
  <1> QED  BY <1>2, <1>3, <1>5, <1>6 DEF HourlyInv

(* A query, or a transaction, that fails leaves its hour out. *)
LEMMA FailStep ==
  ASSUME HourlyInv, stage \in {"read", "rows", "commit"}, FailBucket, NextBucket,
         UNCHANGED <<now, counter, moved, history, dropped, hourly, last, started>>
  PROVE  HourlyInv'
  <1>1. failed' = failed \cup {bucket} /\ bucket \in Buckets
    <2>1. /\ bucket <= last /\ last = BucketOf(started) /\ started \in 0..now /\ now \in 0..MaxTime
          /\ bucket \in Nat
      BY DEF HourlyInv, RunInv, StoreInv
    <2>2. started \in Nat /\ started <= MaxTime
      BY <2>1, ConstantsAssumption
    <2>3. last \in Nat /\ last <= BucketOf(MaxTime) /\ BucketOf(MaxTime) \in Nat
      BY <2>1, <2>2, HoursAreOrdered, ConstantsAssumption
    <2> QED  BY <2>1, <2>3 DEF FailBucket, Buckets, BucketOf
  <1>2. RowsInv' /\ bucket \in Nat
    BY <1>1 DEF HourlyInv, RowsInv, Buckets
  <1>3. ASSUME NEW b \in Buckets, b <= bucket PROVE Settled(b)'
    <2>1. CASE b < bucket
      BY <1>1, <2>1 DEF HourlyInv, ProgressInv, Settled, Old, RawIn, Raw, BucketOf
    <2>2. CASE b = bucket
      BY <1>1, <2>2 DEF Settled
    <2> QED  BY <1>2, <1>3, <2>1, <2>2 DEF Buckets
  <1> QED  BY <1>1, <1>2, <1>3, NextBucketStep DEF HourlyInv, RunInv

LEMMA QueryPreviousStep ==
  ASSUME HourlyInv, QueryPrevious
  PROVE  HourlyInv'
  <1>1. /\ stage = "read"
        /\ UNCHANGED <<now, counter, moved, history, dropped, hourly, last, batch, started>>
    BY DEF QueryPrevious, envVars, storeVars
  <1>2. CASE stage' = "rows" /\ UNCHANGED <<bucket, failed>>
    <2>1. StoreInv' /\ RunInv' /\ RowsInv'
      BY <1>1, <1>2 DEF HourlyInv, StoreInv, RunInv, RowsInv, BucketOf, Buckets
    <2>2. ASSUME NEW b \in Buckets, b < bucket PROVE Settled(b)'
      <3>1. Settled(b)
        BY <1>1, <2>2 DEF HourlyInv, ProgressInv
      <3> QED  BY <1>1, <1>2, <3>1, SettledStays
    <2>3. ProgressInv'
      BY <1>2, <2>2 DEF ProgressInv, Buckets
    <2> QED  BY <2>1, <2>3 DEF HourlyInv
  <1>3. CASE FailBucket /\ NextBucket
    BY <1>1, <1>3, FailStep
  <1> QED  BY <1>2, <1>3 DEF QueryPrevious

(* The second query reads the hour's samples, or none. *)
LEMMA QueryRowsStep ==
  ASSUME HourlyInv, QueryRows
  PROVE  HourlyInv'
  <1>1. stage = "rows" /\ UNCHANGED <<now, counter, moved, history, dropped, hourly, last, started>>
    BY DEF QueryRows, envVars, storeVars
  <1>2. bucket \in Nat /\ RowsInv'
    BY <1>1 DEF HourlyInv, RunInv, RowsInv
  <1>3. CASE /\ batch' = [id \in Ids |-> Aggregate(id, bucket)] /\ stage' = "commit"
             /\ UNCHANGED <<bucket, failed>>
    <2>1. StoreInv' /\ RunInv'
      BY <1>1, <1>3 DEF HourlyInv, StoreInv, RunInv, BucketOf, Buckets
    <2>2. \A b \in Buckets : b < bucket' => Settled(b)'
      <3> SUFFICES ASSUME NEW b \in Buckets, b < bucket PROVE Settled(b)'
        BY <1>3
      <3>1. Settled(b)
        BY <1>1 DEF HourlyInv, ProgressInv
      <3> QED  BY <1>1, <1>3, <3>1, SettledStays
    <2>3. ASSUME NEW id \in Ids
          PROVE  batch'[id].count \in Nat /\ batch'[id].count >= Cardinality(Old(id, bucket)')
      <3>1. batch'[id].count = Cardinality(RawIn(id, bucket))
        BY <1>3 DEF Aggregate
      <3>2. Old(id, bucket)' = Old(id, bucket)
        BY <1>1, <1>3 DEF Old, RawIn, Raw, BucketOf
      <3> QED  BY <3>1, <3>2, OldAreCounted DEF HourlyInv
    <2>4. ProgressInv'
      BY <1>3, <2>2, <2>3 DEF ProgressInv, Buckets
    <2> QED  BY <1>2, <2>1, <2>4 DEF HourlyInv
  <1>4. CASE (\A id \in Ids : RawIn(id, bucket) = {}) /\ NextBucket /\ UNCHANGED failed
    <2>1. ASSUME NEW b \in Buckets, b <= bucket PROVE Settled(b)'
      <3>1. CASE b < bucket
        BY <1>1, <1>4, <3>1, SettledStays DEF HourlyInv, ProgressInv
      <3>2. CASE b = bucket
        <4>1. Settled(b)
          BY <1>4, <3>2, EmptyIsSettled DEF HourlyInv, Old
        <4> QED  BY <1>1, <1>4, <4>1, SettledStays
      <3> QED  BY <1>2, <2>1, <3>1, <3>2 DEF Buckets
    <2> QED  BY <1>1, <1>2, <1>4, <2>1, NextBucketStep DEF HourlyInv, RunInv
  <1>5. CASE FailBucket /\ NextBucket
    BY <1>1, <1>5, FailStep
  <1> QED  BY <1>3, <1>4, <1>5 DEF QueryRows

LEMMA CommitStep ==
  ASSUME HourlyInv, CommitBucket
  PROVE  HourlyInv'
  <1>1. /\ stage = "commit" /\ NextBucket
        /\ UNCHANGED <<now, counter, moved, history, dropped, last, started>>
    BY DEF CommitBucket, envVars
  <1>2. bucket \in Nat /\ bucket \in Buckets
    <2>1. bucket \in Nat /\ bucket <= last /\ last = BucketOf(started) /\ started \in 0..now
          /\ now \in 0..MaxTime
      BY <1>1 DEF HourlyInv, RunInv, StoreInv
    <2>2. started \in Nat /\ started <= MaxTime
      BY <2>1, ConstantsAssumption
    <2>3. last \in Nat /\ last <= BucketOf(MaxTime) /\ BucketOf(MaxTime) \in Nat
      BY <2>1, <2>2, HoursAreOrdered, ConstantsAssumption
    <2> QED  BY <2>1, <2>3 DEF Buckets, BucketOf
  <1>3. CASE /\ hourly' = [id \in Ids |->
                    [hourly[id] EXCEPT
                        ![bucket] = IF batch[id].count = 0 THEN @ ELSE batch[id]]]
             /\ UNCHANGED failed
    <2>1. ASSUME NEW id \in Ids
          PROVE  /\ hourly'[id] = [b \in Buckets |-> hourly'[id][b]]
                 /\ \A b \in Buckets : b # bucket => hourly'[id][b] = hourly[id][b]
                 /\ hourly'[id][bucket] = IF batch[id].count = 0 THEN hourly[id][bucket] ELSE batch[id]
      <3>1. hourly[id] = [b \in Buckets |-> hourly[id][b]]
        BY DEF HourlyInv, RowsInv
      <3>2. hourly'[id] = [hourly[id] EXCEPT
                               ![bucket] = IF batch[id].count = 0 THEN @ ELSE batch[id]]
        BY <1>3
      <3> HIDE <1>3
      <3> QED  BY <1>2, <3>1, <3>2
    <2>2. RowsInv'
      <3>1. hourly' = [id \in Ids |-> [b \in Buckets |-> hourly'[id][b]]]
        BY <1>3, <2>1
      <3>2. ASSUME NEW id \in Ids, NEW b \in Buckets PROVE hourly'[id][b].count \in Nat
        <4>1. hourly'[id][b] \in {hourly[id][b], batch[id]}
          BY <1>2, <2>1
        <4>2. hourly[id][b].count \in Nat
          BY DEF HourlyInv, RowsInv
        <4>3. batch[id].count \in Nat
          BY <1>1 DEF HourlyInv, ProgressInv
        <4> QED  BY <4>1, <4>2, <4>3
      <3> QED  BY <3>1, <3>2 DEF RowsInv, Buckets
    <2>3. ASSUME NEW b \in Buckets, b <= bucket PROVE Settled(b)'
      <3>1. \A id \in Ids : Old(id, b)' = Old(id, b)
        BY <1>1 DEF Old, RawIn, Raw, BucketOf
      <3>2. CASE b < bucket
        <4>1. Settled(b)
          BY <1>1, <3>2 DEF HourlyInv, ProgressInv
        <4>2. b # bucket
          BY <1>2, <3>2
        <4> QED  BY <1>3, <2>1, <3>1, <4>1, <4>2 DEF Settled
      <3>3. CASE b = bucket
        <4>1. ASSUME NEW id \in Ids PROVE hourly'[id][b].count >= Cardinality(Old(id, b))
          <5>1. /\ batch[id].count \in Nat
                /\ batch[id].count >= Cardinality(Old(id, bucket))
                /\ hourly[id][bucket].count \in Nat
            BY <1>1, <1>2 DEF HourlyInv, ProgressInv, RowsInv
          <5>2. Cardinality(Old(id, bucket)) \in Nat
            BY OldAreCounted DEF HourlyInv
          <5>3. hourly'[id][bucket] = IF batch[id].count = 0 THEN hourly[id][bucket] ELSE batch[id]
            BY <2>1
          <5>4. hourly'[id][bucket].count >= Cardinality(Old(id, bucket))
            BY <5>1, <5>2, <5>3
          <5> QED  BY <3>3, <5>4
        <4> QED  BY <3>1, <4>1 DEF Settled
      <3> QED  BY <1>2, <2>3, <3>2, <3>3 DEF Buckets
    <2> QED  BY <1>1, <1>3, <2>2, <2>3, NextBucketStep DEF HourlyInv, RunInv
  <1>4. CASE FailBucket /\ UNCHANGED hourly
    BY <1>1, <1>4, FailStep
  <1> QED  BY <1>3, <1>4 DEF CommitBucket

(* What is deleted is a prefix of the samples that are old enough. *)
LEMMA OnlyExpiredIsDeleted ==
  ASSUME HourlyInv, DeleteRaw, NEW id \in Ids
  PROVE  dropped'[id] \in {dropped[id]} \cup Expirable(id)
  <1> DEFINE S == {dropped[id]} \cup Expirable(id)
  <1>1. S \in SUBSET Nat /\ S # {} /\ \A x \in S : x <= dropped[id] + Len(history[id])
    BY DEF HourlyInv, StoreInv, Expirable, Raw
  <1>2. dropped[id] + Len(history[id]) \in Nat
    BY DEF HourlyInv, StoreInv
  <1>3. Max(S) \in S
    BY <1>1, <1>2, GreatestExists
  <1> HIDE DEF S
  <1>4. dropped' = [c \in Ids |-> Max({dropped[c]} \cup Expirable(c))]
        \/ \A c \in Ids : dropped'[c] \in {dropped[c]} \cup Expirable(c)
    BY DEF DeleteRaw
  <1> QED  BY <1>3, <1>4 DEF S

LEMMA DeleteRawStep ==
  ASSUME HourlyInv, DeleteRaw
  PROVE  HourlyInv'
  <1>1. UNCHANGED <<now, counter, moved, history, hourly, batch>>
    BY DEF DeleteRaw, envVars
  <1>2. dropped' \in [Ids -> Nat]
    <2>1. \A id \in Ids : dropped'[id] \in Nat
      BY OnlyExpiredIsDeleted DEF HourlyInv, StoreInv, Expirable, Raw
    <2>2. dropped' = [id \in Ids |-> dropped'[id]]
      BY DEF DeleteRaw
    <2> QED  BY <2>1, <2>2
  <1>3. StoreInv' /\ RowsInv'
    BY <1>1, <1>2 DEF HourlyInv, StoreInv, RowsInv
  <1>4. \/ stage' = "deleteHourly" /\ UNCHANGED <<bucket, last, started, failed>>
        \/ stage' = "idle" /\ failed' = {}
    BY DEF DeleteRaw, EndRun
  <1>5. RunInv'
    BY <1>1, <1>4 DEF HourlyInv, RunInv, DeleteRaw, BucketOf
  <1>6. ProgressInv'
    BY <1>4 DEF ProgressInv
  <1> QED  BY <1>3, <1>5, <1>6 DEF HourlyInv

(* The end of a run, whole or cut short, leaves the rows numbers. *)
LEMMA EndStep ==
  ASSUME HourlyInv, EndRun, UNCHANGED <<now, counter, moved, history, dropped>>, RowsInv'
  PROVE  HourlyInv'
  BY DEF HourlyInv, StoreInv, RunInv, ProgressInv, EndRun

LEMMA DeleteHourlyStep ==
  ASSUME HourlyInv, DeleteHourly
  PROVE  HourlyInv'
  <1>1. EndRun /\ UNCHANGED <<now, counter, moved, history, dropped>>
    BY DEF DeleteHourly, envVars
  <1>2. CASE UNCHANGED hourly
    BY <1>1, <1>2, EndStep DEF HourlyInv, RowsInv
  <1>3. CASE hourly' = [id \in Ids |-> [b \in Buckets |->
                IF b * HourLen < now - HourlyKeep THEN NoRow ELSE hourly[id][b]]]
    <2>1. RowsInv'
      BY <1>3 DEF HourlyInv, RowsInv, NoRow, Buckets
    <2> QED  BY <1>1, <2>1, EndStep
  <1> QED  BY <1>2, <1>3 DEF DeleteHourly

LEMMA NextHourlyInv == HourlyInv /\ [Next]_vars => HourlyInv'
  <1> SUFFICES ASSUME HourlyInv, [Next]_vars PROVE HourlyInv'
    OBVIOUS
  <1>1. CASE Tick
    <2>1. /\ UNCHANGED <<storeVars, runVars, counter, moved>>
          /\ now < MaxTime /\ now' = now + 1 /\ (stage # "idle" => now - started < RawKeep)
      BY <1>1 DEF Tick
    <2>2. /\ now \in Int /\ now >= 0 /\ (stage # "idle" => started \in Int)
          /\ counter \in [Ids -> Nat] /\ moved \in [Ids -> Nat]
      BY ConstantsAssumption DEF HourlyInv, StoreInv, RunInv
    <2>3. /\ now' \in 0..MaxTime /\ now <= now' /\ (stage # "idle" => now' <= started + RawKeep)
          /\ counter' \in [Ids -> Nat] /\ moved' \in [Ids -> Nat]
      BY <2>1, <2>2, ConstantsAssumption
    <2> QED  BY <2>1, <2>3, SurroundingsStep
  <1>2. CASE StartRun
    BY <1>2, StartStep
  <1>3. CASE QueryPrevious \/ QueryRows
    BY <1>3, QueryPreviousStep, QueryRowsStep
  <1>4. CASE CommitBucket
    BY <1>4, CommitStep
  <1>5. CASE DeleteRaw
    BY <1>5, DeleteRawStep
  <1>6. CASE DeleteHourly
    BY <1>6, DeleteHourlyStep
  <1>7. CASE RestartProgram
    BY <1>7, EndStep DEF RestartProgram, envVars, storeVars, HourlyInv, RowsInv
  <1>8. ASSUME NEW id \in Ids, Traffic(id) \/ RestartContainer(id) PROVE HourlyInv'
    <2>1. /\ UNCHANGED <<storeVars, runVars, now>>
          /\ now \in 0..MaxTime /\ (stage # "idle" => now <= started + RawKeep)
          /\ counter \in [Ids -> Nat] /\ moved \in [Ids -> Nat]
      BY <1>8 DEF Traffic, RestartContainer, HourlyInv, StoreInv, RunInv
    <2>2. counter' \in [Ids -> Nat] /\ moved' \in [Ids -> Nat]
      BY <1>8, <2>1 DEF Traffic, RestartContainer
    <2> QED  BY <2>1, <2>2, SurroundingsStep, ConstantsAssumption
  <1>9. ASSUME NEW id \in Ids, InsertRawMetric(id) PROVE HourlyInv'
    BY <1>9, InsertStep
  <1>10. CASE UNCHANGED vars
    <2>1. /\ UNCHANGED <<storeVars, runVars, now, counter, moved>>
          /\ now \in 0..MaxTime /\ (stage # "idle" => now <= started + RawKeep)
          /\ counter \in [Ids -> Nat] /\ moved \in [Ids -> Nat]
      BY <1>10 DEF vars, envVars, HourlyInv, StoreInv, RunInv
    <2> QED  BY <2>1, SurroundingsStep, ConstantsAssumption
  <1> QED  BY <1>1, <1>2, <1>3, <1>4, <1>5, <1>6, <1>7, <1>8, <1>9, <1>10 DEF Next, Maintenance

-------------------------------------------------------------------------------
(* The theorems. *)

(* For any number of containers, hours and retention times: when a run     *)
(* reaches deleteRaw, the row of every hour that did not fail counts the   *)
(* samples from before the run (aggregate.go:50-62).                       *)
THEOREM RunsCountWhatIsOld == Spec => []HourlyInv
  BY InitHourlyInv, NextHourlyInv, PTL DEF Spec

(* What DeleteRaw deletes is counted in the row of its hour. *)
LEMMA DeletedIsCounted ==
  ASSUME HourlyInv, DeleteRaw, NEW id \in Ids, NEW i \in dropped[id] + 1..dropped'[id]
  PROVE  LET b == BucketOf(history[id][i].at) IN
         \/ b \in failed
         \/ hourly[id][b].count >= Cardinality({j \in RawIn(id, b) : j <= i})
  <1> DEFINE b == BucketOf(history[id][i].at)
             d == dropped'[id]
             P == {j \in RawIn(id, b) : j <= i}
  <1>1. d \in Expirable(id)
    <2>1. dropped[id] \in Nat
      BY DEF HourlyInv, StoreInv
    <2>2. d \in {dropped[id]} \cup Expirable(id)
      BY OnlyExpiredIsDeleted
    <2>3. CASE d = dropped[id]
      BY <2>1, <2>3
    <2> QED  BY <2>2, <2>3
  <1>2. d \in Raw(id) /\ history[id][d].at < now - RawKeep
    BY <1>1 DEF Expirable
  <1>3. /\ started \in Int /\ now \in Int /\ RawKeep \in Int /\ now <= started + RawKeep
        /\ stage = "deleteRaw"
    BY ConstantsAssumption DEF DeleteRaw, HourlyInv, RunInv, StoreInv
  <1>4. history[id][d].at \in Int /\ d \in DOMAIN history[id] /\ d \in Nat
    BY <1>2, RawIsHistory DEF HourlyInv
  <1>5. history[id][d].at < started
    BY <1>2, <1>3, <1>4
  <1>6. dropped[id] \in Nat /\ i \in Nat /\ dropped[id] + 1 <= i /\ i <= d
    BY <1>4 DEF HourlyInv, StoreInv
  <1>7. ASSUME NEW j \in Raw(id), j <= i PROVE history[id][j].at < started
    <2>1. /\ j \in DOMAIN history[id] /\ j \in Nat
          /\ history[id][j].at \in Int
      BY RawIsHistory DEF HourlyInv
    <2>2. j < d => history[id][j].at < history[id][d].at
      BY <1>4, <2>1 DEF HourlyInv, StoreInv
    <2> QED  BY <1>3, <1>4, <1>5, <1>6, <1>7, <2>1, <2>2
  <1>8. i \in Raw(id)
    BY <1>2, <1>6 DEF Raw
  <1>9. b \in Buckets
    BY <1>8, RawIsHistory DEF HourlyInv
  <1> HIDE DEF b
  <1>10. P \in SUBSET Old(id, b)
    BY <1>7 DEF Old, RawIn
  <1>11. IsFiniteSet(Old(id, b)) /\ Cardinality(Old(id, b)) \in Nat
    BY OldAreCounted DEF HourlyInv
  <1>12. Cardinality(P) <= Cardinality(Old(id, b)) /\ IsFiniteSet(P)
    BY <1>10, <1>11, FS_Subset
  <1>13. Cardinality(P) \in Nat
    BY <1>12, FS_CardinalityType
  <1>14. hourly[id][b].count \in Nat /\ Settled(b)
    BY <1>3, <1>9 DEF HourlyInv, ProgressInv, RowsInv
  <1>15. b \in failed \/ hourly[id][b].count >= Cardinality(P)
    BY <1>11, <1>12, <1>13, <1>14 DEF Settled
  <1> QED  BY <1>15 DEF b

(* Nothing is deleted that was not aggregated, although samples keep       *)
(* arriving behind the aggregator's reads and runs are cut short           *)
(* (retention.go:25, main.go:247-263).                                     *)
THEOREM NothingIsDeletedUncounted == Spec => DeletedIsAggregated
  <1> DEFINE Counted ==
        \A id \in Ids : \A i \in dropped[id] + 1..dropped'[id] :
            LET b == BucketOf(history[id][i].at) IN
            \/ b \in failed
            \/ hourly[id][b].count >= Cardinality({j \in RawIn(id, b) : j <= i})
  <1>1. HourlyInv /\ [Next]_vars => [Counted]_vars
    <2> SUFFICES ASSUME HourlyInv, [Next]_vars PROVE [Counted]_vars
      OBVIOUS
    <2>1. CASE DeleteRaw
      BY <2>1, DeletedIsCounted
    <2>2. CASE UNCHANGED dropped
      BY <2>2 DEF HourlyInv, StoreInv
    <2> QED  BY <2>1, <2>2 DEF Next, vars, Maintenance, storeVars, Tick, StartRun, QueryPrevious,
                    QueryRows, CommitBucket, DeleteHourly, RestartProgram, Traffic, RestartContainer,
                    InsertRawMetric
  <1>2. Spec => [][Counted]_vars
    BY <1>1, RunsCountWhatIsOld, PTL DEF Spec
  <1> QED  BY <1>2 DEF DeletedIsAggregated

-------------------------------------------------------------------------------
(* What the rows say: deltas are exact. *)

(* Between two samples, the second no earlier than the first: the growth   *)
(* of the counter, or all of it after a reset, has moved.                  *)
Between(s, t) ==
    /\ s.moved <= t.moved
    /\ \/ t.rx - s.rx = t.moved - s.moved
       \/ t.rx <= t.moved - s.moved

Present(id) == [rx |-> counter[id], moved |-> moved[id]]

MovedInv ==
    /\ resets \in 0..MaxResets
    /\ \A id \in Ids :
        /\ counter[id] <= moved[id] /\ moved[id] <= MaxMoved
        /\ resets = 0 => counter[id] = moved[id]
        /\ \A i \in DOMAIN history[id] :
            /\ history[id][i].rx <= history[id][i].moved
            /\ resets = 0 => history[id][i].rx = history[id][i].moved
            /\ Between(history[id][i], Present(id))
        /\ \A i, j \in DOMAIN history[id] : i < j => Between(history[id][i], history[id][j])
        /\ dropped[id] <= Len(history[id])

(* The hour's samples are all in the table, and the one before it is, too, *)
(* if there is one.                                                        *)
Complete(id, b) == dropped[id] < Min(AllIn(id, b)) - 1 \/ dropped[id] = 0

(* What a row claims can be told when the hour is complete; a torn one     *)
(* does without the sample before it.                                      *)
Told(id, b, row) ==
    Complete(id, b) \/ (row.torn /\ dropped[id] < Min(AllIn(id, b)))

(* It counts the samples from the first one of the hour to another one,    *)
(* and the bytes between; a torn one all bytes before, too.                *)
RowExact(id, b, row) ==
    /\ AllIn(id, b) # {}
    /\ Told(id, b, row) =>
        LET first == Min(AllIn(id, b))
            final == first + row.count - 1
            claim == TrueMoved(id, IF row.torn THEN 1 ELSE first, final)
        IN  /\ final \in AllIn(id, b)
            /\ row.delta <= claim
            /\ resets = 0 => row.delta = claim

RowsExact ==
    \A id \in Ids :
        /\ \A b \in Buckets :
            /\ hourly[id][b] \in Row
            /\ hourly[id][b].count > 0 => RowExact(id, b, hourly[id][b])
        /\ batch[id] \in Row
        /\ stage = "commit" /\ batch[id].count > 0 => RowExact(id, bucket, batch[id])

PlaceInv ==
    /\ started \in 0..now /\ last \in Buckets /\ bucket \in Buckets \cup {last + 1}
    /\ batch = [id \in Ids |-> batch[id]]
    /\ faults \in 0..MaxFaults

(* What the counter of a complete hour started from, when the samples of   *)
(* the hour had begun before the first query.                              *)
Before(id, b) ==
    LET first == Min(AllIn(id, b)) IN IF first = 1 THEN 0 ELSE history[id][first - 1].rx

PreviousInv ==
    /\ prevMap \in [Ids -> 0..MaxMoved] /\ seen \subseteq Ids
    /\ stage = "rows" => \A id \in Ids :
        /\ id \in seen => AllIn(id, bucket) # {}
        /\ id \in seen /\ Complete(id, bucket) => prevMap[id] = Before(id, bucket)
        /\ id \notin seen => prevMap[id] = 0

ExactInv == MovedInv /\ RowsExact /\ PreviousInv /\ PlaceInv

-------------------------------------------------------------------------------
(* The samples of an hour. *)

(* The samples of an hour follow one another. *)
LEMMA HourIsInterval ==
  ASSUME StoreInv, NEW id \in Ids, NEW b, AllIn(id, b) # {}
  PROVE  LET first == Min(AllIn(id, b)) IN
         /\ first \in AllIn(id, b) /\ first \in Nat \ {0}
         /\ \A i \in AllIn(id, b) : first <= i
         /\ \E final \in AllIn(id, b) :
                final \in Nat /\ first <= final /\ AllIn(id, b) = first..final
  <1> DEFINE A == AllIn(id, b)  first == Min(A)  final == Max(A)
  <1>1. history[id] \in Seq(Sample) /\ Len(history[id]) \in Nat
        /\ DOMAIN history[id] = 1..Len(history[id])
    BY DEF StoreInv
  <1>2. A \in SUBSET Nat /\ A # {} /\ (\A x \in A : x <= Len(history[id]) /\ x >= 1)
    BY <1>1 DEF AllIn
  <1>3. first \in A /\ \A x \in A : first <= x
    BY <1>2, LeastExists
  <1>4. final \in A /\ \A x \in A : final >= x
    BY <1>1, <1>2, GreatestExists
  <1>5. ASSUME NEW i \in first..final PROVE i \in A
    <2>1. i \in DOMAIN history[id] /\ i \in Nat /\ first \in DOMAIN history[id]
          /\ final \in DOMAIN history[id] /\ first <= i /\ i <= final
          /\ first \in Nat /\ final \in Nat
      BY <1>1, <1>2, <1>3, <1>4
    <2> DEFINE t(j) == history[id][j].at
    <2>2. ASSUME NEW j \in DOMAIN history[id] PROVE t(j) \in Nat
      <3>1. history[id][j] \in Sample
        BY <1>1
      <3> QED  BY <3>1 DEF Sample
    <2>3. (first < i => t(first) < t(i)) /\ (i < final => t(i) < t(final))
      BY <2>1 DEF StoreInv
    <2>4. t(first) <= t(i) /\ t(i) <= t(final)
      BY <2>1, <2>2, <2>3
    <2>5. BucketOf(t(first)) <= BucketOf(t(i)) /\ BucketOf(t(i)) <= BucketOf(t(final))
          /\ BucketOf(t(i)) \in Nat /\ BucketOf(t(first)) \in Nat
      BY <2>1, <2>2, <2>4, HoursAreOrdered
    <2>6. BucketOf(t(first)) = b /\ BucketOf(t(final)) = b
      BY <1>3, <1>4 DEF AllIn
    <2>7. BucketOf(t(i)) = b
      BY <2>5, <2>6
    <2> QED  BY <2>1, <2>7 DEF AllIn
  <1>6. A = first..final
    <2>1. ASSUME NEW i \in A PROVE i \in first..final
      BY <1>2, <1>3, <1>4
    <2> QED  BY <1>5, <2>1
  <1>7. first \in Nat \ {0} /\ final \in Nat /\ first <= final
    BY <1>2, <1>3, <1>4
  <1> HIDE DEF A, final
  <1> QED  BY <1>3, <1>4, <1>6, <1>7 DEF A

(* When no sample of the hour has been deleted, metrics_raw has all of     *)
(* them.                                                                   *)
LEMMA UncutIsRaw ==
  ASSUME StoreInv, NEW id \in Ids, NEW b, AllIn(id, b) # {}, dropped[id] < Min(AllIn(id, b))
  PROVE  RawIn(id, b) = AllIn(id, b)
  <1> DEFINE first == Min(AllIn(id, b))
  <1>1. /\ first \in Nat \ {0} /\ \A i \in AllIn(id, b) : first <= i
    BY HourIsInterval
  <1>2. dropped[id] \in Nat /\ dropped[id] + 1 <= first
    BY <1>1 DEF StoreInv
  <1>3. DOMAIN history[id] = 1..Len(history[id]) /\ Len(history[id]) \in Nat
    BY DEF StoreInv
  <1> HIDE DEF first
  <1>4. ASSUME NEW i PROVE i \in RawIn(id, b) => i \in AllIn(id, b)
    BY <1>2, <1>3 DEF RawIn, AllIn, Raw
  <1>5. ASSUME NEW i \in AllIn(id, b) PROVE i \in RawIn(id, b)
    <2>1. i \in DOMAIN history[id] /\ BucketOf(history[id][i].at) = b /\ first <= i
      BY <1>1 DEF AllIn
    <2>2. i \in Raw(id)
      BY <1>1, <1>2, <1>3, <2>1 DEF Raw
    <2> QED  BY <2>1, <2>2 DEF RawIn
  <1> QED  BY <1>4, <1>5

(* Later samples are in later hours. *)
LEMMA HoursFollow ==
  ASSUME StoreInv, NEW id \in Ids, NEW i \in DOMAIN history[id], NEW j \in DOMAIN history[id],
         i <= j
  PROVE  BucketOf(history[id][i].at) <= BucketOf(history[id][j].at)
  <1>1. history[id][i].at \in Nat /\ history[id][j].at \in Nat /\ i \in Nat /\ j \in Nat
    <2>1. history[id] \in Seq(Sample) /\ i \in Nat /\ j \in Nat
      BY DEF StoreInv
    <2>2. history[id][i] \in Sample /\ history[id][j] \in Sample
      BY <2>1
    <2>3. \A s \in Sample : s.at \in Nat
      BY ConstantsAssumption DEF Sample
    <2> QED  BY <2>1, <2>2, <2>3
  <1>2. history[id][i].at <= history[id][j].at
    <2>1. i < j => history[id][i].at < history[id][j].at
      BY DEF StoreInv
    <2> QED  BY <1>1, <2>1
  <1> QED  BY <1>1, <1>2, HoursAreOrdered

(* Counters and bytes are bounded as the traffic is. *)
LEMMA CountersAreBounded ==
  ASSUME StoreInv, MovedInv, NEW id \in Ids, NEW i \in DOMAIN history[id]
  PROVE  history[id][i].rx \in 0..MaxMoved
  <1> DEFINE s == history[id][i]
  <1>1. s \in Sample
    BY DEF StoreInv
  <1>2. s.rx <= s.moved /\ s.moved <= moved[id] /\ moved[id] <= MaxMoved /\ moved[id] \in Nat
    BY DEF MovedInv, Between, Present, StoreInv
  <1> HIDE DEF s
  <1>3. s.rx \in 0..MaxMoved
    BY <1>1, <1>2, ConstantsAssumption DEF Sample
  <1> QED  BY <1>3 DEF s

(* The first query returns a counter of the container. *)
LEMMA LastIsCounter ==
  ASSUME StoreInv, MovedInv, NEW id \in Ids, NEW b
  PROVE  LastBefore(id, b) \in 0..MaxMoved
  <1> DEFINE older == {i \in Raw(id) : BucketOf(history[id][i].at) < b}
  <1>1. 0 \in 0..MaxMoved
    BY ConstantsAssumption
  <1>2. CASE older # {}
    <2>1. older \in SUBSET Nat /\ Len(history[id]) \in Nat /\ \A i \in older : i <= Len(history[id])
      BY DEF StoreInv, Raw
    <2>2. Max(older) \in older
      BY <1>2, <2>1, GreatestExists
    <2>3. Max(older) \in DOMAIN history[id]
      BY <2>2, RawIsHistory
    <2> QED  BY <1>1, <2>3, CountersAreBounded DEF LastBefore
  <1>3. CASE older = {}
    BY <1>1, <1>3 DEF LastBefore
  <1> QED  BY <1>2, <1>3

(* Of a complete hour, it is the one before the hour. *)
LEMMA LastIsBefore ==
  ASSUME StoreInv, NEW id \in Ids, NEW b, RawIn(id, b) # {}, Complete(id, b)
  PROVE  LastBefore(id, b) = Before(id, b)
  <1> DEFINE first == Min(AllIn(id, b))
             older == {i \in Raw(id) : BucketOf(history[id][i].at) < b}
  <1>1. AllIn(id, b) # {}
    BY RawIsHistory DEF RawIn, AllIn
  <1>2. first \in AllIn(id, b) /\ first \in Nat \ {0} /\ \A i \in AllIn(id, b) : first <= i
    BY <1>1, HourIsInterval
  <1>3. /\ DOMAIN history[id] = 1..Len(history[id]) /\ Len(history[id]) \in Nat
        /\ dropped[id] \in Nat /\ (dropped[id] < first - 1 \/ dropped[id] = 0)
    BY DEF StoreInv, Complete
  <1>4. first \in DOMAIN history[id] /\ BucketOf(history[id][first].at) = b
    BY <1>2 DEF AllIn
  <1> HIDE DEF first
  <1>5. ASSUME NEW i \in older PROVE i \in Nat /\ i < first /\ i # 0
    <2>1. i \in DOMAIN history[id] /\ i \in Nat /\ BucketOf(history[id][i].at) < b
      BY RawIsHistory
    <2>2. ASSUME first <= i PROVE FALSE
      <3>1. BucketOf(history[id][first].at) <= BucketOf(history[id][i].at)
        BY <1>4, <2>1, <2>2, HoursFollow
      <3>2. history[id][first].at \in Nat /\ history[id][i].at \in Nat
        <4>1. history[id] \in Seq(Sample)
          BY DEF StoreInv
        <4>2. history[id][first] \in Sample /\ history[id][i] \in Sample
          BY <1>4, <2>1, <4>1
        <4> QED  BY <4>2 DEF Sample
      <3>3. b \in Nat /\ BucketOf(history[id][i].at) \in Nat
        BY <1>4, <3>2, HoursAreOrdered
      <3> QED  BY <1>4, <2>1, <3>1, <3>3
    <2> QED  BY <1>2, <1>3, <2>1, <2>2
  <1>6. CASE first = 1
    <2>1. older = {}
      <3> SUFFICES ASSUME NEW i \in older PROVE FALSE
        OBVIOUS
      <3> QED  BY <1>5, <1>6
    <2> QED  BY <1>6, <2>1 DEF LastBefore, Before, first
  <1>7. CASE first # 1
    <2>1. first - 1 \in Raw(id) /\ first - 1 \in DOMAIN history[id]
      BY <1>2, <1>3, <1>4, <1>7 DEF Raw
    <2>2. BucketOf(history[id][first - 1].at) < b
      <3>1. BucketOf(history[id][first - 1].at) <= b
        BY <1>2, <1>4, <2>1, HoursFollow
      <3>2. BucketOf(history[id][first - 1].at) # b
        <4>1. first - 1 \notin AllIn(id, b)
          BY <1>2
        <4> QED  BY <2>1, <4>1 DEF AllIn
      <3>3. history[id][first - 1].at \in Nat /\ history[id][first].at \in Nat
        <4>1. history[id] \in Seq(Sample)
          BY DEF StoreInv
        <4>2. history[id][first] \in Sample /\ history[id][first - 1] \in Sample
          BY <1>4, <2>1, <4>1
        <4> QED  BY <4>2 DEF Sample
      <3>4. b \in Nat /\ BucketOf(history[id][first - 1].at) \in Nat
        BY <1>4, <3>3, HoursAreOrdered
      <3> QED  BY <3>1, <3>2, <3>4
    <2>3. first - 1 \in older
      BY <2>1, <2>2
    <2>4. older \in SUBSET Nat /\ \A i \in older : i <= first - 1
      BY <1>2, <1>5
    <2>5. Max(older) \in older /\ \A i \in older : Max(older) >= i
      BY <1>2, <2>3, <2>4, GreatestExists
    <2>6. Max(older) = first - 1
      <3> HIDE DEF older
      <3>1. Max(older) \in Nat /\ Max(older) <= first - 1 /\ Max(older) >= first - 1
        BY <2>3, <2>4, <2>5
      <3> QED  BY <1>2, <3>1
    <2> QED  BY <1>7, <2>3, <2>6 DEF LastBefore, Before, first
  <1> QED  BY <1>6, <1>7

(* A sample after another one of the hour counts no more than has moved    *)
(* since that one.                                                         *)
LEMMA IncrementIsMoved ==
  ASSUME StoreInv, MovedInv, NEW id \in Ids, NEW b, NEW i \in RawIn(id, b),
         i - 1 \in RawIn(id, b)
  PROVE  /\ Increment(id, b, i) \in Nat
         /\ Increment(id, b, i) <= TrueMoved(id, i, i)
         /\ resets = 0 => Increment(id, b, i) = TrueMoved(id, i, i)
  <1> DEFINE s == history[id][i]  p == history[id][i - 1]
  <1>1. i \in DOMAIN history[id] /\ s \in Sample /\ i - 1 \in DOMAIN history[id] /\ p \in Sample
        /\ i - 1 \in Nat /\ i \in Nat
    BY RawIsHistory DEF StoreInv, RawIn
  <1>2. /\ s.rx \in Nat /\ s.moved \in Nat /\ s.rx <= s.moved /\ (resets = 0 => s.rx = s.moved)
        /\ p.rx \in Nat /\ p.moved \in Nat /\ (resets = 0 => p.rx = p.moved)
    BY <1>1 DEF Sample, MovedInv
  <1>3. Between(p, s)
    <2>1. i - 1 < i
      BY <1>1
    <2> QED  BY <1>1, <2>1 DEF MovedInv
  <1>4. TrueMoved(id, i, i) = s.moved - p.moved
    <2>1. i # 1
      <3>1. 0 \notin DOMAIN history[id]
        BY DEF StoreInv
      <3> QED  BY <1>1, <3>1
    <2> QED  BY <2>1 DEF TrueMoved
  <1>5. Increment(id, b, i) = IF s.rx >= p.rx THEN s.rx - p.rx ELSE s.rx
    BY DEF Increment, Previous
  <1> HIDE DEF s, p
  <1> QED  BY <1>2, <1>3, <1>4, <1>5 DEF Between

(* The first one of the hour counts no more than has moved since the       *)
(* sample before it, if the first query has found that, or if there is     *)
(* none; all that has ever moved, if it has not.                           *)
LEMMA FirstIsMoved ==
  ASSUME StoreInv, MovedInv, PreviousInv, stage = "rows", NEW id \in Ids,
         NEW i \in RawIn(id, bucket), i - 1 \notin RawIn(id, bucket),
         i = Min(AllIn(id, bucket)), id \in seen => Complete(id, bucket)
  PROVE  LET claim == TrueMoved(id, IF id \in seen THEN i ELSE 1, i)
         IN  /\ Increment(id, bucket, i) \in Nat
             /\ Increment(id, bucket, i) <= claim
             /\ resets = 0 => Increment(id, bucket, i) = claim
  <1> DEFINE s == history[id][i]  p == history[id][i - 1]  m == prevMap[id]
  <1>1. i \in DOMAIN history[id] /\ s \in Sample /\ i \in Nat /\ i # 0
    BY RawIsHistory DEF StoreInv, RawIn
  <1>2. s.rx \in Nat /\ s.moved \in Nat /\ s.rx <= s.moved /\ (resets = 0 => s.rx = s.moved)
    BY <1>1 DEF Sample, MovedInv
  <1>3. Increment(id, bucket, i) = IF s.rx >= m THEN s.rx - m ELSE s.rx
    BY DEF Increment, Previous
  <1>4. CASE id \notin seen \/ i = 1
    <2>1. m = 0
      BY <1>4 DEF PreviousInv, Before
    <2>2. TrueMoved(id, IF id \in seen THEN i ELSE 1, i) = s.moved
      BY <1>2, <1>4 DEF TrueMoved
    <2> HIDE DEF s, m
    <2> QED  BY <1>2, <1>3, <2>1, <2>2
  <1>5. CASE id \in seen /\ i # 1
    <2>1. m = p.rx
      BY <1>5 DEF PreviousInv, Before
    <2>2. i - 1 \in DOMAIN history[id] /\ p \in Sample /\ i - 1 < i
      <3>1. DOMAIN history[id] = 1..Len(history[id]) /\ Len(history[id]) \in Nat
        BY DEF StoreInv
      <3>2. i - 1 \in DOMAIN history[id] /\ i - 1 < i
        BY <1>1, <1>5, <3>1
      <3> QED  BY <3>2 DEF StoreInv
    <2>3. /\ p.rx \in Nat /\ p.moved \in Nat /\ (resets = 0 => p.rx = p.moved)
          /\ Between(p, s)
      BY <1>1, <2>2 DEF Sample, MovedInv
    <2>4. TrueMoved(id, IF id \in seen THEN i ELSE 1, i) = s.moved - p.moved
      BY <1>5 DEF TrueMoved
    <2>5. Increment(id, bucket, i) = IF s.rx >= p.rx THEN s.rx - p.rx ELSE s.rx
      BY <1>3, <2>1
    <2> DEFINE x == Increment(id, bucket, i)
               y == TrueMoved(id, IF id \in seen THEN i ELSE 1, i)
    <2> HIDE DEF s, p, m, x, y
    <2>6. x \in Nat /\ x <= y /\ (resets = 0 => x = y)
      BY <1>2, <2>3, <2>4, <2>5 DEF Between, x, y
    <2> QED  BY <2>6 DEF x, y
  <1> QED  BY <1>4, <1>5

(* Whatever it is, it is a number. *)
LEMMA IncrementIsNumber ==
  ASSUME StoreInv, PreviousInv, NEW id \in Ids, NEW b, NEW i \in RawIn(id, b)
  PROVE  Increment(id, b, i) \in Nat
  <1>1. history[id][i] \in Sample
    BY RawIsHistory DEF StoreInv, RawIn
  <1>2. ASSUME i - 1 \in RawIn(id, b) PROVE history[id][i - 1] \in Sample
    BY <1>2, RawIsHistory DEF StoreInv, RawIn
  <1>3. prevMap[id] \in Nat
    BY ConstantsAssumption DEF PreviousInv
  <1> QED  BY <1>1, <1>2, <1>3 DEF Increment, Previous, Sample

LEMMA AggregateIsRow ==
  ASSUME StoreInv, PreviousInv, NEW id \in Ids, NEW b
  PROVE  Aggregate(id, b) \in Row
  <1> DEFINE R == RawIn(id, b)  f == [i \in R |-> Increment(id, b, i)]
  <1>1. IsFiniteSet(R) /\ Cardinality(R) \in Nat
    BY OldAreCounted
  <1>2. \A i \in R : f[i] \in Nat
    BY IncrementIsNumber
  <1>3. SumFunction(f) = SumFunctionOnSet(f, R)
    BY DEF SumFunction, SumFunctionOnSet
  <1> HIDE DEF f, R
  <1>4. SumFunctionOnSet(f, R) \in Nat
    BY <1>1, <1>2, SumNat
  <1> QED  BY <1>1, <1>3, <1>4 DEF Aggregate, Row, R, f

(* What the aggregator makes of the hour it is at is exact.                *)
LEMMA AggregateIsExact ==
  ASSUME StoreInv, MovedInv, PreviousInv, stage = "rows", NEW id \in Ids, RawIn(id, bucket) # {}
  PROVE  RowExact(id, bucket, Aggregate(id, bucket))
  <1> DEFINE first == Min(AllIn(id, bucket))  torn == id \notin seen
  <1>1. AllIn(id, bucket) # {} /\ Aggregate(id, bucket).torn = torn
    BY RawIsHistory DEF RawIn, AllIn, Aggregate
  <1>2. SUFFICES ASSUME Told(id, bucket, Aggregate(id, bucket))
        PROVE  LET row == Aggregate(id, bucket)
                   last0 == first + row.count - 1
                   claim == TrueMoved(id, IF torn THEN 1 ELSE first, last0)
               IN  /\ last0 \in AllIn(id, bucket)
                   /\ row.delta <= claim
                   /\ resets = 0 => row.delta = claim
    BY <1>1 DEF RowExact
  <1>3. PICK final \in AllIn(id, bucket) :
            final \in Nat /\ first <= final /\ AllIn(id, bucket) = first..final
    BY <1>1, HourIsInterval
  <1>4. first \in AllIn(id, bucket) /\ first \in Nat \ {0}
    BY <1>1, HourIsInterval
  <1>5. dropped[id] \in Nat /\ dropped[id] < first /\ (id \in seen => Complete(id, bucket))
    <2>1. dropped[id] \in Nat
      BY DEF StoreInv
    <2>2. Complete(id, bucket) => dropped[id] < first - 1 \/ dropped[id] = 0
      BY DEF Complete
    <2>3. Complete(id, bucket) \/ (torn /\ dropped[id] < first)
      BY <1>1, <1>2 DEF Told
    <2> HIDE DEF first
    <2> QED  BY <1>4, <2>1, <2>2, <2>3
  <1>6. RawIn(id, bucket) = first..final
    BY <1>1, <1>3, <1>5, UncutIsRaw
  <1>7. Len(history[id]) \in Nat /\ final <= Len(history[id]) /\ DOMAIN history[id] = 1..Len(history[id])
    BY <1>3 DEF StoreInv, AllIn
  <1> DEFINE base == IF torn \/ first = 1 THEN 0 ELSE history[id][first - 1].moved
             f == [i \in first..final |-> Increment(id, bucket, i)]
             g == [i \in first - 1..final |-> IF i = first - 1 THEN base ELSE history[id][i].moved]
             h == [i \in first..final |-> g[i] - g[i - 1]]
  <1>8. /\ TrueMoved(id, IF torn THEN 1 ELSE first, final) = history[id][final].moved - base
        /\ TrueMoved(id, IF torn THEN 1 ELSE first, first) = history[id][first].moved - base
    BY DEF TrueMoved
  <1>9. base \in Nat
    <2> SUFFICES ASSUME first # 1 PROVE history[id][first - 1].moved \in Nat
      OBVIOUS
    <2> HIDE DEF first
    <2>1. first - 1 \in DOMAIN history[id]
      BY <1>3, <1>4, <1>7
    <2>2. history[id][first - 1] \in Sample
      BY <2>1 DEF StoreInv
    <2> QED  BY <2>2 DEF Sample
  <1> HIDE DEF first, base
  <1>10. \A i \in first - 1..final : g[i] \in Nat
    <2>1. ASSUME NEW i \in first..final PROVE history[id][i].moved \in Nat
      <3>1. i \in DOMAIN history[id]
        BY <1>3, <1>4, <1>7
      <3>2. history[id][i] \in Sample
        BY <3>1 DEF StoreInv
      <3> QED  BY <3>2 DEF Sample
    <2> QED  BY <1>3, <1>4, <1>9, <2>1
  <1>11. ASSUME NEW i \in first..final
         PROVE  f[i] \in Int /\ h[i] \in Int /\ f[i] <= h[i] /\ (resets = 0 => f[i] = h[i])
    <2>1. /\ Increment(id, bucket, i) \in Nat /\ Increment(id, bucket, i) <= g[i] - g[i - 1]
          /\ resets = 0 => Increment(id, bucket, i) = g[i] - g[i - 1]
      <3>1. i \in RawIn(id, bucket) /\ i \in Nat /\ i - 1 \in first - 1..final
        BY <1>3, <1>4, <1>6
      <3>2. g[i] = history[id][i].moved
        BY <1>3, <1>4, <3>1
      <3>3. CASE i > first
        <4>1. i - 1 \in RawIn(id, bucket) /\ i - 1 # first - 1 /\ i # 1
          BY <1>3, <1>4, <1>6, <3>1, <3>3
        <4>2. g[i - 1] = history[id][i - 1].moved
          BY <3>1, <4>1
        <4>3. TrueMoved(id, i, i) = g[i] - g[i - 1]
          BY <3>2, <4>1, <4>2 DEF TrueMoved
        <4> HIDE DEF g
        <4> QED  BY <3>1, <4>1, <4>3, IncrementIsMoved
      <3>4. CASE i = first
        <4>1. i - 1 \notin RawIn(id, bucket)
          BY <1>3, <1>4, <1>6, <3>4
        <4>2. g[i - 1] = base
          BY <3>1, <3>4
        <4>3. TrueMoved(id, IF id \in seen THEN i ELSE 1, i) = g[i] - g[i - 1]
          BY <1>8, <3>2, <3>4, <4>2
        <4> HIDE DEF g
        <4> QED  BY <1>5, <3>1, <3>4, <4>1, <4>3, FirstIsMoved DEF first
      <3> QED  BY <1>3, <1>4, <3>1, <3>3, <3>4
    <2>2. g[i] \in Nat /\ g[i - 1] \in Nat
      <3>1. i \in first - 1..final /\ i - 1 \in first - 1..final
        BY <1>3, <1>4
      <3> HIDE DEF g
      <3> QED  BY <1>10, <3>1
    <2>3. f[i] = Increment(id, bucket, i) /\ h[i] = g[i] - g[i - 1]
      OBVIOUS
    <2> HIDE DEF f, g, h
    <2> QED  BY <2>1, <2>2, <2>3
  <1>12. AreSteps(h, g, first, final)
    <2>1. first \in Int /\ final \in Int /\ first <= final + 1
      BY <1>3, <1>4
    <2> HIDE DEF g
    <2> QED  BY <1>10, <2>1 DEF AreSteps
  <1>13. SumFunctionOnSet(h, first..final) = g[final] - g[first - 1]
    <2> HIDE DEF h, g
    <2> QED  BY <1>12, SumTelescopes
  <1> DEFINE n == final - first + 1
  <1>14. IsFiniteSet(first..final) /\ Cardinality(first..final) = n
    BY <1>3, <1>4, FS_Interval
  <1>15. SumFunctionOnSet(f, first..final) <= g[final] - g[first - 1]
         /\ (resets = 0 => SumFunctionOnSet(f, first..final) = g[final] - g[first - 1])
    <2> HIDE DEF f, g, h, n
    <2>1. SumFunctionOnSet(f, first..final) <= SumFunctionOnSet(h, first..final)
      BY <1>11, <1>14, SumMonotone
    <2>2. ASSUME resets = 0
          PROVE  SumFunctionOnSet(f, first..final) = SumFunctionOnSet(h, first..final)
      BY <1>11, <1>14, <2>2, SumSame
    <2> QED  BY <1>13, <2>1, <2>2
  <1>16. g[final] - g[first - 1] = TrueMoved(id, IF torn THEN 1 ELSE first, final)
    <2>1. g[final] = history[id][final].moved /\ g[first - 1] = base
      BY <1>3, <1>4
    <2> QED  BY <1>8, <2>1
  <1>17. /\ Aggregate(id, bucket).count = n
         /\ Aggregate(id, bucket).delta = SumFunctionOnSet(f, first..final)
    <2>1. SumFunction(f) = SumFunctionOnSet(f, first..final)
      BY DEF SumFunction, SumFunctionOnSet
    <2> HIDE DEF n
    <2> QED  BY <1>6, <1>14, <2>1 DEF Aggregate
  <1>18. first + n - 1 = final
    BY <1>3, <1>4
  <1> HIDE DEF f, g, n
  <1> QED  BY <1>3, <1>15, <1>16, <1>17, <1>18 DEF first

(* The first sample of an hour stays so while samples are inserted.        *)
LEMMA FirstStays ==
  ASSUME StoreInv, StoreInv', NEW id \in Ids, NEW b, AllIn(id, b) # {},
         Len(history[id]) <= Len(history'[id]),
         \A i \in DOMAIN history[id] : history'[id][i] = history[id][i]
  PROVE  /\ Min(AllIn(id, b)') = Min(AllIn(id, b))
         /\ AllIn(id, b)' # {}
         /\ \A i \in AllIn(id, b) : i \in AllIn(id, b)'
  <1>1. /\ Len(history[id]) \in Nat /\ Len(history'[id]) \in Nat
        /\ DOMAIN history[id] = 1..Len(history[id])
        /\ DOMAIN history'[id] = 1..Len(history'[id])
    BY DEF StoreInv
  <1>2. PICK A, B : A = AllIn(id, b) /\ B = AllIn(id, b)'
    OBVIOUS
  <1>3. \A i : i \in B <=> i \in DOMAIN history'[id] /\ BucketOf(history'[id][i].at) = b
    BY <1>2 DEF AllIn, BucketOf
  <1>4. \A i : i \in A <=> i \in DOMAIN history[id] /\ BucketOf(history[id][i].at) = b
    BY <1>2 DEF AllIn
  <1>5. ASSUME NEW i \in A PROVE i \in B
    BY <1>1, <1>3, <1>4
  <1>6. ASSUME NEW i \in B, i \notin A PROVE i > Len(history[id])
    BY <1>1, <1>3, <1>4, <1>6
  <1>7. PICK first \in A : first = Min(A) /\ first \in Nat \ {0} /\ \A i \in A : first <= i
    BY <1>2, HourIsInterval
  <1>8. Min(B) = first /\ B # {}
    <2>1. first \in B /\ B \in SUBSET Nat /\ B # {}
      BY <1>1, <1>3, <1>5
    <2>2. Min(B) \in B /\ \A i \in B : Min(B) <= i
      BY <2>1, LeastExists
    <2>3. first <= Len(history[id])
      BY <1>1, <1>4
    <2>4. first <= Min(B)
      <3>1. CASE Min(B) \in A
        BY <1>7, <3>1
      <3>2. CASE Min(B) \notin A
        <4>1. Min(B) > Len(history[id]) /\ Min(B) \in Nat
          BY <1>6, <2>1, <2>2, <3>2
        <4> QED  BY <1>1, <1>7, <2>3, <4>1
      <3> QED  BY <3>1, <3>2
    <2>5. Min(B) \in Nat /\ first \in Nat
      BY <1>7, <2>1, <2>2
    <2> QED  BY <2>1, <2>2, <2>4, <2>5
  <1> QED  BY <1>2, <1>5, <1>7, <1>8

(* A row stays exact while samples are inserted, samples are deleted and   *)
(* counters reset.                                                         *)
LEMMA RowStaysExact ==
  ASSUME StoreInv, StoreInv', NEW id \in Ids, NEW b, NEW row, row.count \in Nat,
         RowExact(id, b, row),
         Len(history[id]) <= Len(history'[id]),
         \A i \in DOMAIN history[id] : history'[id][i] = history[id][i],
         dropped[id] <= dropped'[id], resets' = 0 => resets = 0
  PROVE  RowExact(id, b, row)'
  <1>1. /\ Len(history[id]) \in Nat /\ DOMAIN history[id] = 1..Len(history[id])
        /\ dropped[id] \in Nat /\ dropped'[id] \in Nat
    BY DEF StoreInv
  <1>2. PICK A, B : A = AllIn(id, b) /\ B = AllIn(id, b)'
    OBVIOUS
  <1>3. A # {}
    BY <1>2 DEF RowExact
  <1>4. PICK first \in A : first = Min(A) /\ first \in Nat \ {0}
    BY <1>2, <1>3, HourIsInterval
  <1>5. Min(B) = first /\ B # {} /\ \A i \in A : i \in B
    BY <1>2, <1>3, <1>4, FirstStays
  <1>6. A \subseteq DOMAIN history[id]
    BY <1>2 DEF AllIn
  <1>7. Told(id, b, row)' => Told(id, b, row)
    <2>1. Complete(id, b)' => Complete(id, b)
      <3>1. Complete(id, b)' <=> dropped'[id] < first - 1 \/ dropped'[id] = 0
        BY <1>2, <1>5 DEF Complete
      <3>2. Complete(id, b) <=> dropped[id] < first - 1 \/ dropped[id] = 0
        BY <1>2, <1>4 DEF Complete
      <3> QED  BY <1>1, <1>4, <3>1, <3>2
    <2>2. dropped'[id] < first => dropped[id] < first
      BY <1>1, <1>4
    <2>3. Told(id, b, row) <=> Complete(id, b) \/ (row.torn /\ dropped[id] < first)
      BY <1>2, <1>4, Zenon DEF Told
    <2>4. Told(id, b, row)' <=> Complete(id, b)' \/ (row.torn /\ dropped'[id] < first)
      BY <1>2, <1>5, Zenon DEF Told
    <2> QED  BY <2>1, <2>2, <2>3, <2>4, Zenon
  <1> DEFINE final == first + row.count - 1
             from == IF row.torn THEN 1 ELSE first
             old == history[id][final].moved - (IF from = 1 THEN 0 ELSE history[id][from - 1].moved)
  <1>8. ASSUME Told(id, b, row)
        PROVE  /\ final \in B
               /\ row.delta <= TrueMoved(id, from, final)'
               /\ resets' = 0 => row.delta = TrueMoved(id, from, final)'
    <2>1. final \in A /\ row.delta <= old /\ (resets = 0 => row.delta = old)
      BY <1>2, <1>4, <1>8 DEF RowExact, TrueMoved
    <2>2. final \in DOMAIN history[id] /\ (from = 1 \/ from - 1 \in DOMAIN history[id])
      <3>1. final \in DOMAIN history[id] /\ first \in DOMAIN history[id]
        BY <1>6, <2>1
      <3> HIDE DEF final
      <3> QED  BY <1>1, <1>4, <3>1
    <2> HIDE DEF from, final
    <2>3. history'[id][final] = history[id][final]
          /\ (from = 1 \/ history'[id][from - 1] = history[id][from - 1])
      BY <2>2
    <2>4. TrueMoved(id, from, final)' = old
      BY <2>3 DEF TrueMoved, from, final
    <2> HIDE DEF old
    <2> QED  BY <1>5, <2>1, <2>4
  <1> HIDE DEF final, from
  <1>9. Told(id, b, row)' =>
            /\ final \in B
            /\ row.delta <= TrueMoved(id, from, final)'
            /\ resets' = 0 => row.delta = TrueMoved(id, from, final)'
    BY <1>7, <1>8
  <1> QED  BY <1>2, <1>5, <1>9 DEF RowExact, final, from

(* What the first query has found stays so while samples are inserted.     *)
LEMMA PreviousStays ==
  ASSUME StoreInv, StoreInv', PreviousInv, UNCHANGED <<readVars, dropped, bucket>>,
         stage' = "rows" => stage = "rows",
         \A id \in Ids :
            /\ Len(history[id]) <= Len(history'[id])
            /\ \A i \in DOMAIN history[id] : history'[id][i] = history[id][i]
  PROVE  PreviousInv'
  <1>1. prevMap' = prevMap /\ seen' = seen /\ bucket' = bucket /\ dropped' = dropped
    BY DEF readVars
  <1>2. prevMap \in [Ids -> 0..MaxMoved] /\ seen \subseteq Ids
    BY DEF PreviousInv
  <1>3. ASSUME stage' = "rows", NEW id \in Ids
        PROVE  /\ id \notin seen => prevMap[id] = 0
               /\ id \in seen =>
                    /\ AllIn(id, bucket)' # {}
                    /\ Complete(id, bucket)' => prevMap[id] = Before(id, bucket)'
    <2>1. CASE id \notin seen
      BY <1>3, <2>1 DEF PreviousInv
    <2>2. CASE id \in seen
      <3>1. /\ AllIn(id, bucket) # {}
            /\ Complete(id, bucket) => prevMap[id] = Before(id, bucket)
        BY <1>3, <2>2 DEF PreviousInv
      <3>2. PICK first : /\ first = Min(AllIn(id, bucket)) /\ first \in AllIn(id, bucket)
                         /\ first \in Nat \ {0}
        BY <3>1, HourIsInterval
      <3>3. PICK b : b = bucket
        OBVIOUS
      <3>4. Min(AllIn(id, b)') = first /\ AllIn(id, b)' # {}
        BY <3>1, <3>2, <3>3, FirstStays
      <3>5. AllIn(id, bucket)' = AllIn(id, b)'
        BY <1>1, <3>3 DEF AllIn
      <3>6. Min(AllIn(id, bucket))' = first /\ AllIn(id, bucket)' # {}
        BY <3>4, <3>5
      <3>7. Complete(id, bucket)' <=> Complete(id, bucket)
        BY <1>1, <3>2, <3>6 DEF Complete
      <3>8. Before(id, bucket)' = Before(id, bucket)
        <4>1. first = 1 \/ first - 1 \in DOMAIN history[id]
          <5>1. first \in DOMAIN history[id]
            BY <3>2 DEF AllIn
          <5> QED  BY <3>2, <5>1 DEF StoreInv
        <4>2. first = 1 \/ history'[id][first - 1] = history[id][first - 1]
          BY <4>1
        <4> QED  BY <3>2, <3>6, <4>2 DEF Before
      <3> QED  BY <2>2, <3>1, <3>6, <3>7, <3>8
    <2> QED  BY <2>1, <2>2
  <1> QED  BY <1>1, <1>2, <1>3 DEF PreviousInv

(* It is forgotten after the second. *)
LEMMA PreviousRests ==
  ASSUME PreviousInv, UNCHANGED readVars \/ NothingRead, stage' # "rows"
  PROVE  PreviousInv'
  <1>1. CASE UNCHANGED readVars
    BY <1>1 DEF PreviousInv, readVars
  <1>2. CASE NothingRead
    BY <1>2, ConstantsAssumption DEF PreviousInv, NothingRead
  <1> QED  BY <1>1, <1>2

-------------------------------------------------------------------------------
(* The steps. *)

LEMMA ZeroHour == 0 \in Buckets
  <1>1. 0 \in 0..MaxTime
    BY ConstantsAssumption
  <1>2. BucketOf(0) \in Buckets
    BY <1>1, HourExists
  <1>3. 0 \div HourLen = 0
    BY ConstantsAssumption, SMTT(30)
  <1> QED  BY <1>2, <1>3 DEF BucketOf

LEMMA InitExactInv == Init => ExactInv
  <1> SUFFICES ASSUME Init PROVE ExactInv
    OBVIOUS
  <1>1. MovedInv
    <2>1. ASSUME NEW id \in Ids
          PROVE  /\ counter[id] = moved[id] /\ moved[id] \in 0..1 /\ history[id] = <<>>
                 /\ dropped[id] = 0
      BY DEF Init
    <2>2. resets \in 0..MaxResets
      BY ConstantsAssumption DEF Init
    <2>3. ASSUME NEW id \in Ids
          PROVE  /\ counter[id] <= moved[id] /\ (resets = 0 => counter[id] = moved[id])
                 /\ DOMAIN history[id] = {} /\ dropped[id] <= Len(history[id])
      BY <2>1
    <2>4. \A id \in Ids : moved[id] <= MaxMoved
      BY <2>1, ConstantsAssumption
    <2> QED  BY <2>2, <2>3, <2>4 DEF MovedInv
  <1>2. RowsExact /\ PreviousInv
    BY ConstantsAssumption DEF Init, RowsExact, PreviousInv, NoRow, Row
  <1>3. PlaceInv
    BY ZeroHour, ConstantsAssumption DEF Init, PlaceInv
  <1> QED  BY <1>1, <1>2, <1>3 DEF ExactInv

(* Rows are written from the batch or deleted, while the batch stays.      *)
LEMMA RowsStay ==
  ASSUME StoreInv, StoreInv', RowsExact,
         \A id \in Ids :
            /\ Len(history[id]) <= Len(history'[id])
            /\ \A i \in DOMAIN history[id] : history'[id][i] = history[id][i]
            /\ dropped[id] <= dropped'[id],
         resets' = 0 => resets = 0,
         \A id \in Ids, b \in Buckets :
            \/ hourly'[id][b] \in {hourly[id][b], NoRow}
            \/ b = bucket /\ stage = "commit" /\ hourly'[id][b] = batch[id],
         \A id \in Ids : batch'[id] \in {batch[id], NoRow},
         stage' = "commit" => stage = "commit" /\ bucket' = bucket
  PROVE  RowsExact'
  <1>1. NoRow \in Row /\ NoRow.count = 0 /\ ~ (NoRow.count > 0)
    BY DEF NoRow, Row
  <1>2. ASSUME NEW id \in Ids, NEW b, NEW row \in Row, RowExact(id, b, row)
        PROVE  RowExact(id, b, row)'
    <2>1. row.count \in Nat
      BY DEF Row
    <2> QED  BY <1>2, <2>1, RowStaysExact
  <1> SUFFICES ASSUME NEW id \in Ids
               PROVE  /\ \A b \in Buckets :
                            /\ hourly'[id][b] \in Row
                            /\ hourly'[id][b].count > 0 => RowExact(id, b, hourly[id][b])'
                      /\ batch'[id] \in Row
                      /\ stage' = "commit" /\ batch'[id].count > 0 =>
                            RowExact(id, bucket, batch[id])'
    BY DEF RowsExact, Buckets, Row
  <1>3. /\ batch[id] \in Row
        /\ stage = "commit" /\ batch[id].count > 0 => RowExact(id, bucket, batch[id])
        /\ \A b \in Buckets : /\ hourly[id][b] \in Row
                              /\ hourly[id][b].count > 0 => RowExact(id, b, hourly[id][b])
    BY DEF RowsExact
  <1>4. ASSUME NEW b \in Buckets, hourly'[id][b].count > 0
        PROVE  RowExact(id, b, hourly[id][b])'
    <2>1. PICK row : row = hourly'[id][b]
      OBVIOUS
    <2>2. row \in Row /\ RowExact(id, b, row)
      BY <1>1, <1>3, <1>4, <2>1
    <2>3. RowExact(id, b, row)'
      BY <1>2, <2>2
    <2> QED  BY <2>1, <2>3 DEF RowExact
  <1>5. ASSUME stage' = "commit", batch'[id].count > 0
        PROVE  RowExact(id, bucket, batch[id])'
    <2>1. PICK row, b : row = batch'[id] /\ b = bucket'
      OBVIOUS
    <2>2. row \in Row /\ RowExact(id, b, row)
      BY <1>1, <1>3, <1>5, <2>1
    <2>3. RowExact(id, b, row)'
      BY <1>2, <2>2
    <2> QED  BY <2>1, <2>3 DEF RowExact, Told, Complete, AllIn
  <1>6. /\ batch'[id] \in Row
        /\ \A b \in Buckets : hourly'[id][b] \in Row
    BY <1>1, <1>3
  <1> QED  BY <1>4, <1>5, <1>6

(* The rows stay, too, when only the surroundings change.                  *)
LEMMA MovedStays ==
  ASSUME MovedInv, UNCHANGED <<counter, moved, resets, history>>,
         \A id \in Ids : dropped'[id] <= Len(history[id])
  PROVE  MovedInv'
  BY DEF MovedInv, Between, Present

(* Containers send and receive, and restart.                               *)
LEMMA CounterStep ==
  ASSUME StoreInv, ExactInv, NEW c \in Ids, Traffic(c) \/ RestartContainer(c)
  PROVE  MovedInv'
  <1>1. /\ UNCHANGED <<history, dropped>> /\ counter \in [Ids -> Nat] /\ moved \in [Ids -> Nat]
        /\ resets \in Nat /\ MovedInv
    BY ConstantsAssumption DEF Traffic, RestartContainer, storeVars, StoreInv, ExactInv, MovedInv
  <1>2. /\ \A id \in Ids \ {c} : counter'[id] = counter[id] /\ moved'[id] = moved[id]
        /\ \/ /\ resets' = resets /\ moved'[c] = moved[c] + 1 /\ counter'[c] = counter[c] + 1
              /\ moved[c] < MaxMoved
           \/ resets' = resets + 1 /\ moved'[c] = moved[c] /\ counter'[c] = 0
              /\ resets < MaxResets
    BY <1>1 DEF Traffic, RestartContainer
  <1>3. resets' \in 0..MaxResets /\ (resets' = 0 => resets = 0)
    BY <1>1, <1>2, ConstantsAssumption DEF MovedInv
  <1>4. ASSUME NEW id \in Ids
        PROVE  /\ counter'[id] <= moved'[id] /\ moved'[id] <= MaxMoved
               /\ resets' = 0 => counter'[id] = moved'[id]
    BY <1>1, <1>2, ConstantsAssumption DEF MovedInv
  <1>5. ASSUME NEW id \in Ids, NEW i \in DOMAIN history[id]
        PROVE  Between(history[id][i], Present(id)')
    <2>1. history[id][i] \in Sample
      BY DEF StoreInv
    <2>2. Between(history[id][i], Present(id))
      BY <1>1 DEF MovedInv
    <2> DEFINE s == history[id][i]
    <2>3. s.rx \in Nat /\ s.moved \in Nat /\ counter[id] \in Nat /\ moved[id] \in Nat
      BY <1>1, <2>1 DEF Sample
    <2> HIDE DEF s
    <2>4. /\ s.moved <= moved[id]
          /\ counter[id] - s.rx = moved[id] - s.moved \/ counter[id] <= moved[id] - s.moved
      BY <2>2 DEF Between, Present, s
    <2>5. /\ s.moved <= moved'[id]
          /\ counter'[id] - s.rx = moved'[id] - s.moved \/ counter'[id] <= moved'[id] - s.moved
      <3>1. CASE id = c
        BY <1>2, <2>3, <2>4, <3>1
      <3>2. CASE id # c
        BY <1>2, <2>4, <3>2
      <3> QED  BY <3>1, <3>2
    <2> QED  BY <2>5 DEF Between, Present, s
  <1>6. ASSUME NEW id \in Ids, NEW i \in DOMAIN history[id]
        PROVE  Between(history[id][i], Present(id))'
    BY <1>1, <1>5 DEF Between, Present
  <1>7. MovedInv'
    <2> SUFFICES ASSUME NEW id \in Ids
                 PROVE  /\ \A i \in DOMAIN history[id] :
                            /\ history[id][i].rx <= history[id][i].moved
                            /\ resets' = 0 => history[id][i].rx = history[id][i].moved
                        /\ \A i, j \in DOMAIN history[id] :
                                i < j => Between(history[id][i], history[id][j])
                        /\ dropped[id] <= Len(history[id])
      BY <1>1, <1>3, <1>4, <1>6 DEF MovedInv, Between
    <2> QED  BY <1>1, <1>3 DEF MovedInv
  <1> QED  BY <1>7

(* A sample says what the counter says. *)
LEMMA SampleStep ==
  ASSUME StoreInv, StoreInv', ExactInv, NEW c \in Ids, InsertRawMetric(c)
  PROVE  /\ MovedInv'
         /\ \A id \in Ids :
            /\ Len(history[id]) <= Len(history'[id])
            /\ \A i \in DOMAIN history[id] : history'[id][i] = history[id][i]
  <1> DEFINE s == [at |-> now, rx |-> counter[c], moved |-> moved[c]]
             n == Len(history[c])
  <1>1. /\ UNCHANGED <<now, counter, moved, resets, dropped>>
        /\ history' = [history EXCEPT ![c] = Append(@, s)]
        /\ history \in [Ids -> Seq(Sample)] /\ MovedInv
        /\ counter \in [Ids -> Nat] /\ moved \in [Ids -> Nat]
    BY DEF InsertRawMetric, envVars, StoreInv, ExactInv
  <1> HIDE DEF s
  <1>2. /\ n \in Nat /\ DOMAIN history[c] = 1..n /\ DOMAIN history'[c] = 1..n + 1
        /\ \A i \in 1..n : history'[c][i] = history[c][i]
        /\ history'[c][n + 1] = s
        /\ Len(history'[c]) = n + 1
        /\ \A id \in Ids \ {c} : history'[id] = history[id]
    <2>1. history[c] \in Seq(Sample)
      BY <1>1
    <2>2. history'[c] = Append(history[c], s)
      BY <1>1
    <2> QED  BY <1>1, <2>1, <2>2
  <1>3. s.rx = counter[c] /\ s.moved = moved[c] /\ counter[c] \in Nat /\ moved[c] \in Nat
    BY <1>1 DEF s
  <1>4. Between(s, Present(c)) /\ \A i \in 1..n : Between(history[c][i], s)
    <2>1. Between(s, Present(c))
      BY <1>3 DEF Between, Present
    <2>2. ASSUME NEW i \in 1..n PROVE Between(history[c][i], s)
      <3>1. Between(history[c][i], Present(c))
        BY <1>1, <1>2 DEF MovedInv
      <3> QED  BY <1>3, <3>1 DEF Between, Present
    <2> QED  BY <2>1, <2>2
  <1>5. \A i \in 1..n + 1 : i \in 1..n \/ i = n + 1
    BY <1>2
  <1>6. \A id \in Ids : Present(id)' = Present(id)
    BY <1>1 DEF Present
  <1>7. ASSUME NEW i \in DOMAIN history'[c]
        PROVE  /\ history'[c][i].rx <= history'[c][i].moved
               /\ resets = 0 => history'[c][i].rx = history'[c][i].moved
               /\ Between(history'[c][i], Present(c))
    <2>1. CASE i = n + 1
      BY <1>1, <1>2, <1>3, <1>4, <2>1 DEF MovedInv
    <2>2. CASE i \in 1..n
      BY <1>1, <1>2, <2>2 DEF MovedInv
    <2> QED  BY <1>2, <1>5, <2>1, <2>2
  <1>8. ASSUME NEW i \in DOMAIN history'[c], NEW j \in DOMAIN history'[c], i < j
        PROVE  Between(history'[c][i], history'[c][j])
    <2>1. i \in 1..n
      BY <1>2, <1>8
    <2>2. CASE j = n + 1
      BY <1>2, <1>4, <2>1, <2>2
    <2>3. CASE j \in 1..n
      BY <1>1, <1>2, <1>8, <2>1, <2>3 DEF MovedInv
    <2> QED  BY <1>2, <1>5, <2>2, <2>3
  <1>9. ASSUME NEW id \in Ids
        PROVE  /\ \A i \in DOMAIN history'[id] :
                    /\ history'[id][i].rx <= history'[id][i].moved
                    /\ resets = 0 => history'[id][i].rx = history'[id][i].moved
                    /\ Between(history'[id][i], Present(id))
               /\ \A i, j \in DOMAIN history'[id] :
                    i < j => Between(history'[id][i], history'[id][j])
               /\ dropped[id] <= Len(history'[id])
    <2>1. CASE id = c
      <3>1. dropped[c] <= n /\ dropped[c] \in Nat
        BY <1>1 DEF MovedInv, StoreInv
      <3>2. dropped[c] <= n + 1
        BY <1>2, <3>1
      <3> QED  BY <1>2, <1>7, <1>8, <2>1, <3>2
    <2>2. CASE id # c
      BY <1>1, <1>2, <2>2 DEF MovedInv
    <2> QED  BY <2>1, <2>2
  <1>10. MovedInv'
    <2>1. /\ resets' \in 0..MaxResets
          /\ \A id \in Ids : /\ counter'[id] <= moved'[id] /\ moved'[id] <= MaxMoved
                             /\ resets' = 0 => counter'[id] = moved'[id]
      BY <1>1 DEF MovedInv
    <2>2. ASSUME NEW id \in Ids, NEW i \in DOMAIN history'[id]
          PROVE  Between(history[id][i], Present(id))'
      <3>1. Between(history'[id][i], Present(id))
        BY <1>9
      <3> QED  BY <1>6, <3>1 DEF Between
    <2>3. ASSUME NEW id \in Ids, NEW i \in DOMAIN history'[id], NEW j \in DOMAIN history'[id], i < j
          PROVE  Between(history[id][i], history[id][j])'
      <3>1. Between(history'[id][i], history'[id][j])
        BY <1>9, <2>3
      <3> QED  BY <3>1 DEF Between
    <2> QED  BY <1>1, <1>9, <2>1, <2>2, <2>3 DEF MovedInv
  <1>11. ASSUME NEW id \in Ids
         PROVE  /\ Len(history[id]) <= Len(history'[id])
                /\ \A i \in DOMAIN history[id] : history'[id][i] = history[id][i]
    <2>1. CASE id = c
      BY <1>2, <2>1
    <2>2. CASE id # c
      BY <1>1, <1>2, <2>2
    <2> QED  BY <2>1, <2>2
  <1> QED  BY <1>10, <1>11

(* Faults are counted. *)
LEMMA FaultStep ==
  ASSUME PlaceInv, UNCHANGED faults \/ (faults' = faults + 1 /\ faults < MaxFaults)
  PROVE  faults' \in 0..MaxFaults
  BY ConstantsAssumption DEF PlaceInv

LEMMA ExactTick ==
  ASSUME HourlyInv, HourlyInv', ExactInv,
         UNCHANGED <<counter, moved, resets, storeVars, runVars, faults>>, now <= now'
  PROVE  ExactInv'
  <1>1. UNCHANGED <<counter, moved, resets, history, dropped, hourly, stage, bucket, last, batch,
                    started, faults>>
    BY DEF storeVars, runVars
  <1>5. PreviousInv'
    <2>1. /\ \A id \in Ids : Len(history[id]) <= Len(history'[id])
          /\ UNCHANGED readVars
      BY <1>1 DEF HourlyInv, StoreInv, runVars
    <2> QED  BY <1>1, <2>1, PreviousStays DEF ExactInv, HourlyInv
  <1>2. MovedInv'
    BY <1>1, MovedStays DEF ExactInv, MovedInv
  <1>3. RowsExact'
    <2>1. \A id \in Ids : dropped[id] <= dropped'[id] /\ Len(history[id]) <= Len(history'[id])
      BY <1>1 DEF HourlyInv, StoreInv
    <2> QED  BY <1>1, <2>1, RowsStay DEF ExactInv, HourlyInv
  <1>4. PlaceInv'
    <2>1. now \in Int /\ now' \in Int
      BY ConstantsAssumption DEF HourlyInv, StoreInv
    <2> QED  BY <1>1, <2>1 DEF ExactInv, PlaceInv, Buckets
  <1> QED  BY <1>2, <1>3, <1>4, <1>5 DEF ExactInv

LEMMA ExactSurroundings ==
  ASSUME HourlyInv, HourlyInv', ExactInv, NEW c \in Ids,
         Traffic(c) \/ RestartContainer(c) \/ InsertRawMetric(c)
  PROVE  ExactInv'
  <1>1. UNCHANGED <<now, dropped, hourly, stage, bucket, last, readVars, batch, started, faults>>
    BY DEF Traffic, RestartContainer, InsertRawMetric, envVars, storeVars, runVars
  <1>2. /\ MovedInv'
        /\ resets' = 0 => resets = 0
        /\ \A id \in Ids :
            /\ Len(history[id]) <= Len(history'[id])
            /\ \A i \in DOMAIN history[id] : history'[id][i] = history[id][i]
    <2>1. CASE InsertRawMetric(c)
      BY <2>1, SampleStep DEF HourlyInv, InsertRawMetric, envVars
    <2>2. CASE Traffic(c) \/ RestartContainer(c)
      <3>1. MovedInv'
        BY <2>2, CounterStep DEF HourlyInv
      <3>2. history' = history /\ history \in [Ids -> Seq(Sample)]
        BY <2>2 DEF Traffic, RestartContainer, storeVars, HourlyInv, StoreInv
      <3>3. resets' = 0 => resets = 0
        BY <2>2, ConstantsAssumption DEF Traffic, RestartContainer, ExactInv, MovedInv
      <3> QED  BY <3>1, <3>2, <3>3
    <2> QED  BY <2>1, <2>2
  <1>3. RowsExact'
    <2>1. \A id \in Ids : dropped[id] <= dropped'[id]
      BY <1>1 DEF HourlyInv, StoreInv
    <2> QED  BY <1>1, <1>2, <2>1, RowsStay DEF ExactInv, HourlyInv
  <1>4. PreviousInv'
    BY <1>1, <1>2, PreviousStays DEF ExactInv, HourlyInv
  <1>5. PlaceInv'
    BY <1>1 DEF ExactInv, PlaceInv, Buckets
  <1> QED  BY <1>2, <1>3, <1>4, <1>5 DEF ExactInv

(* A step of the run that keeps the samples: what has moved stays as it    *)
(* is, and so do the rows, unless they are in the step.                    *)
LEMMA ExactRunStep ==
  ASSUME HourlyInv, HourlyInv', ExactInv,
         UNCHANGED <<counter, moved, resets, history, dropped>>,
         \A id \in Ids, b \in Buckets :
            \/ hourly'[id][b] \in {hourly[id][b], NoRow}
            \/ b = bucket /\ stage = "commit" /\ hourly'[id][b] = batch[id],
         \A id \in Ids : batch'[id] \in {batch[id], NoRow},
         stage' \notin {"rows", "commit"}, UNCHANGED readVars \/ NothingRead
  PROVE  MovedInv' /\ RowsExact' /\ PreviousInv'
  <1>1. MovedInv'
    BY MovedStays DEF ExactInv, MovedInv
  <1>2. \A id \in Ids : dropped[id] <= dropped'[id] /\ Len(history[id]) <= Len(history'[id])
    BY DEF HourlyInv, StoreInv
  <1>3. RowsExact'
    BY <1>2, RowsStay DEF ExactInv, HourlyInv
  <1> QED  BY <1>1, <1>3, PreviousRests DEF ExactInv

LEMMA ExactStart ==
  ASSUME HourlyInv, HourlyInv', ExactInv, StartRun
  PROVE  ExactInv'
  <1>1. /\ UNCHANGED <<now, counter, moved, resets, history, dropped, hourly, batch>>
        /\ started' = now /\ last' = BucketOf(now) /\ stage' \notin {"rows", "commit"}
        /\ UNCHANGED readVars
    BY DEF StartRun, envVars, storeVars
  <1>2. MovedInv' /\ RowsExact' /\ PreviousInv'
    BY <1>1, ExactRunStep
  <1>3. bucket' \in Buckets
    <2>1. CASE AllRaw # {} /\ bucket' = Min(AllRaw)
      <3>1. \A b \in AllRaw : b \in Buckets
        BY RawIsHistory DEF AllRaw, HourlyInv
      <3>2. AllRaw \in SUBSET Nat
        BY <3>1 DEF Buckets
      <3> QED  BY <2>1, <3>1, <3>2, LeastExists
    <2>2. CASE bucket' = 0
      BY <2>2, ZeroHour
    <2> QED  BY <2>1, <2>2 DEF StartRun
  <1>4. now \in Nat /\ last' \in Buckets
    BY <1>1, HourExists, ConstantsAssumption DEF HourlyInv, StoreInv
  <1>5. faults' \in 0..MaxFaults
    <2>1. UNCHANGED faults \/ (faults' = faults + 1 /\ faults < MaxFaults)
      BY DEF StartRun, FailBucket, Fault
    <2> QED  BY <2>1, FaultStep DEF ExactInv
  <1>6. PlaceInv'
    BY <1>1, <1>3, <1>4, <1>5 DEF ExactInv, PlaceInv, Buckets
  <1> QED  BY <1>2, <1>6 DEF ExactInv

(* The next hour is one, or the run is past its last. *)
LEMMA NextHourExists ==
  ASSUME HourlyInv, ExactInv, stage \in {"read", "rows", "commit"}, NextBucket
  PROVE  bucket' \in Buckets \cup {last + 1}
  <1>1. /\ bucket \in Nat /\ bucket <= last /\ last \in Buckets /\ bucket' = bucket + 1
        /\ bucket \in Buckets \cup {last + 1}
    BY DEF HourlyInv, RunInv, ExactInv, PlaceInv, NextBucket
  <1>2. Buckets = 0..MaxTime \div HourLen
    BY DEF Buckets
  <1>3. MaxTime \div HourLen \in Nat
    BY ConstantsAssumption, HoursAreOrdered DEF BucketOf
  <1>4. PICK m \in Nat : Buckets = 0..m
    BY <1>2, <1>3
  <1> QED  BY <1>1, <1>4

(* A query that fails, or finds nothing, leads on to the next hour. *)
LEMMA ExactLeave ==
  ASSUME HourlyInv, HourlyInv', ExactInv, stage \in {"read", "rows"}, NextBucket,
         UNCHANGED <<now, counter, moved, resets, history, dropped, hourly, last, batch, started>>,
         UNCHANGED readVars \/ NothingRead, faults' \in 0..MaxFaults
  PROVE  ExactInv'
  <1>1. stage' \notin {"rows", "commit"}
    BY DEF NextBucket
  <1>2. MovedInv' /\ RowsExact' /\ PreviousInv'
    BY <1>1, ExactRunStep
  <1>3. bucket' \in Buckets \cup {last + 1}
    BY NextHourExists
  <1>4. PlaceInv'
    BY <1>3 DEF ExactInv, PlaceInv, Buckets
  <1> QED  BY <1>2, <1>4 DEF ExactInv

(* What the first query finds is what the counters said before the hour. *)
LEMMA ExactPrevious ==
  ASSUME HourlyInv, HourlyInv', ExactInv, QueryPrevious
  PROVE  ExactInv'
  <1>1. /\ UNCHANGED <<now, counter, moved, resets, history, dropped, hourly, last, batch, started>>
        /\ stage = "read"
    BY DEF QueryPrevious, envVars, storeVars
  <1>2. faults' \in 0..MaxFaults
    <2>1. UNCHANGED faults \/ (faults' = faults + 1 /\ faults < MaxFaults)
      BY DEF QueryPrevious, FailBucket, Fault
    <2> QED  BY <2>1, FaultStep DEF ExactInv
  <1>3. CASE /\ prevMap' = [id \in Ids |-> LastBefore(id, bucket)]
             /\ seen' = {id \in Ids : RawIn(id, bucket) # {}}
             /\ stage' = "rows" /\ UNCHANGED bucket
    <2>1. MovedInv'
      BY <1>1, MovedStays DEF ExactInv, MovedInv
    <2>2. RowsExact'
      <3>1. \A id \in Ids : dropped[id] <= dropped'[id] /\ Len(history[id]) <= Len(history'[id])
        BY <1>1 DEF HourlyInv, StoreInv
      <3> QED  BY <1>1, <1>3, <3>1, RowsStay DEF ExactInv, HourlyInv
    <2>3. ASSUME NEW id \in Ids
          PROVE  /\ prevMap'[id] \in 0..MaxMoved
                 /\ id \in seen' => AllIn(id, bucket) # {}
                 /\ id \in seen' /\ Complete(id, bucket) => prevMap'[id] = Before(id, bucket)
                 /\ id \notin seen' => prevMap'[id] = 0
      <3>1. prevMap'[id] = LastBefore(id, bucket) /\ (id \in seen' <=> RawIn(id, bucket) # {})
        BY <1>3
      <3>2. LastBefore(id, bucket) \in 0..MaxMoved
        BY LastIsCounter DEF HourlyInv, ExactInv
      <3>3. CASE RawIn(id, bucket) = {}
        BY <3>1, <3>2, <3>3 DEF LastBefore
      <3>4. CASE RawIn(id, bucket) # {}
        <4>1. AllIn(id, bucket) # {}
          BY <3>4, RawIsHistory DEF RawIn, AllIn, HourlyInv
        <4> QED  BY <3>1, <3>2, <3>4, <4>1, LastIsBefore DEF HourlyInv
      <3> QED  BY <3>3, <3>4
    <2>4. ASSUME NEW id \in Ids
          PROVE  /\ AllIn(id, bucket)' = AllIn(id, bucket)
                 /\ Complete(id, bucket)' <=> Complete(id, bucket)
                 /\ Before(id, bucket)' = Before(id, bucket)
      BY <1>1, <1>3 DEF AllIn, Complete, Before, BucketOf
    <2>5. prevMap' \in [Ids -> 0..MaxMoved] /\ seen' \subseteq Ids
      BY <1>3, <2>3
    <2>6. PreviousInv'
      BY <2>3, <2>4, <2>5 DEF PreviousInv
    <2>7. PlaceInv'
      BY <1>1, <1>2, <1>3 DEF ExactInv, PlaceInv, Buckets
    <2> QED  BY <2>1, <2>2, <2>6, <2>7 DEF ExactInv
  <1>4. CASE NextBucket /\ UNCHANGED readVars
    BY <1>1, <1>2, <1>4, ExactLeave
  <1> QED  BY <1>3, <1>4 DEF QueryPrevious

LEMMA ExactRows ==
  ASSUME HourlyInv, HourlyInv', ExactInv, QueryRows
  PROVE  ExactInv'
  <1>1. /\ UNCHANGED <<now, counter, moved, resets, history, dropped, hourly, last, started>>
        /\ stage = "rows" /\ NothingRead
    BY DEF QueryRows, envVars, storeVars
  <1>2. faults' \in 0..MaxFaults
    <2>1. UNCHANGED faults \/ (faults' = faults + 1 /\ faults < MaxFaults)
      BY DEF QueryRows, FailBucket, Fault
    <2> QED  BY <2>1, FaultStep DEF ExactInv
  <1>3. CASE /\ batch' = [id \in Ids |-> Aggregate(id, bucket)] /\ UNCHANGED bucket
             /\ stage' = "commit"
    <2>1. MovedInv'
      BY <1>1, MovedStays DEF ExactInv, MovedInv
    <2>2. ASSUME NEW id \in Ids, NEW b, NEW row, RowExact(id, b, row)
          PROVE  RowExact(id, b, row)'
      BY <1>1, <2>2 DEF RowExact, Told, Complete, AllIn, TrueMoved, BucketOf
    <2>3. ASSUME NEW id \in Ids
          PROVE  /\ batch'[id] \in Row
                 /\ batch'[id].count > 0 => RowExact(id, bucket, batch[id])'
      <3>1. batch'[id] = Aggregate(id, bucket) /\ batch'[id] \in Row
        BY <1>3, AggregateIsRow DEF HourlyInv, ExactInv
      <3>2. ASSUME batch'[id].count > 0 PROVE RowExact(id, bucket, batch[id])'
        <4>1. PICK b, row : b = bucket /\ row = batch'[id]
          OBVIOUS
        <4>2. row.count = Cardinality(RawIn(id, b))
          BY <3>1, <4>1 DEF Aggregate
        <4>3. RawIn(id, b) # {}
          BY <3>2, <4>1, <4>2, FS_EmptySet
        <4>4. RowExact(id, b, row)
          BY <1>1, <3>1, <4>1, <4>3, AggregateIsExact DEF HourlyInv, ExactInv
        <4>5. RowExact(id, b, row)'
          BY <2>2, <4>4
        <4> QED  BY <1>3, <4>1, <4>5 DEF RowExact, Told, Complete, AllIn
      <3> QED  BY <3>1, <3>2
    <2>4. ASSUME NEW id \in Ids, NEW b \in Buckets
          PROVE  /\ hourly'[id][b] \in Row
                 /\ hourly'[id][b].count > 0 => RowExact(id, b, hourly[id][b])'
      <3>1. /\ hourly[id][b] \in Row
            /\ hourly[id][b].count > 0 => RowExact(id, b, hourly[id][b])
        BY DEF ExactInv, RowsExact
      <3>2. PICK row : row = hourly[id][b]
        OBVIOUS
      <3>3. row.count > 0 => RowExact(id, b, row)'
        BY <2>2, <3>1, <3>2
      <3> QED  BY <1>1, <3>1, <3>2, <3>3 DEF RowExact
    <2>5. RowsExact'
      BY <2>3, <2>4 DEF RowsExact, Buckets, Row
    <2>6. PlaceInv'
      BY <1>1, <1>2, <1>3 DEF ExactInv, PlaceInv, Buckets
    <2>7. PreviousInv'
      BY <1>1, <1>3, PreviousRests DEF ExactInv
    <2> QED  BY <2>1, <2>5, <2>6, <2>7 DEF ExactInv
  <1>4. CASE NextBucket /\ UNCHANGED batch
    BY <1>1, <1>2, <1>4, ExactLeave
  <1> QED  BY <1>3, <1>4 DEF QueryRows

LEMMA ExactCommit ==
  ASSUME HourlyInv, HourlyInv', ExactInv, CommitBucket
  PROVE  ExactInv'
  <1>1. /\ UNCHANGED <<now, counter, moved, resets, history, dropped, last, started>>
        /\ stage = "commit" /\ NextBucket /\ batch' = [id \in Ids |-> NoRow]
        /\ stage' \notin {"rows", "commit"} /\ UNCHANGED readVars
    BY DEF CommitBucket, envVars, NextBucket
  <1>2. ASSUME NEW id \in Ids, NEW b \in Buckets
        PROVE  \/ hourly'[id][b] \in {hourly[id][b], NoRow}
               \/ b = bucket /\ stage = "commit" /\ hourly'[id][b] = batch[id]
    <2>1. CASE UNCHANGED hourly
      BY <2>1
    <2>2. CASE hourly' = [x \in Ids |->
                [hourly[x] EXCEPT ![bucket] = IF batch[x].count = 0 THEN @ ELSE batch[x]]]
      <3>1. hourly[id] = [x \in Buckets |-> hourly[id][x]]
        BY DEF HourlyInv, RowsInv
      <3>2. hourly'[id] = [hourly[id] EXCEPT
                               ![bucket] = IF batch[id].count = 0 THEN @ ELSE batch[id]]
        BY <2>2
      <3> HIDE <2>2
      <3>3. hourly'[id][b] \in {hourly[id][b], batch[id]} /\ (b # bucket => hourly'[id][b] = hourly[id][b])
        BY <3>1, <3>2
      <3> QED  BY <1>1, <3>3
    <2> QED  BY <2>1, <2>2 DEF CommitBucket
  <1>3. MovedInv' /\ RowsExact' /\ PreviousInv'
    <2>1. \A id \in Ids : batch'[id] = NoRow
      BY <1>1
    <2> QED  BY <1>1, <1>2, <2>1, ExactRunStep
  <1>4. bucket' \in Buckets \cup {last + 1}
    BY <1>1, NextHourExists
  <1>5. faults' \in 0..MaxFaults
    <2>1. UNCHANGED faults \/ (faults' = faults + 1 /\ faults < MaxFaults)
      BY DEF CommitBucket, FailBucket, Fault
    <2> QED  BY <2>1, FaultStep DEF ExactInv
  <1>6. PlaceInv'
    BY <1>1, <1>4, <1>5 DEF ExactInv, PlaceInv, Buckets
  <1> QED  BY <1>3, <1>6 DEF ExactInv

(* The end of a run, whole or cut short. *)
LEMMA PlaceAtEnd ==
  ASSUME HourlyInv, ExactInv, EndRun, UNCHANGED now, faults' \in 0..MaxFaults,
         batch' = batch \/ batch' = [id \in Ids |-> NoRow]
  PROVE  PlaceInv'
  <1>1. now \in Nat
    BY ConstantsAssumption DEF HourlyInv, StoreInv
  <1> QED  BY <1>1, ZeroHour DEF EndRun, ExactInv, PlaceInv, Buckets

LEMMA ExactDeleteRaw ==
  ASSUME HourlyInv, HourlyInv', ExactInv, DeleteRaw
  PROVE  ExactInv'
  <1>1. /\ UNCHANGED <<now, counter, moved, resets, history, hourly, batch>>
        /\ stage' \notin {"rows", "commit"} /\ UNCHANGED readVars
    BY DEF DeleteRaw, envVars, EndRun
  <1>2. ASSUME NEW id \in Ids
        PROVE  dropped[id] <= dropped'[id] /\ dropped'[id] <= Len(history[id])
    <2>1. dropped'[id] \in {dropped[id]} \cup Expirable(id)
      BY OnlyExpiredIsDeleted
    <2>2. dropped[id] <= Len(history[id]) /\ dropped[id] \in Nat /\ Len(history[id]) \in Nat
      BY DEF ExactInv, MovedInv, HourlyInv, StoreInv
    <2> QED  BY <2>1, <2>2 DEF Expirable, Raw
  <1>3. MovedInv'
    BY <1>1, <1>2, MovedStays DEF ExactInv
  <1>4. RowsExact'
    <2>1. \A id \in Ids : Len(history[id]) <= Len(history'[id])
      BY <1>1 DEF HourlyInv, StoreInv
    <2> QED  BY <1>1, <1>2, <2>1, RowsStay DEF ExactInv, HourlyInv
  <1>5. faults' \in 0..MaxFaults
    <2>1. UNCHANGED faults \/ (faults' = faults + 1 /\ faults < MaxFaults)
      BY DEF DeleteRaw, FailBucket, Fault
    <2> QED  BY <2>1, FaultStep DEF ExactInv
  <1>6. PlaceInv'
    <2>1. CASE EndRun
      BY <1>1, <1>5, <2>1, PlaceAtEnd
    <2>2. CASE UNCHANGED <<bucket, last, started>>
      BY <1>1, <1>5, <2>2 DEF ExactInv, PlaceInv, Buckets
    <2> QED  BY <2>1, <2>2 DEF DeleteRaw
  <1>7. PreviousInv'
    BY <1>1, PreviousRests DEF ExactInv
  <1> QED  BY <1>3, <1>4, <1>6, <1>7 DEF ExactInv

LEMMA ExactDeleteHourly ==
  ASSUME HourlyInv, HourlyInv', ExactInv, DeleteHourly
  PROVE  ExactInv'
  <1>1. /\ UNCHANGED <<now, counter, moved, resets, history, dropped, batch>>
        /\ stage' \notin {"rows", "commit"} /\ EndRun /\ UNCHANGED readVars
    BY DEF DeleteHourly, envVars, EndRun
  <1>2. \A id \in Ids, b \in Buckets : hourly'[id][b] \in {hourly[id][b], NoRow}
    BY DEF DeleteHourly
  <1>3. MovedInv' /\ RowsExact' /\ PreviousInv'
    BY <1>1, <1>2, ExactRunStep
  <1>4. faults' \in 0..MaxFaults
    BY ConstantsAssumption DEF DeleteHourly, Fault, ExactInv, PlaceInv
  <1> QED  BY <1>1, <1>3, <1>4, PlaceAtEnd DEF ExactInv

LEMMA ExactRestart ==
  ASSUME HourlyInv, HourlyInv', ExactInv, RestartProgram
  PROVE  ExactInv'
  <1>1. /\ UNCHANGED <<now, counter, moved, resets, history, dropped, hourly>>
        /\ stage' \notin {"rows", "commit"} /\ EndRun /\ batch' = [id \in Ids |-> NoRow]
        /\ NothingRead
    BY DEF RestartProgram, envVars, storeVars, EndRun
  <1>2. MovedInv' /\ RowsExact' /\ PreviousInv'
    BY <1>1, ExactRunStep
  <1>3. faults' \in 0..MaxFaults
    BY ConstantsAssumption DEF RestartProgram, Fault, ExactInv, PlaceInv
  <1> QED  BY <1>1, <1>2, <1>3, PlaceAtEnd DEF ExactInv

LEMMA NextExactInv == HourlyInv /\ HourlyInv' /\ ExactInv /\ [Next]_vars => ExactInv'
  <1> SUFFICES ASSUME HourlyInv, HourlyInv', ExactInv, [Next]_vars PROVE ExactInv'
    OBVIOUS
  <1>1. now \in Int
    BY ConstantsAssumption DEF HourlyInv, StoreInv
  <1>2. CASE Tick
    <2>1. UNCHANGED <<counter, moved, resets, storeVars, runVars, faults>> /\ now' = now + 1
      BY <1>2 DEF Tick
    <2> QED  BY <1>1, <2>1, ExactTick
  <1>3. CASE UNCHANGED vars
    BY <1>1, <1>3, ExactTick DEF vars, envVars
  <1>4. CASE Maintenance \/ RestartProgram
    BY <1>4, ExactStart, ExactPrevious, ExactRows, ExactCommit, ExactDeleteRaw, ExactDeleteHourly,
       ExactRestart DEF Maintenance
  <1>5. ASSUME NEW id \in Ids, Traffic(id) \/ RestartContainer(id) \/ InsertRawMetric(id)
        PROVE  ExactInv'
    BY <1>5, ExactSurroundings
  <1> QED  BY <1>2, <1>3, <1>4, <1>5 DEF Next

-------------------------------------------------------------------------------
(* For any hours, retention times and restarts of containers: what the     *)
(* aggregator has written of an hour that is complete is exact, and a torn *)
(* row counts the whole counter, although samples arrive between its two   *)
(* queries and behind them (aggregate.go:63-158).                          *)
THEOREM RowsAreExact == Spec => []ExactInv
  <1>1. Spec => [](HourlyInv /\ ExactInv)
    BY InitHourlyInv, NextHourlyInv, InitExactInv, NextExactInv, PTL DEF Spec
  <1> QED  BY <1>1, PTL

LEMMA InvsImplyTypes == HourlyInv /\ ExactInv => TypeOK
  <1> SUFFICES ASSUME HourlyInv, ExactInv PROVE TypeOK
    OBVIOUS
  <1>1. /\ now \in 0..MaxTime /\ resets \in 0..MaxResets /\ faults \in 0..MaxFaults
        /\ stage \in {"idle", "read", "rows", "commit", "deleteRaw", "deleteHourly"}
        /\ prevMap \in [Ids -> 0..MaxMoved] /\ seen \subseteq Ids
        /\ failed \subseteq Buckets /\ started \in 0..now /\ last \in Buckets
        /\ bucket \in Buckets \cup {last + 1}
    BY DEF HourlyInv, StoreInv, RunInv, ExactInv, MovedInv, PreviousInv, PlaceInv
  <1>2. counter \in [Ids -> 0..MaxMoved] /\ moved \in [Ids -> 0..MaxMoved]
    <2>1. counter \in [Ids -> Nat] /\ moved \in [Ids -> Nat]
      BY DEF HourlyInv, StoreInv
    <2>2. \A id \in Ids : counter[id] \in 0..MaxMoved /\ moved[id] \in 0..MaxMoved
      BY <2>1, ConstantsAssumption DEF ExactInv, MovedInv
    <2> QED  BY <2>1, <2>2
  <1>3. hourly \in [Ids -> [Buckets -> Row]] /\ batch \in [Ids -> Row]
    <2>1. \A id \in Ids : batch[id] \in Row /\ \A b \in Buckets : hourly[id][b] \in Row
      BY DEF ExactInv, RowsExact
    <2>2. /\ hourly = [id \in Ids |-> [b \in Buckets |-> hourly[id][b]]]
          /\ batch = [id \in Ids |-> batch[id]]
      BY DEF HourlyInv, RowsInv, ExactInv, PlaceInv
    <2>3. [id \in Ids |-> [b \in Buckets |-> hourly[id][b]]] \in [Ids -> [Buckets -> Row]]
      BY <2>1
    <2> QED  BY <2>1, <2>2, <2>3
  <1>4. ASSUME NEW id \in Ids
        PROVE  /\ history[id] \in Seq([at : 0..MaxTime, rx : 0..MaxMoved, moved : 0..MaxMoved])
               /\ dropped[id] \in 0..Len(history[id])
    <2>1. history[id] \in Seq(Sample) /\ DOMAIN history[id] = 1..Len(history[id])
          /\ Len(history[id]) \in Nat /\ dropped[id] \in Nat
      BY DEF HourlyInv, StoreInv
    <2>2. dropped[id] \in 0..Len(history[id])
      BY <2>1 DEF ExactInv, MovedInv
    <2> DEFINE T == [at : 0..MaxTime, rx : 0..MaxMoved, moved : 0..MaxMoved]
    <2>3. ASSUME NEW i \in DOMAIN history[id] PROVE history[id][i] \in T
      <3> DEFINE s == history[id][i]
      <3>1. s \in Sample /\ s.rx \in 0..MaxMoved
        BY <2>1, CountersAreBounded DEF HourlyInv, ExactInv
      <3>2. s.moved <= moved[id] /\ moved[id] <= MaxMoved /\ moved[id] \in Nat
        BY DEF ExactInv, MovedInv, Between, Present, HourlyInv, StoreInv
      <3> HIDE DEF s
      <3>3. s.moved \in 0..MaxMoved
        BY <3>1, <3>2, ConstantsAssumption DEF Sample
      <3>4. s \in T
        BY <3>1, <3>3 DEF Sample
      <3> QED  BY <3>4 DEF s
    <2> HIDE DEF T
    <2>4. history[id] = [i \in 1..Len(history[id]) |-> history[id][i]]
      BY <2>1
    <2>5. history[id] \in [1..Len(history[id]) -> T]
      BY <2>1, <2>3, <2>4
    <2>6. history[id] \in Seq(T)
      BY <2>1, <2>5
    <2> QED  BY <2>2, <2>6 DEF T
  <1> QED  BY <1>1, <1>2, <1>3, <1>4 DEF TypeOK

(* The rows of the metric store, and the place of a run, are what they     *)
(* should be, the sums of the aggregator numbers.                          *)
THEOREM StoreTypes == Spec => []TypeOK
  <1>1. Spec => []HourlyInv
    BY RunsCountWhatIsOld
  <1> QED  BY <1>1, RowsAreExact, InvsImplyTypes, PTL

(* A committed row that rests on a complete hour and on the sample before  *)
(* it claims no more bytes than have moved, and those exactly when no      *)
(* counter was reset; so does a torn one, whose hour began between the two *)
(* queries, of all the bytes of the container, however inserts, failures   *)
(* and restarts meet the queries (aggregate.go:63-158).                    *)
THEOREM CommittedIsExact == Spec => CommittedRowsExact
  <1> DEFINE Exact ==
        \A id \in Ids, b \in Buckets :
            hourly'[id][b] # hourly[id][b] /\ hourly'[id][b].count > 0 =>
                LET first == Min(AllIn(id, b))
                    final == first + hourly'[id][b].count - 1
                    claim == TrueMoved(id, IF hourly'[id][b].torn THEN 1 ELSE first, final)
                IN  \/ dropped[id] < first - 1 \/ dropped[id] = 0
                    \/ hourly'[id][b].torn /\ dropped[id] < first
                    =>  /\ hourly'[id][b].delta <= claim
                        /\ resets = 0 => hourly'[id][b].delta = claim
  <1>1. HourlyInv /\ ExactInv /\ [Next]_vars => [Exact]_vars
    <2> SUFFICES ASSUME HourlyInv, ExactInv, [Next]_vars, NEW id \in Ids, NEW b \in Buckets,
                        hourly'[id][b] # hourly[id][b], hourly'[id][b].count > 0
                 PROVE  LET first == Min(AllIn(id, b))
                            final == first + hourly'[id][b].count - 1
                            claim == TrueMoved(id, IF hourly'[id][b].torn THEN 1 ELSE first, final)
                        IN  \/ dropped[id] < first - 1 \/ dropped[id] = 0
                            \/ hourly'[id][b].torn /\ dropped[id] < first
                            =>  /\ hourly'[id][b].delta <= claim
                                /\ resets = 0 => hourly'[id][b].delta = claim
      OBVIOUS
    <2>1. CASE CommitBucket
      <3>1. hourly' = [x \in Ids |->
                [hourly[x] EXCEPT ![bucket] = IF batch[x].count = 0 THEN @ ELSE batch[x]]]
        BY <2>1 DEF CommitBucket
      <3>2. hourly'[id] = [hourly[id] EXCEPT
                               ![bucket] = IF batch[id].count = 0 THEN @ ELSE batch[id]]
        BY <3>1
      <3>3. hourly[id] = [x \in Buckets |-> hourly[id][x]]
        BY DEF HourlyInv, RowsInv
      <3>4. b = bucket /\ hourly'[id][b] = batch[id]
        BY <3>2, <3>3
      <3>5. RowExact(id, b, hourly'[id][b])
        BY <2>1, <3>4 DEF ExactInv, RowsExact, CommitBucket
      <3> QED  BY <3>5 DEF RowExact, Told, Complete
    <2>2. CASE ~ CommitBucket
      <3>1. CASE DeleteHourly
        <4>1. hourly'[id][b] \in {hourly[id][b], NoRow}
          BY <3>1 DEF DeleteHourly
        <4> QED  BY <4>1 DEF NoRow
      <3>2. CASE UNCHANGED hourly
        BY <3>2
      <3>3. DeleteHourly \/ UNCHANGED hourly
        BY <2>2 DEF Next, vars, Maintenance, storeVars, Tick, StartRun, QueryPrevious, QueryRows,
                    DeleteRaw, RestartProgram, Traffic, RestartContainer, InsertRawMetric
      <3> QED  BY <3>1, <3>2, <3>3
    <2> QED  BY <2>1, <2>2
  <1>2. Spec => [][Exact]_vars
    BY <1>1, RunsCountWhatIsOld, RowsAreExact, PTL DEF Spec
  <1> QED  BY <1>2 DEF CommittedRowsExact

-------------------------------------------------------------------------------
(* The analyzer. *)

DeployInv ==
    /\ created \in [Ids -> 0..MaxTime \cup {NotYet}]
    /\ image \in [Ids -> Images]
    /\ removed \subseteq {id \in Ids : created[id] # NotYet}
    /\ \A id, other \in Ids :
        created[id] = created[other] /\ created[id] # NotYet => id = other

(* The generations read, newest first. *)
GensInv ==
    /\ gens \in Seq(Generation)
    /\ \A j, k \in DOMAIN gens : j < k => gens[j].created > gens[k].created

(* The rows read are of past hours, exact, and no two of one hour. *)
HoursInv ==
    /\ IsFiniteSet(hours)
    /\ \A h \in hours :
        /\ h \in HourRow /\ h.count > 0
        /\ RowExact(h.id, h.bucket, h)
        /\ h.bucket < BucketOf(at)
    /\ \A g, h \in hours : g.id = h.id /\ g.bucket = h.bucket => g = h

ScanInv ==
    /\ stage4 \in {"idle", "containers", "hourly", "raw", "done"}
    /\ at \in 0..now
    /\ GensInv
    /\ HoursInv
    /\ stage4 \notin {"raw", "done"} => hours = {}
    /\ verdict = IF stage4 = "done" THEN Evaluate(gens, hours, RawSince(BucketOf(at)))
                 ELSE NoVerdict

AnalyzerInv == HourlyInv /\ ExactInv /\ DeployInv /\ ScanInv

(* A step of the store adds samples or deletes the oldest. *)
LEMMA HistoryGrows ==
  ASSUME HourlyInv, HourlyInv', ExactInv, [Next]_vars
  PROVE  /\ now <= now'
         /\ resets' = 0 => resets = 0
         /\ \A id \in Ids :
            /\ Len(history[id]) <= Len(history'[id])
            /\ \A i \in DOMAIN history[id] : history'[id][i] = history[id][i]
            /\ dropped[id] <= dropped'[id]
  <1>1. now \in Int /\ resets \in Nat
    BY ConstantsAssumption DEF HourlyInv, StoreInv, ExactInv, MovedInv
  <1>2. \A id \in Ids : history[id] \in Seq(Sample) /\ Len(history[id]) \in Nat /\ dropped[id] \in Nat
    BY DEF HourlyInv, StoreInv
  <1>3. now <= now' /\ (resets' = 0 => resets = 0)
    <2>1. CASE Tick
      BY <1>1, <2>1 DEF Tick
    <2>2. ASSUME NEW id \in Ids, RestartContainer(id) PROVE now <= now' /\ resets' # 0
      BY <1>1, <2>2 DEF RestartContainer
    <2>3. CASE UNCHANGED envVars
      BY <1>1, <2>3 DEF envVars
    <2>4. CASE UNCHANGED <<now, resets>>
      BY <1>1, <2>4
    <2> QED  BY <2>1, <2>2, <2>3, <2>4 DEF Next, vars, Maintenance, StartRun,
                QueryPrevious, QueryRows, CommitBucket, DeleteRaw, DeleteHourly, RestartProgram, Traffic,
                InsertRawMetric
  <1>5. ASSUME NEW id \in Ids
        PROVE  /\ Len(history[id]) <= Len(history'[id])
               /\ \A i \in DOMAIN history[id] : history'[id][i] = history[id][i]
               /\ dropped[id] <= dropped'[id]
    <2>1. CASE UNCHANGED <<history, dropped>>
      BY <1>2, <2>1
    <2>2. CASE DeleteRaw
      <3>1. dropped'[id] \in {dropped[id]} \cup Expirable(id) /\ UNCHANGED history
        BY <2>2, OnlyExpiredIsDeleted DEF HourlyInv, DeleteRaw
      <3> QED  BY <1>2, <3>1 DEF Expirable, Raw
    <2>3. ASSUME NEW c \in Ids, InsertRawMetric(c)
          PROVE  /\ Len(history[id]) <= Len(history'[id])
                 /\ \A i \in DOMAIN history[id] : history'[id][i] = history[id][i]
                 /\ dropped[id] <= dropped'[id]
      <3>1. UNCHANGED <<dropped, now>>
        BY <2>3 DEF InsertRawMetric, envVars
      <3> QED  BY <1>2, <2>3, <3>1, SampleStep DEF HourlyInv, InsertRawMetric, envVars
    <2> QED  BY <2>1, <2>2, <2>3 DEF Next, vars, storeVars, Maintenance, Tick, StartRun,
                QueryPrevious, QueryRows, CommitBucket, DeleteHourly, RestartProgram, Traffic,
                RestartContainer
  <1> QED  BY <1>3, <1>5

(* The rows read stay exact, whatever the store does. *)
LEMMA HoursStay ==
  ASSUME HourlyInv, HourlyInv', ExactInv, HoursInv, [Next]_vars, UNCHANGED <<hours, at>>
  PROVE  HoursInv'
  <1>1. ASSUME NEW h \in hours
        PROVE  RowExact(h.id, h.bucket, h)'
    <2>1. PICK id, b : id = h.id /\ b = h.bucket
      OBVIOUS
    <2>2. id \in Ids /\ h.count \in Nat /\ RowExact(id, b, h)
      BY <2>1 DEF HoursInv, HourRow
    <2>3. RowExact(id, b, h)'
      BY <2>2, HistoryGrows, RowStaysExact DEF HourlyInv
    <2> QED  BY <2>1, <2>3 DEF RowExact, Told, Complete, AllIn
  <1>2. BucketOf(at)' = BucketOf(at) /\ HourRow' = HourRow
    BY DEF BucketOf, HourRow, Buckets
  <1> QED  BY <1>1, <1>2 DEF HoursInv

(* Containers can be put in order, the newest first. *)
LEMMA NewestFirstExists ==
  ASSUME NEW T \in SUBSET Ids, IsFiniteSet(T), \A id \in T : created[id] \in Int,
         \A id, other \in T : created[id] = created[other] => id = other
  PROVE  /\ NewestFirst(T) \in [1..Cardinality(T) -> T]
         /\ \A j, k \in DOMAIN NewestFirst(T) :
                j < k => created[NewestFirst(T)[j]] > created[NewestFirst(T)[k]]
  <1> DEFINE Ordered(order, U) ==
               /\ order \in [1..Cardinality(U) -> U]
               /\ \A j, k \in 1..Cardinality(U) : j < k => created[order[j]] > created[order[k]]
             C == {U \in SUBSET T : ~ \E order : Ordered(order, U)}
  <1>1. \E order : Ordered(order, T)
    <2>1. SUFFICES ASSUME C # {} PROVE FALSE
      <3> HIDE DEF Ordered
      <3> QED  BY <2>1
    <2>2. PICK U \in C : \A V \in C : V \subseteq U => V = U
      <3> HIDE DEF C
      <3>1. C \in SUBSET SUBSET T
        BY DEF C
      <3> QED  BY <2>1, <3>1, LeastSubset
    <2>3. U \in SUBSET T /\ ~ (\E order : Ordered(order, U)) /\ IsFiniteSet(U)
      BY <2>2, FS_Subset
    <2>4. U # {}
      <3>1. SUFFICES ASSUME U = {} PROVE FALSE
        OBVIOUS
      <3>2. Cardinality(U) = 0
        BY <3>1, FS_EmptySet
      <3>3. [j \in 1..0 |-> j] \in [1..Cardinality(U) -> U]
        BY <3>2
      <3>4. Ordered([j \in 1..0 |-> j], U)
        BY <3>2, <3>3
      <3> HIDE DEF Ordered
      <3> QED  BY <2>3, <3>4
    <2>5. PICK oldest \in U : \A id \in U : created[oldest] <= created[id]
      <3> DEFINE D == {V \in SUBSET U : V # {} /\ ~ \E id \in V : \A other \in V : created[id] <= created[other]}
      <3>1. SUFFICES ASSUME D # {} PROVE FALSE
        BY <2>4, <3>1
      <3>2. PICK V \in D : \A W \in D : W \subseteq V => W = V
        <4> HIDE DEF D
        <4>1. D \in SUBSET SUBSET U
          BY DEF D
        <4> QED  BY <2>3, <3>1, <4>1, LeastSubset
      <3>3. PICK x \in V : TRUE
        BY <3>2
      <3>4. V \ {x} \notin D
        BY <3>2, <3>3
      <3>5. \A id \in V : created[id] \in Int
        BY <2>3, <3>2
      <3>6. CASE V \ {x} = {}
        BY <3>2, <3>3, <3>5, <3>6
      <3>7. CASE V \ {x} # {}
        <4>1. PICK y \in V \ {x} : \A other \in V \ {x} : created[y] <= created[other]
          BY <3>2, <3>4, <3>7
        <4>2. CASE created[y] <= created[x]
          <5>1. \A other \in V : created[y] <= created[other]
            BY <4>1, <4>2
          <5> QED  BY <3>2, <4>1, <5>1
        <4>3. CASE created[x] <= created[y]
          <5>1. created[x] \in Int /\ created[y] \in Int
            BY <3>3, <3>5, <4>1
          <5>2. \A other \in V : created[x] <= created[other]
            BY <3>5, <4>1, <4>3, <5>1
          <5> QED  BY <3>2, <3>3, <5>2
        <4> QED  BY <3>3, <3>5, <4>1, <4>2, <4>3
      <3> QED  BY <3>6, <3>7
    <2> DEFINE V == U \ {oldest}
               n == Cardinality(U)
    <2>6. IsFiniteSet(V) /\ Cardinality(V) = n - 1 /\ n \in Nat \ {0}
      <3>1. Cardinality(V) = n - 1 /\ IsFiniteSet(V)
        BY <2>3, <2>5, FS_RemoveElement
      <3>2. Cardinality(V) \in Nat /\ n \in Nat
        BY <2>3, <3>1, FS_CardinalityType
      <3> HIDE DEF V, n
      <3> QED  BY <3>1, <3>2
    <2>7. PICK order : Ordered(order, V)
      <3>1. V \notin C /\ V \in SUBSET T
        BY <2>2, <2>3, <2>5
      <3> HIDE DEF Ordered, V
      <3> QED  BY <3>1
    <2> DEFINE longer == [j \in 1..n |-> IF j = n THEN oldest ELSE order[j]]
    <2>8. Ordered(longer, U)
      <3>1. order \in [1..n - 1 -> V]
            /\ \A j, k \in 1..n - 1 : j < k => created[order[j]] > created[order[k]]
        BY <2>6, <2>7
      <3>2. \A id \in V : created[oldest] < created[id]
        BY <2>3, <2>5
      <3>3. V \subseteq U /\ oldest \in U
        BY <2>5
      <3> HIDE DEF V
      <3>4. longer \in [1..n -> U]
        BY <2>6, <3>1, <3>3
      <3>5. ASSUME NEW j \in 1..n, NEW k \in 1..n, j < k
            PROVE  created[longer[j]] > created[longer[k]]
        <4>1. j \in 1..n - 1 /\ longer[j] = order[j] /\ order[j] \in V
          BY <2>6, <3>1, <3>5
        <4>2. CASE k = n
          BY <2>6, <3>2, <4>1, <4>2
        <4>3. CASE k \in 1..n - 1
          <5>1. longer[k] = order[k]
            BY <2>6, <4>3
          <5> QED  BY <3>1, <3>5, <4>1, <4>3, <5>1
        <4> QED  BY <2>6, <4>2, <4>3
      <3> QED  BY <3>4, <3>5
    <2> HIDE DEF Ordered
    <2> QED  BY <2>3, <2>8
  <1>2. PICK order : Ordered(order, T)
    <2> HIDE DEF Ordered
    <2> QED  BY <1>1
  <1>3. order \in SetToSeqs(T)
    <2>1. ASSUME NEW j \in 1..Cardinality(T), NEW k \in 1..Cardinality(T), j # k
          PROVE  order[j] # order[k]
      <3>1. j \in Int /\ k \in Int /\ order[j] \in T /\ order[k] \in T
        BY <1>2
      <3>2. j < k \/ k < j
        BY <2>1, <3>1
      <3>3. created[order[j]] > created[order[k]] \/ created[order[k]] > created[order[j]]
        BY <1>2, <3>2
      <3> QED  BY <3>1, <3>3
    <2> QED  BY <1>2, <2>1 DEF SetToSeqs
  <1> DEFINE best == NewestFirst(T)
  <1>4. best \in SetToSeqs(T) /\ \A j, k \in DOMAIN best : j < k => created[best[j]] > created[best[k]]
    <2>1. \A j, k \in DOMAIN order : j < k => created[order[j]] > created[order[k]]
      BY <1>2
    <2> QED  BY <1>3, <2>1 DEF NewestFirst
  <1>5. best \in [1..Cardinality(T) -> T]
    <2> HIDE DEF best
    <2> QED  BY <1>4 DEF SetToSeqs
  <1> QED  BY <1>4, <1>5

(* The result depends on what was read. *)
LEMMA SameVerdict ==
  ASSUME UNCHANGED <<at, gens, hours, history, dropped>>
  PROVE  Evaluate(gens, hours, RawSince(BucketOf(at)))'
            = Evaluate(gens, hours, RawSince(BucketOf(at)))
  <1>1. RawSince(BucketOf(at))' = RawSince(BucketOf(at))
    BY DEF RawSince, RawRow, Raw, BucketOf
  <1>2. PICK raw, list, rows :
            /\ raw = RawSince(BucketOf(at)) /\ list = gens /\ rows = hours
            /\ raw = RawSince(BucketOf(at))' /\ list = gens' /\ rows = hours'
    BY <1>1
  <1>3. ClampedStart(list)' = ClampedStart(list)
    BY DEF ClampedStart
  <1>4. ASSUME NEW start, NEW counted, NEW recent
        PROVE  Judge(start, counted, recent)' = Judge(start, counted, recent)
    <2>1. Span(start)' = Span(start)
      BY DEF Span
    <2> QED  BY <2>1, Zenon DEF Judge, BucketOf
  <1>5. Evaluate(list, rows, raw)' = Evaluate(list, rows, raw)
    BY <1>3, <1>4, Zenon DEF Evaluate
  <1> QED  BY <1>2, <1>5

LEMMA InitAnalyzerInv == AnalyzerInit => AnalyzerInv
  <1> SUFFICES ASSUME AnalyzerInit PROVE AnalyzerInv
    OBVIOUS
  <1>1. HourlyInv /\ ExactInv
    BY InitHourlyInv, InitExactInv DEF AnalyzerInit
  <1>2. DeployInv
    <2> DEFINE S == {id \in Ids : created[id] = 0}
    <2>1. IsFiniteSet(S) /\ Cardinality(S) <= 1
      BY AnalyzerAssumption, FS_Subset DEF AnalyzerInit
    <2>2. ASSUME NEW id \in S, NEW other \in S PROVE id = other
      <3> HIDE DEF S
      <3>1. SUFFICES ASSUME id # other PROVE FALSE
        OBVIOUS
      <3>2. IsFiniteSet(S \ {id}) /\ Cardinality(S \ {id}) = Cardinality(S) - 1
        BY <2>1, FS_RemoveElement
      <3>3. Cardinality(S) \in Nat /\ Cardinality(S \ {id}) \in Nat
        BY <2>1, <3>2, FS_CardinalityType
      <3>4. Cardinality(S \ {id}) = 0
        BY <2>1, <3>2, <3>3
      <3>5. S \ {id} = {}
        BY <3>2, <3>4, FS_EmptySet
      <3> QED  BY <3>1, <3>5
    <2>3. created \in [Ids -> {0, NotYet}] /\ image \in [Ids -> Images] /\ removed = {}
      BY DEF AnalyzerInit
    <2>4. \A id \in Ids : created[id] # NotYet => id \in S
      BY <2>3
    <2>5. {0, NotYet} \subseteq 0..MaxTime \cup {NotYet}
      BY ConstantsAssumption
    <2> HIDE DEF S
    <2> QED  BY <2>2, <2>3, <2>4, <2>5 DEF DeployInv
  <1>3. ScanInv
    <2>1. stage4 = "idle" /\ at = 0 /\ now = 0 /\ gens = <<>> /\ hours = {} /\ verdict = NoVerdict
      BY DEF AnalyzerInit, Init
    <2>2. GensInv
      BY <2>1 DEF GensInv
    <2>3. HoursInv
      BY <2>1, FS_EmptySet DEF HoursInv
    <2> QED  BY <2>1, <2>2, <2>3 DEF ScanInv
  <1> QED  BY <1>1, <1>2, <1>3 DEF AnalyzerInv

LEMMA DeployStep ==
  ASSUME StoreInv, DeployInv, NEW id \in Ids, Deploy(id) \/ MarkRemoved(id)
  PROVE  DeployInv'
  <1>1. now \in 0..MaxTime /\ now # NotYet
    BY ConstantsAssumption DEF StoreInv, NotYet
  <1>2. CASE Deploy(id)
    <2>1. /\ created[id] = NotYet /\ \A other \in Ids : created[other] # now
          /\ created' = [created EXCEPT ![id] = now] /\ UNCHANGED <<image, removed>>
      BY <1>2 DEF Deploy
    <2>2. created' \in [Ids -> 0..MaxTime \cup {NotYet}]
      BY <1>1, <2>1 DEF DeployInv
    <2>3. ASSUME NEW a \in Ids, NEW b \in Ids, created'[a] = created'[b], created'[a] # NotYet
          PROVE  a = b
      BY <1>1, <2>1, <2>3 DEF DeployInv
    <2>4. removed' \subseteq {c \in Ids : created'[c] # NotYet}
      BY <1>1, <2>1 DEF DeployInv
    <2> QED  BY <2>1, <2>2, <2>3, <2>4 DEF DeployInv, NotYet
  <1>3. CASE MarkRemoved(id)
    BY <1>3 DEF MarkRemoved, Listed, DeployInv
  <1> QED  BY <1>2, <1>3

(* The containers, in the order of the query. *)
LEMMA ContainersStep ==
  ASSUME DeployInv, QueryContainers
  PROVE  GensInv'
  <1> DEFINE order == NewestFirst(Listed)
             n == Cardinality(Listed)
  <1>1. /\ IsFiniteSet(Listed) /\ Listed \subseteq Ids
        /\ \A id \in Listed : created[id] \in 0..MaxTime /\ image[id] \in Images
        /\ \A id, other \in Listed : created[id] = created[other] => id = other
    BY AnalyzerAssumption, FS_Subset DEF Listed, DeployInv
  <1>2. n \in Nat /\ \A id \in Listed : created[id] \in Int
    BY <1>1, ConstantsAssumption, FS_CardinalityType
  <1>3. /\ order \in [1..n -> Listed]
        /\ \A j, k \in DOMAIN order : j < k => created[order[j]] > created[order[k]]
    BY <1>1, <1>2, NewestFirstExists
  <1>4. gens' = [k \in DOMAIN order |-> [created |-> created[order[k]], image |-> image[order[k]]]]
    BY DEF QueryContainers
  <1> HIDE DEF order, n
  <1>5. \A k \in 1..n : [created |-> created[order[k]], image |-> image[order[k]]] \in Generation
    BY <1>1, <1>3 DEF Generation
  <1>6. gens' \in [1..n -> Generation] /\ DOMAIN gens' = 1..n
    BY <1>3, <1>4, <1>5
  <1>7. gens' \in Seq(Generation)
    BY <1>2, <1>6
  <1>8. \A k \in 1..n : gens'[k].created = created[order[k]]
    BY <1>3, <1>4
  <1>9. \A j, k \in 1..n : j < k => gens'[j].created > gens'[k].created
    BY <1>3, <1>8
  <1>10. Generation' = Generation
    BY DEF Generation
  <1> QED  BY <1>6, <1>7, <1>9, <1>10 DEF GensInv

(* The hourly rows, of past hours. *)
LEMMA HoursStep ==
  ASSUME HourlyInv, ExactInv, QueryHourly
  PROVE  HoursInv'
  <1> DEFINE Q == {q \in Ids \X Buckets :
                    /\ HasRow(q[1], q[2])
                    /\ q[2] * HourLen >= at - Window
                    /\ q[2] < BucketOf(at)}
  <1>1. hours' = {HourOf(p[1], p[2]) : p \in Q} /\ UNCHANGED <<history, dropped, resets, at>>
    BY DEF QueryHourly, vars, envVars, storeVars
  <1>2. IsFiniteSet(Q)
    <2>1. IsFiniteSet(Buckets) 
      BY ConstantsAssumption, HoursAreOrdered, FS_Interval DEF Buckets, BucketOf
    <2>2. IsFiniteSet(Ids \X Buckets)
      BY <2>1, AnalyzerAssumption, FS_Product
    <2> QED  BY <2>2, FS_Subset
  <1>3. IsFiniteSet(hours')
    <2> DEFINE f == [p \in Q |-> HourOf(p[1], p[2])]
    <2> HIDE DEF Q
    <2>1. f \in Surjection(Q, hours')
      BY <1>1 DEF Surjection
    <2> QED  BY <1>2, <2>1, FS_Surjection
  <1>4. ASSUME NEW h \in hours'
        PROVE  /\ h \in HourRow /\ h.count > 0
               /\ RowExact(h.id, h.bucket, h)'
               /\ h.bucket < BucketOf(at)'
    <2>1. PICK p \in Q : h = HourOf(p[1], p[2])
      BY <1>1
    <2>2. PICK id \in Ids, b \in Buckets : p = <<id, b>>
      BY <2>1
    <2> DEFINE row == hourly[id][b]
    <2>3. /\ h.id = id /\ h.bucket = b /\ h.delta = row.delta /\ h.count = row.count
          /\ h.torn = row.torn
      BY <2>1, <2>2 DEF HourOf
    <2>4. row \in Row /\ row.count > 0 /\ b < BucketOf(at) /\ RowExact(id, b, row)
      BY <2>2 DEF HasRow, ExactInv, RowsExact
    <2> HIDE DEF row
    <2>5. h \in HourRow
      <3>1. row.delta \in Nat /\ row.count \in Nat /\ row.torn \in BOOLEAN
        BY <2>4 DEF Row
      <3>2. h = [id |-> id, bucket |-> b, delta |-> row.delta, count |-> row.count,
                 torn |-> row.torn]
        BY <2>1, <2>2 DEF HourOf, row
      <3> QED  BY <3>1, <3>2 DEF HourRow
    <2>6. RowExact(id, b, h)
      BY <2>3, <2>4 DEF RowExact, Told
    <2>7. RowExact(id, b, h)'
      BY <1>1, <2>6 DEF RowExact, Told, Complete, AllIn, TrueMoved, BucketOf
    <2>8. RowExact(h.id, h.bucket, h)'
      BY <2>3, <2>7 DEF RowExact, Told, Complete, AllIn
    <2> QED  BY <1>1, <2>3, <2>4, <2>5, <2>8 DEF BucketOf
  <1>5. ASSUME NEW g \in hours', NEW h \in hours', g.id = h.id, g.bucket = h.bucket
        PROVE  g = h
    <2>1. PICK p \in Q, q \in Q : g = HourOf(p[1], p[2]) /\ h = HourOf(q[1], q[2])
      BY <1>1
    <2> QED  BY <1>5, <2>1 DEF HourOf
  <1>6. HourRow' = HourRow
    BY DEF HourRow, Buckets
  <1> HIDE DEF Q
  <1> QED  BY <1>3, <1>4, <1>5, <1>6 DEF HoursInv

(* The analyzer only reads the store. *)
LEMMA StoreTakesSteps == AnalyzerNext => [Next]_vars
  <1>1. CASE StoreStep
    BY <1>1 DEF StoreStep, Listed, Next
  <1>2. CASE Return \/ Scan \/ \E id \in Ids : Deploy(id) \/ MarkRemoved(id)
    BY <1>2 DEF Return, Scan, QueryServices, QueryContainers, QueryHourly, QueryRaw, FailQuery,
                Deploy, MarkRemoved
  <1> QED  BY <1>1, <1>2 DEF AnalyzerNext

(* A scan that is over, or has not begun, has read nothing. *)
LEMMA NoRowsAreRead ==
  ASSUME now' \in Nat, stage4' = "idle", at' = 0, gens' = <<>>, hours' = {}, verdict' = NoVerdict
  PROVE  ScanInv'
  <1>1. GensInv'
    BY DEF GensInv
  <1>2. HoursInv'
    BY FS_EmptySet DEF HoursInv
  <1> QED  BY <1>1, <1>2 DEF ScanInv, NoVerdict

LEMMA QueryStep ==
  ASSUME HourlyInv, HourlyInv', ExactInv, DeployInv, ScanInv, Scan
  PROVE  ScanInv'
  <1>1. UNCHANGED vars /\ now \in Nat /\ now' = now /\ UNCHANGED <<history, dropped>>
    BY ConstantsAssumption DEF Scan, QueryServices, QueryContainers, QueryHourly, QueryRaw,
           FailQuery, vars, envVars, storeVars, HourlyInv, StoreInv
  <1>2. GensInv /\ HoursInv /\ at \in 0..now
    BY DEF ScanInv
  <1>3. UNCHANGED gens => GensInv'
    BY <1>2 DEF GensInv, Generation
  <1>4. UNCHANGED <<hours, at>> => HoursInv'
    BY <1>1, <1>2, HoursStay
  <1>5. CASE QueryServices
    <2>1. stage4 = "idle" /\ stage4' = "containers" /\ at' = now /\ UNCHANGED <<gens, hours, verdict>>
      BY <1>5 DEF QueryServices
    <2>2. HoursInv'
      BY <2>1, FS_EmptySet DEF ScanInv, HoursInv
    <2> QED  BY <1>1, <1>3, <2>1, <2>2 DEF ScanInv, NoVerdict
  <1>6. CASE QueryContainers
    <2>1. stage4 = "containers" /\ stage4' = "hourly" /\ UNCHANGED <<at, hours, verdict>>
      BY <1>6 DEF QueryContainers
    <2>2. GensInv'
      BY <1>6, ContainersStep
    <2> QED  BY <1>1, <1>2, <1>4, <2>1, <2>2 DEF ScanInv, NoVerdict
  <1>7. CASE QueryHourly
    <2>1. stage4 = "hourly" /\ stage4' = "raw" /\ UNCHANGED <<at, gens, verdict>>
      BY <1>7 DEF QueryHourly
    <2>2. HoursInv'
      BY <1>7, HoursStep
    <2> QED  BY <1>1, <1>2, <1>3, <2>1, <2>2 DEF ScanInv, NoVerdict
  <1>8. CASE QueryRaw
    <2>1. stage4' = "done" /\ UNCHANGED <<at, gens, hours>>
          /\ verdict' = Evaluate(gens, hours, RawSince(BucketOf(at)))
      BY <1>8 DEF QueryRaw
    <2>2. verdict' = Evaluate(gens, hours, RawSince(BucketOf(at)))'
      BY <1>1, <2>1, SameVerdict
    <2> QED  BY <1>1, <1>2, <1>3, <1>4, <2>1, <2>2 DEF ScanInv
  <1>9. CASE FailQuery
    <2>1. /\ stage4 # "done" /\ stage4' = "idle" /\ at' = 0 /\ gens' = <<>> /\ hours' = {}
          /\ UNCHANGED verdict
      BY <1>9 DEF FailQuery
    <2> QED  BY <1>1, <2>1, NoRowsAreRead DEF ScanInv
  <1> QED  BY <1>5, <1>6, <1>7, <1>8, <1>9 DEF Scan

(* What was read stays as it is while others take steps. *)
LEMMA ScanStays ==
  ASSUME HourlyInv, HourlyInv', ExactInv, ScanInv, [Next]_vars, UNCHANGED scanVars,
         stage4 # "done" \/ UNCHANGED vars
  PROVE  ScanInv'
  <1>1. UNCHANGED <<stage4, at, gens, hours, verdict>>
    BY DEF scanVars
  <1>2. GensInv'
    BY <1>1 DEF ScanInv, GensInv, Generation
  <1>3. HoursInv'
    BY <1>1, HoursStay DEF ScanInv
  <1>4. at' \in 0..now'
    <2>1. now <= now' /\ now \in Int /\ now' \in Int
      BY HistoryGrows, ConstantsAssumption DEF HourlyInv, StoreInv
    <2> QED  BY <1>1, <2>1 DEF ScanInv
  <1>5. CASE stage4 # "done"
    BY <1>1, <1>2, <1>3, <1>4, <1>5 DEF ScanInv, NoVerdict
  <1>6. CASE stage4 = "done" /\ UNCHANGED vars
    <2>1. UNCHANGED <<history, dropped>>
      BY <1>6 DEF vars, storeVars
    <2>2. verdict' = Evaluate(gens, hours, RawSince(BucketOf(at)))'
      BY <1>1, <1>6, <2>1, SameVerdict DEF ScanInv
    <2> QED  BY <1>1, <1>2, <1>3, <1>4, <1>6, <2>2 DEF ScanInv
  <1> QED  BY <1>5, <1>6

LEMMA NextAnalyzerInv == AnalyzerInv /\ [AnalyzerNext]_allVars => AnalyzerInv'
  <1> SUFFICES ASSUME AnalyzerInv, [AnalyzerNext]_allVars PROVE AnalyzerInv'
    OBVIOUS
  <1>1. [Next]_vars
    BY StoreTakesSteps DEF allVars
  <1>2. HourlyInv /\ ExactInv /\ DeployInv /\ ScanInv
    BY DEF AnalyzerInv
  <1>3. HourlyInv' /\ ExactInv'
    BY <1>1, <1>2, NextHourlyInv, NextExactInv
  <1>4. UNCHANGED deployVars => DeployInv'
    BY <1>2 DEF deployVars, DeployInv, NotYet
  <1>5. CASE Return
    <2>1. now' \in Nat
      BY <1>3, ConstantsAssumption DEF HourlyInv, StoreInv
    <2>2. ScanInv'
      BY <1>5, <2>1, NoRowsAreRead DEF Return
    <2> QED  BY <1>3, <1>4, <1>5, <2>2 DEF Return, AnalyzerInv
  <1>6. CASE stage4 # "done" /\ StoreStep
    BY <1>1, <1>2, <1>3, <1>4, <1>6, ScanStays DEF StoreStep, AnalyzerInv
  <1>7. CASE Scan
    <2>1. UNCHANGED deployVars
      BY <1>7 DEF Scan, QueryServices, QueryContainers, QueryHourly, QueryRaw, FailQuery
    <2> QED  BY <1>2, <1>3, <1>4, <1>7, <2>1, QueryStep DEF AnalyzerInv
  <1>8. ASSUME stage4 # "done", NEW id \in Ids, Deploy(id) \/ MarkRemoved(id)
        PROVE  AnalyzerInv'
    <2>1. UNCHANGED <<vars, scanVars>>
      BY <1>8 DEF Deploy, MarkRemoved
    <2>2. DeployInv'
      BY <1>2, <1>8, DeployStep DEF HourlyInv
    <2> QED  BY <1>1, <1>2, <1>3, <2>1, <2>2, ScanStays DEF AnalyzerInv
  <1>9. CASE UNCHANGED allVars
    BY <1>1, <1>2, <1>3, <1>4, <1>9, ScanStays DEF allVars, AnalyzerInv
  <1> QED  BY <1>5, <1>6, <1>7, <1>8, <1>9 DEF AnalyzerNext

(* What a scan has read: the containers newest first, and rows of past     *)
(* hours that are exact, or torn and count the whole counter.              *)
THEOREM ScansReadRows == AnalyzerSpec => []AnalyzerInv
  BY InitAnalyzerInv, NextAnalyzerInv, PTL DEF AnalyzerSpec

-------------------------------------------------------------------------------
(* The parts of a result. *)

CountedRows == {h \in hours : h.bucket * HourLen >= verdict.start}
RecentRows  == {r \in RawSince(BucketOf(at)) : r.at >= verdict.start}

CountedHours == {h.bucket : h \in CountedRows}
RecentHours  == {BucketOf(r.at) : r \in RecentRows}

CountedBytes == SumFunction([h \in CountedRows |-> h.delta])
RecentBytes  == Spread({r.rx : r \in RecentRows})

(* An hour is from its beginning to the beginning of the next one. *)
LEMMA HourContains ==
  ASSUME NEW x \in Nat
  PROVE  /\ BucketOf(x) \in Nat
         /\ BucketOf(x) * HourLen <= x /\ x < (BucketOf(x) + 1) * HourLen
  <1>1. /\ BucketOf(x) \in Int
        /\ x = HourLen * BucketOf(x) + (x % HourLen) /\ (x % HourLen) \in 0..HourLen - 1
    BY ConstantsAssumption, SMTT(30) DEF BucketOf
  <1>2. BucketOf(x) \in Nat
    BY HoursAreOrdered
  <1> DEFINE b == BucketOf(x)  r == x % HourLen
  <1>3. b \in Nat /\ r \in 0..HourLen - 1 /\ x = HourLen * b + r /\ HourLen \in Nat
    BY <1>1, <1>2, ConstantsAssumption
  <1> HIDE DEF b, r
  <1>4. (b + 1) * HourLen = HourLen * b + HourLen /\ b * HourLen = HourLen * b
    BY <1>3
  <1>5. HourLen * b \in Int
    BY <1>3
  <1>6. b * HourLen <= x /\ x < (b + 1) * HourLen
    <2> DEFINE p == HourLen * b
    <2>1. p \in Int /\ x = p + r /\ (b + 1) * HourLen = p + HourLen /\ b * HourLen = p
      BY <1>3, <1>4, <1>5
    <2> HIDE DEF p
    <2> QED  BY <1>3, <2>1
  <1> QED  BY <1>3, <1>6 DEF b

(* The newest generations with the image of the first. *)
LEMMA RunOfImages ==
  ASSUME GensInv, gens # <<>>
  PROVE  LET k == ImageRun(gens) IN
         /\ k \in DOMAIN gens /\ k \in Nat
         /\ \A j \in 1..k : gens[j].image = gens[1].image
         /\ k + 1 \in DOMAIN gens => gens[k + 1].image # gens[1].image
  <1> DEFINE S == {k \in DOMAIN gens : \A j \in 1..k : gens[j].image = gens[1].image}
             n == Len(gens)
  <1>1. n \in Nat \ {0} /\ DOMAIN gens = 1..n
    BY DEF GensInv
  <1>2. 1 \in S
    BY <1>1
  <1>3. S \in SUBSET Nat /\ S # {} /\ \A x \in S : x <= n
    BY <1>1, <1>2
  <1>4. Max(S) \in S /\ \A x \in S : Max(S) >= x
    <2> HIDE DEF S, n
    <2> QED  BY <1>1, <1>3, GreatestExists
  <1>5. PICK k : k = Max(S)
    OBVIOUS
  <1>6. k \in DOMAIN gens /\ k \in Nat /\ \A j \in 1..k : gens[j].image = gens[1].image
    BY <1>1, <1>4, <1>5
  <1>7. ASSUME k + 1 \in DOMAIN gens, gens[k + 1].image = gens[1].image
        PROVE  FALSE
    <2>1. \A j \in 1..k + 1 : gens[j].image = gens[1].image
      BY <1>6, <1>7
    <2>2. k + 1 \in S
      BY <1>7, <2>1
    <2>3. k >= k + 1
      <3> HIDE DEF S
      <3> QED  BY <1>4, <1>5, <2>2
    <2> QED  BY <1>6, <2>3
  <1>8. ImageRun(gens) = k
    BY <1>5 DEF ImageRun
  <1> QED  BY <1>6, <1>7, <1>8

(* The result is about the observation from its start, which is within the *)
(* window.                                                                 *)
LEMMA ResultParts ==
  ASSUME AnalyzerInv, stage4 = "done", gens # <<>>
  PROVE  /\ verdict.start = ClampedStart(gens)
         /\ verdict.start \in Int /\ at \in Nat
         /\ at - Window <= verdict.start /\ verdict.start <= MaxTime
         /\ verdict.span = Span(verdict.start)
         /\ verdict.count = Cardinality(CountedHours) + Cardinality(RecentHours)
         /\ verdict.bytes = CountedBytes + RecentBytes
         /\ verdict.status = IF verdict.count < MinSamples THEN "insufficient_data"
                             ELSE IF BelowThreshold(verdict.bytes, verdict.span) THEN "zombie"
                             ELSE "active"
  <1> DEFINE start == ClampedStart(gens)
             counted == {h \in hours : h.bucket * HourLen >= start}
             recent == {r \in RawSince(BucketOf(at)) : r.at >= start}
  <1>1. verdict = Judge(start, counted, recent)
    BY Zenon DEF AnalyzerInv, ScanInv, Evaluate
  <1>2. verdict.start = start
    <2> HIDE DEF start, counted, recent
    <2> QED  BY <1>1 DEF Judge
  <1>3. counted = CountedRows /\ recent = RecentRows
    BY <1>2 DEF CountedRows, RecentRows
  <1>4. /\ verdict.span = Span(verdict.start)
        /\ verdict.count = Cardinality(CountedHours) + Cardinality(RecentHours)
        /\ verdict.bytes = CountedBytes + RecentBytes
        /\ verdict.status = IF verdict.count < MinSamples THEN "insufficient_data"
                            ELSE IF BelowThreshold(verdict.bytes, verdict.span) THEN "zombie"
                            ELSE "active"
    <2>1. verdict = Judge(verdict.start, CountedRows, RecentRows)
      BY <1>1, <1>2, <1>3
    <2> QED  BY <2>1 DEF Judge, CountedHours, RecentHours, CountedBytes, RecentBytes
  <1>5. at \in Nat /\ at <= MaxTime /\ Window \in Nat
    BY ConstantsAssumption, AnalyzerAssumption DEF AnalyzerInv, ScanInv, HourlyInv, StoreInv
  <1>6. start \in Int /\ at - Window <= start /\ start <= MaxTime
    <2>1. PICK k \in DOMAIN gens : k = ImageRun(gens)
      BY RunOfImages DEF AnalyzerInv, ScanInv
    <2>2. gens[k] \in Generation
      BY <2>1 DEF AnalyzerInv, ScanInv, GensInv
    <2>3. gens[k].created \in Int /\ gens[k].created <= MaxTime
      BY <2>2, ConstantsAssumption DEF Generation
    <2> QED  BY <1>5, <2>1, <2>3, ConstantsAssumption DEF ClampedStart
  <1> QED  BY <1>2, <1>4, <1>5, <1>6

(* A raw row read is a sample, of the current hour or later. *)
LEMMA RecentIsSample ==
  ASSUME AnalyzerInv, NEW r \in RecentRows
  PROVE  \E id \in Ids : \E i \in DOMAIN history[id] :
            /\ r = RawRow(id, i) /\ i \in Raw(id)
            /\ r.at = history[id][i].at /\ r.at \in 0..MaxTime /\ r.at >= verdict.start
            /\ r.rx = history[id][i].rx /\ r.rx \in 0..MaxMoved
            /\ BucketOf(r.at) \in Buckets /\ BucketOf(r.at) >= BucketOf(at)
            /\ i \in AllIn(id, BucketOf(r.at))
  <1>1. PICK id \in Ids : r \in {RawRow(id, i) :
                i \in {j \in Raw(id) : BucketOf(history[id][j].at) >= BucketOf(at)}}
    BY DEF RecentRows, RawSince
  <1>2. PICK i \in Raw(id) : r = RawRow(id, i) /\ BucketOf(history[id][i].at) >= BucketOf(at)
    BY <1>1
  <1>3. r.at = history[id][i].at /\ r.rx = history[id][i].rx
    BY <1>2 DEF RawRow
  <1>4. i \in DOMAIN history[id] /\ history[id][i].at \in 0..MaxTime
        /\ BucketOf(history[id][i].at) \in Buckets
    BY RawIsHistory DEF AnalyzerInv, HourlyInv
  <1>5. history[id][i].rx \in 0..MaxMoved
    <2> DEFINE s == history[id][i]
    <2>1. s \in Sample
      BY <1>4 DEF AnalyzerInv, HourlyInv, StoreInv
    <2>2. s.rx <= s.moved /\ s.moved <= moved[id] /\ moved[id] <= MaxMoved /\ moved[id] \in Nat
      BY <1>4 DEF AnalyzerInv, ExactInv, MovedInv, Between, Present, HourlyInv, StoreInv
    <2> HIDE DEF s
    <2>3. s.rx \in Nat /\ s.moved \in Nat
      BY <2>1 DEF Sample
    <2>4. s.rx \in 0..MaxMoved
      BY <2>2, <2>3, ConstantsAssumption
    <2> QED  BY <2>4 DEF s
  <1>6. i \in AllIn(id, BucketOf(r.at))
    BY <1>3, <1>4 DEF AllIn
  <1>7. r.at >= verdict.start
    BY DEF RecentRows
  <1>8. r.at \in 0..MaxTime /\ r.rx \in 0..MaxMoved /\ BucketOf(r.at) \in Buckets
        /\ BucketOf(r.at) >= BucketOf(at)
    BY <1>2, <1>3, <1>4, <1>5
  <1> QED  BY <1>2, <1>3, <1>4, <1>6, <1>7, <1>8

(* An hourly row read is of a past hour. *)
LEMMA CountedIsRow ==
  ASSUME AnalyzerInv, NEW h \in CountedRows
  PROVE  /\ h \in hours /\ h.id \in Ids /\ h.bucket \in Buckets
         /\ h.bucket < BucketOf(at) /\ h.bucket * HourLen >= verdict.start
         /\ h.delta \in Nat /\ h.count \in Nat \ {0}
         /\ RowExact(h.id, h.bucket, h) /\ AllIn(h.id, h.bucket) # {}
  <1>1. h \in hours /\ h \in HourRow /\ h.count > 0 /\ RowExact(h.id, h.bucket, h)
        /\ h.bucket < BucketOf(at) /\ h.bucket * HourLen >= verdict.start
    BY DEF CountedRows, AnalyzerInv, ScanInv, HoursInv
  <1> QED  BY <1>1 DEF HourRow, RowExact

(* The bytes of the raw rows: what separates the least and the greatest    *)
(* count of two of them.                                                   *)
LEMMA SpreadIsDifference ==
  ASSUME NEW n \in Nat, NEW C \in SUBSET (0..n)
  PROVE  /\ Spread(C) \in Nat
         /\ \A x, y \in C : x - y <= Spread(C)
         /\ C # {} => \E x, y \in C : Spread(C) = x - y
  <1>1. CASE C = {}
    BY <1>1 DEF Spread
  <1>2. CASE C # {}
    <2>1. C \in SUBSET Nat /\ \A x \in C : x <= n
      OBVIOUS
    <2>2. PICK low \in C : low = Min(C) /\ \A x \in C : low <= x
      BY <1>2, <2>1, LeastExists
    <2>3. PICK high \in C : high = Max(C) /\ \A x \in C : high >= x
      BY <1>2, <2>1, GreatestExists
    <2>4. Spread(C) = high - low
      BY <1>2, <2>2, <2>3 DEF Spread
    <2> QED  BY <2>1, <2>2, <2>3, <2>4
  <1> QED  BY <1>1, <1>2

LEMMA BytesAreNumbers ==
  ASSUME AnalyzerInv
  PROVE  /\ CountedBytes \in Nat /\ RecentBytes \in Nat
         /\ {r.rx : r \in RecentRows} \in SUBSET (0..MaxMoved)
         /\ IsFiniteSet(CountedRows)
         /\ CountedBytes = SumFunctionOnSet([h \in CountedRows |-> h.delta], CountedRows)
  <1> DEFINE f == [h \in CountedRows |-> h.delta]
  <1>1. IsFiniteSet(CountedRows)
    <2>1. IsFiniteSet(hours) /\ CountedRows \subseteq hours
      BY DEF CountedRows, AnalyzerInv, ScanInv, HoursInv
    <2> QED  BY <2>1, FS_Subset
  <1>2. \A h \in CountedRows : f[h] \in Nat
    BY CountedIsRow
  <1>3. CountedBytes = SumFunctionOnSet(f, CountedRows)
    BY DEF CountedBytes, SumFunction
  <1>4. CountedBytes \in Nat
    <2> HIDE DEF f
    <2> QED  BY <1>1, <1>2, <1>3, SumNat
  <1>5. {r.rx : r \in RecentRows} \in SUBSET (0..MaxMoved)
    <2>1. \A r \in RecentRows : r.rx \in 0..MaxMoved
      BY RecentIsSample
    <2> QED  BY <2>1
  <1>6. RecentBytes \in Nat
    BY <1>5, SpreadIsDifference, ConstantsAssumption DEF RecentBytes
  <1> QED  BY <1>1, <1>3, <1>4, <1>5, <1>6

(* The hours counted are different ones: those of the hourly rows are      *)
(* past, those of the raw rows are not.                                    *)
LEMMA HoursAreDifferent ==
  ASSUME AnalyzerInv, stage4 = "done", gens # <<>>
  PROVE  LET O == {b \in Buckets : \E id \in Ids :
                        AllIn(id, b) # {} /\ (b + 1) * HourLen > verdict.start}
         IN  /\ verdict.count \in Nat /\ verdict.count <= Cardinality(O)
             /\ Cardinality(O) <= Cardinality(Buckets) /\ Cardinality(Buckets) \in Nat
             /\ Cardinality(O) \in Nat
  <1> DEFINE O == {b \in Buckets : \E id \in Ids :
                        AllIn(id, b) # {} /\ (b + 1) * HourLen > verdict.start}
             A == CountedHours
             B == RecentHours
  <1>1. IsFiniteSet(Buckets)
    BY ConstantsAssumption, HoursAreOrdered, FS_Interval DEF Buckets, BucketOf
  <1>2. verdict.start \in Int /\ HourLen \in Nat \ {0} /\ \A b \in Buckets : b \in Nat
    BY ResultParts, ConstantsAssumption DEF Buckets
  <1>3. ASSUME NEW b \in A
        PROVE  b \in O /\ b < BucketOf(at)
    <2>1. PICK h \in CountedRows : b = h.bucket
      BY <1>3 DEF CountedHours
    <2>2. h.id \in Ids /\ b \in Buckets /\ b < BucketOf(at) /\ b * HourLen >= verdict.start
          /\ AllIn(h.id, b) # {}
      BY <2>1, CountedIsRow
    <2>3. b \in Nat /\ (b + 1) * HourLen = b * HourLen + HourLen
      BY <1>2, <2>2
    <2>4. b * HourLen \in Int
      BY <1>2, <2>3
    <2>5. (b + 1) * HourLen > verdict.start
      <3> DEFINE p == b * HourLen  q == (b + 1) * HourLen
      <3>1. p \in Int /\ q = p + HourLen /\ p >= verdict.start
        BY <2>2, <2>3, <2>4
      <3> HIDE DEF p, q
      <3>2. q > verdict.start
        BY <1>2, <3>1
      <3> QED  BY <3>2 DEF q
    <2> QED  BY <2>2, <2>5
  <1>4. ASSUME NEW b \in B
        PROVE  b \in O /\ b >= BucketOf(at)
    <2>1. PICK r \in RecentRows : b = BucketOf(r.at)
      BY <1>4 DEF RecentHours
    <2>2. PICK id \in Ids : \E i \in DOMAIN history[id] :
            /\ r.at \in 0..MaxTime /\ r.at >= verdict.start
            /\ b \in Buckets /\ b >= BucketOf(at) /\ i \in AllIn(id, b)
      BY <2>1, RecentIsSample
    <2>3. r.at \in Nat /\ r.at < (b + 1) * HourLen
      BY <2>1, <2>2, HourContains, ConstantsAssumption
    <2>4. (b + 1) * HourLen \in Int
      BY <1>2, <2>2
    <2>5. (b + 1) * HourLen > verdict.start
      BY <1>2, <2>2, <2>3, <2>4
    <2> QED  BY <2>2, <2>5
  <1> HIDE DEF A, B
  <1>5. O \subseteq Buckets /\ A \subseteq O /\ B \subseteq O
    BY <1>3, <1>4
  <1>6. A \cap B = {}
    <2>1. BucketOf(at) \in Nat
      BY ResultParts, HoursAreOrdered
    <2>2. ASSUME NEW b \in A, b \in B PROVE FALSE
      <3>1. b \in Nat /\ b < BucketOf(at) /\ b >= BucketOf(at)
        BY <1>2, <1>3, <1>4, <1>5, <2>2
      <3> QED  BY <2>1, <3>1
    <2> QED  BY <2>2
  <1> HIDE DEF O
  <1>7. /\ IsFiniteSet(O) /\ IsFiniteSet(A) /\ IsFiniteSet(B) /\ IsFiniteSet(A \cup B)
        /\ Cardinality(O) <= Cardinality(Buckets)
        /\ Cardinality(A \cup B) <= Cardinality(O)
    <2>1. IsFiniteSet(O) /\ Cardinality(O) <= Cardinality(Buckets)
      BY <1>1, <1>5, FS_Subset
    <2>2. IsFiniteSet(A) /\ IsFiniteSet(B)
      BY <1>5, <2>1, FS_Subset
    <2>3. A \cup B \subseteq O
      BY <1>5
    <2> QED  BY <2>1, <2>2, <2>3, FS_Subset
  <1>8. Cardinality(A \cup B) = Cardinality(A) + Cardinality(B) - Cardinality(A \cap B)
    BY <1>7, FS_Union
  <1>9. Cardinality(A \cap B) = 0
    BY <1>6, FS_EmptySet
  <1>10. /\ Cardinality(A) \in Nat /\ Cardinality(B) \in Nat /\ Cardinality(O) \in Nat
         /\ Cardinality(Buckets) \in Nat /\ Cardinality(A \cup B) \in Nat
    BY <1>1, <1>7, FS_CardinalityType
  <1>11. verdict.count = Cardinality(A) + Cardinality(B)
    BY ResultParts DEF A, B
  <1>12. verdict.count \in Nat /\ verdict.count <= Cardinality(O)
    BY <1>7, <1>8, <1>9, <1>10, <1>11
  <1> QED  BY <1>7, <1>10, <1>12 DEF O

LEMMA SpanIsLength ==
  ASSUME NEW start \in Int, at \in Int
  PROVE  Span(start) = IF at - start >= MinSpan THEN at - start ELSE MinSpan
  <1> DEFINE S == {MinSpan, at - start}
             d == IF at - start >= MinSpan THEN at - start ELSE MinSpan
  <1>1. d \in S /\ \A x \in S : d >= x
    BY AnalyzerAssumption
  <1>2. \A x \in S : x >= d => x = d
    BY AnalyzerAssumption
  <1> HIDE DEF d
  <1>3. Max(S) = d
    BY <1>1, <1>2 DEF Max
  <1> QED  BY <1>3 DEF Span, d

(* Without a result nothing is claimed. *)
LEMMA NoResult ==
  ASSUME AnalyzerInv, ~ (stage4 = "done" /\ gens # <<>>)
  PROVE  /\ verdict.status \in {"none", "insufficient_data"}
         /\ verdict.start = 0 /\ verdict.span = 0 /\ verdict.bytes = 0 /\ verdict.count = 0
  <1>1. verdict \in {NoVerdict, [NoVerdict EXCEPT !.status = "insufficient_data"]}
    BY DEF AnalyzerInv, ScanInv, Evaluate
  <1> QED  BY <1>1 DEF NoVerdict

LEMMA InvImpliesAnalyzerTypes == AnalyzerInv => AnalyzerTypeOK
  <1> SUFFICES ASSUME AnalyzerInv PROVE AnalyzerTypeOK
    OBVIOUS
  <1>1. TypeOK
    BY InvsImplyTypes DEF AnalyzerInv
  <1>2. /\ created \in [Ids -> 0..MaxTime \cup {NotYet}] /\ image \in [Ids -> Images]
        /\ removed \subseteq {id \in Ids : created[id] # NotYet}
    BY DEF AnalyzerInv, DeployInv
  <1>3. /\ stage4 \in {"idle", "containers", "hourly", "raw", "done"} /\ at \in 0..now
        /\ gens \in Seq(Generation) /\ hours \subseteq HourRow
    BY DEF AnalyzerInv, ScanInv, GensInv, HoursInv
  <1>4. Window \in Nat /\ MaxTime \in Nat
    BY ConstantsAssumption, AnalyzerAssumption
  <1>5. /\ verdict.status \in {"none", "insufficient_data", "active", "zombie"}
        /\ verdict.start \in -Window..MaxTime
        /\ \/ verdict.span \in MinSpan..Window
           \/ verdict.span = 0 /\ verdict.status \in {"none", "insufficient_data"}
        /\ verdict.bytes \in Nat
        /\ verdict.count \in 0..Cardinality(Buckets)
    <2>1. CASE ~ (stage4 = "done" /\ gens # <<>>)
      <3>1. IsFiniteSet(Buckets)
        BY ConstantsAssumption, HoursAreOrdered, FS_Interval DEF Buckets, BucketOf
      <3>2. Cardinality(Buckets) \in Nat
        BY <3>1, FS_CardinalityType
      <3> QED  BY <1>4, <2>1, <3>2, NoResult
    <2>2. CASE stage4 = "done" /\ gens # <<>>
      <3>1. verdict.status \in {"insufficient_data", "zombie", "active"}
        BY <2>2, ResultParts
      <3>2. verdict.start \in -Window..MaxTime /\ at \in Nat /\ at - Window <= verdict.start
        BY <1>4, <2>2, ResultParts
      <3>3. verdict.span \in MinSpan..Window
        <4>1. verdict.span = IF at - verdict.start >= MinSpan THEN at - verdict.start ELSE MinSpan
          BY <1>4, <2>2, <3>2, ResultParts, SpanIsLength
        <4> QED  BY <1>4, <3>2, <4>1, AnalyzerAssumption
      <3>4. verdict.bytes \in Nat
        BY <2>2, ResultParts, BytesAreNumbers
      <3>5. verdict.count \in 0..Cardinality(Buckets)
        BY <2>2, HoursAreDifferent
      <3> QED  BY <3>1, <3>2, <3>3, <3>4, <3>5
    <2> QED  BY <2>1, <2>2
  <1> QED  BY <1>1, <1>2, <1>3, <1>5 DEF AnalyzerTypeOK

(* The analyzer reads and returns what it should, its sums and counts of   *)
(* hours within their bounds.                                              *)
THEOREM AnalyzerTypes == AnalyzerSpec => []AnalyzerTypeOK
  BY ScansReadRows, InvImpliesAnalyzerTypes, PTL

LEMMA InvImpliesHoursCountedOnce == AnalyzerInv => HoursCountedOnce
  <1> SUFFICES ASSUME AnalyzerInv PROVE HoursCountedOnce
    OBVIOUS
  <1>1. CASE ~ (stage4 = "done" /\ gens # <<>>)
    <2> DEFINE O == {b \in Buckets : \E id \in Ids :
                        AllIn(id, b) # {} /\ (b + 1) * HourLen > verdict.start}
    <2>1. IsFiniteSet(Buckets)
      BY ConstantsAssumption, HoursAreOrdered, FS_Interval DEF Buckets, BucketOf
    <2>2. IsFiniteSet(O)
      BY <2>1, FS_Subset
    <2>3. Cardinality(O) \in Nat
      BY <2>2, FS_CardinalityType
    <2>4. verdict.count = 0
      BY <1>1, NoResult
    <2> HIDE DEF O
    <2>5. verdict.count <= Cardinality(O)
      BY <2>3, <2>4
    <2> QED  BY <2>5 DEF O, HoursCountedOnce
  <1>2. CASE stage4 = "done" /\ gens # <<>>
    BY <1>2, HoursAreDifferent DEF HoursCountedOnce
  <1> QED  BY <1>1, <1>2

LEMMA InvImpliesOneImage == AnalyzerInv => ObservesOneImage
  <1> SUFFICES ASSUME AnalyzerInv, stage4 = "done", gens # <<>>,
                      gens[1].image # NoImage, verdict.start > at - Window,
                      NEW j \in DOMAIN gens
               PROVE  IF gens[j].created >= verdict.start
                      THEN gens[j].image = gens[1].image
                      ELSE gens[j].image = gens[1].image =>
                            \E i \in 1..j : /\ ~ (gens[i].created >= verdict.start)
                                            /\ ~ (gens[i].image = gens[1].image)
    BY DEF ObservesOneImage
  <1>1. /\ gens \in Seq(Generation) /\ Len(gens) \in Nat /\ DOMAIN gens = 1..Len(gens)
        /\ \A i, k \in DOMAIN gens : i < k => gens[i].created > gens[k].created
    BY DEF AnalyzerInv, ScanInv, GensInv
  <1>2. \A i \in DOMAIN gens : gens[i].created \in Int
    <2>1. ASSUME NEW i \in DOMAIN gens PROVE gens[i] \in Generation
      BY <1>1
    <2> QED  BY <2>1, ConstantsAssumption DEF Generation
  <1>3. PICK k \in DOMAIN gens :
            /\ k = ImageRun(gens) /\ k \in Nat
            /\ \A i \in 1..k : gens[i].image = gens[1].image
            /\ k + 1 \in DOMAIN gens => gens[k + 1].image # gens[1].image
    BY RunOfImages DEF AnalyzerInv, ScanInv
  <1>4. verdict.start = gens[k].created
    <2>1. verdict.start = ClampedStart(gens)
      BY ResultParts
    <2>2. verdict.start \in {gens[k].created, at - Window}
      BY <1>3, <2>1 DEF ClampedStart
    <2>3. at - Window \in Int /\ verdict.start \in Int
      BY ResultParts, AnalyzerAssumption
    <2> QED  BY <2>2, <2>3
  <1>5. j \in Nat /\ k \in Nat
    BY <1>1
  <1>6. CASE j <= k
    <2>1. gens[j].created >= gens[k].created
      BY <1>1, <1>2, <1>5, <1>6
    <2>2. j \in 1..k
      BY <1>1, <1>5, <1>6
    <2> QED  BY <1>3, <1>4, <2>1, <2>2
  <1>7. CASE j > k
    <2>1. k + 1 \in DOMAIN gens /\ k + 1 \in 1..j /\ k < k + 1 /\ k < j
      BY <1>1, <1>3, <1>5, <1>7
    <2>2. ~ (gens[k + 1].created >= gens[k].created) /\ ~ (gens[j].created >= gens[k].created)
      BY <1>1, <1>2, <1>3, <2>1
    <2>3. gens[k + 1].image # gens[1].image
      BY <1>3, <2>1
    <2> QED  BY <1>4, <2>1, <2>2, <2>3
  <1> QED  BY <1>5, <1>6, <1>7

(* The observation starts with the current image (analyzer.go:225-239).    *)
THEOREM OneImageIsObserved == AnalyzerSpec => []ObservesOneImage
  BY ScansReadRows, InvImpliesOneImage, PTL

-------------------------------------------------------------------------------
(* Hours and bytes. *)

HourAt(id, i) == BucketOf(history[id][i].at)

LEMMA SampleFacts ==
  ASSUME AnalyzerInv, NEW id \in Ids, NEW i \in DOMAIN history[id]
  PROVE  /\ i \in Nat \ {0} /\ history[id][i].at \in Nat
         /\ HourAt(id, i) \in Nat /\ HourAt(id, i) \in Buckets
         /\ history[id][i].moved \in Nat /\ moved[id] \in Nat
         /\ history[id][i].moved <= moved[id]
         /\ resets = 0 => history[id][i].rx = history[id][i].moved
  <1> DEFINE s == history[id][i]
  <1>1. s \in Sample /\ i \in Nat \ {0} /\ moved[id] \in Nat
    BY DEF AnalyzerInv, HourlyInv, StoreInv
  <1>2. s.moved <= moved[id] /\ (resets = 0 => s.rx = s.moved)
    BY DEF AnalyzerInv, ExactInv, MovedInv, Between, Present
  <1>3. s.at \in 0..MaxTime /\ s.moved \in Nat
    BY <1>1 DEF Sample
  <1> HIDE DEF s
  <1>4. BucketOf(s.at) \in Buckets /\ s.at \in Nat /\ BucketOf(s.at) \in Nat
    BY <1>3, HourExists, ConstantsAssumption, HoursAreOrdered
  <1> QED  BY <1>1, <1>2, <1>3, <1>4 DEF s, HourAt

LEMMA SampleOrder ==
  ASSUME AnalyzerInv, NEW id \in Ids, NEW i \in DOMAIN history[id], NEW j \in DOMAIN history[id],
         i <= j
  PROVE  history[id][i].moved <= history[id][j].moved /\ HourAt(id, i) <= HourAt(id, j)
  <1>1. CASE i = j
    BY <1>1, SampleFacts
  <1>2. CASE i < j
    <2>1. history[id][i].at < history[id][j].at
      BY <1>2 DEF AnalyzerInv, HourlyInv, StoreInv
    <2>2. history[id][i].moved <= history[id][j].moved
      BY <1>2 DEF AnalyzerInv, ExactInv, MovedInv, Between
    <2>3. history[id][i].at \in Nat /\ history[id][j].at \in Nat
      BY SampleFacts
    <2>4. HourAt(id, i) <= HourAt(id, j)
      BY <2>1, <2>3, HoursAreOrdered DEF HourAt
    <2> QED  BY <2>2, <2>4
  <1>3. i \in Nat /\ j \in Nat
    BY SampleFacts
  <1> QED  BY <1>1, <1>2, <1>3

(* What a container had moved by the end of an hour, as its samples say.   *)
Upto(id, b) == {i \in DOMAIN history[id] : HourAt(id, i) <= b}
Reached(id, b) == Max({0} \cup {history[id][i].moved : i \in Upto(id, b)})

LEMMA ReachedIsGreatest ==
  ASSUME AnalyzerInv, NEW id \in Ids, NEW b
  PROVE  /\ Reached(id, b) \in Nat
         /\ \A i \in Upto(id, b) : history[id][i].moved <= Reached(id, b)
         /\ \/ Reached(id, b) = 0
            \/ \E i \in Upto(id, b) : Reached(id, b) = history[id][i].moved
  <1> DEFINE S == {0} \cup {history[id][i].moved : i \in Upto(id, b)}
  <1>1. moved[id] \in Nat
    BY DEF AnalyzerInv, HourlyInv, StoreInv
  <1>2. \A i \in Upto(id, b) : history[id][i].moved \in Nat /\ history[id][i].moved <= moved[id]
    BY SampleFacts DEF Upto
  <1>3. S \in SUBSET Nat /\ S # {} /\ \A x \in S : x <= moved[id]
    BY <1>1, <1>2
  <1>4. Max(S) \in S /\ \A x \in S : Max(S) >= x
    <2> HIDE DEF S
    <2> QED  BY <1>1, <1>3, GreatestExists
  <1>5. PICK n : n = Max(S)
    OBVIOUS
  <1>6. n \in S /\ n \in Nat /\ \A x \in S : n >= x
    <2> HIDE DEF S
    <2> QED  BY <1>3, <1>4, <1>5
  <1>7. /\ \A i \in Upto(id, b) : history[id][i].moved <= n
        /\ n = 0 \/ \E i \in Upto(id, b) : n = history[id][i].moved
    BY <1>2, <1>6
  <1>8. Reached(id, b) = n
    BY <1>5 DEF Reached
  <1> QED  BY <1>6, <1>7, <1>8

LEMMA ReachedBounds ==
  ASSUME AnalyzerInv, NEW id \in Ids, NEW b, NEW n \in Nat,
         \A i \in Upto(id, b) : history[id][i].moved <= n
  PROVE  Reached(id, b) <= n
  BY ReachedIsGreatest

LEMMA ReachedGrows ==
  ASSUME AnalyzerInv, NEW id \in Ids, NEW b \in Int, NEW d \in Int, b <= d
  PROVE  Reached(id, b) <= Reached(id, d)
  <1>1. Upto(id, b) \subseteq Upto(id, d)
    BY SampleFacts DEF Upto
  <1>2. \A i \in Upto(id, b) : history[id][i].moved <= Reached(id, d)
    BY <1>1, ReachedIsGreatest
  <1>3. Reached(id, d) \in Nat
    BY ReachedIsGreatest
  <1> QED  BY <1>2, <1>3, ReachedBounds

(* A row counts what the container moved in the hour, or less of it when   *)
(* it misses samples; a torn one may count more.                           *)
LEMMA RowIsStep ==
  ASSUME AnalyzerInv, NEW h \in CountedRows, resets = 0, dropped[h.id] = 0
  PROVE  /\ ~ h.torn => h.delta <= Reached(h.id, h.bucket) - Reached(h.id, h.bucket - 1)
         /\ h.count = Cardinality(AllIn(h.id, h.bucket)) =>
                h.delta >= Reached(h.id, h.bucket) - Reached(h.id, h.bucket - 1)
  <1>1. PICK id, b : id = h.id /\ b = h.bucket
    OBVIOUS
  <1>2. /\ id \in Ids /\ b \in Nat /\ h.delta \in Nat /\ h.count \in Nat \ {0}
        /\ RowExact(id, b, h) /\ AllIn(id, b) # {}
    <2>1. \A x \in Buckets : x \in Nat
      BY DEF Buckets
    <2> QED  BY <1>1, <2>1, CountedIsRow
  <1>3. StoreInv /\ Complete(id, b)
    BY <1>1 DEF Complete, AnalyzerInv, HourlyInv
  <1>4. PICK first \in AllIn(id, b), most \in AllIn(id, b) :
            /\ first = Min(AllIn(id, b)) /\ first \in Nat \ {0} /\ most \in Nat
            /\ \A i \in AllIn(id, b) : first <= i
            /\ first <= most /\ AllIn(id, b) = first..most
    BY <1>2, <1>3, HourIsInterval
  <1>5. PICK final \in AllIn(id, b) :
            /\ final = first + h.count - 1
            /\ h.delta = TrueMoved(id, IF h.torn THEN 1 ELSE first, final)
    BY <1>2, <1>3, <1>4 DEF RowExact, Told
  <1> DEFINE m(i) == history[id][i].moved
             prev == IF first = 1 THEN 0 ELSE m(first - 1)
             before == Reached(id, b - 1)
             after == Reached(id, b)
  <1>6. \A i \in AllIn(id, b) : i \in DOMAIN history[id] /\ HourAt(id, i) = b
    BY DEF AllIn, HourAt
  <1>7. DOMAIN history[id] = 1..Len(history[id]) /\ Len(history[id]) \in Nat
    BY <1>2, <1>3 DEF StoreInv
  <1>8. first # 1 => first - 1 \in DOMAIN history[id] /\ first - 1 < first
    BY <1>4, <1>6, <1>7
  <1>9. /\ m(final) \in Nat /\ prev \in Nat
        /\ h.delta = m(final) - (IF h.torn THEN 0 ELSE prev)
        /\ before \in Nat /\ after \in Nat
    <2>1. m(final) \in Nat
      BY <1>2, <1>6, SampleFacts
    <2>2. prev \in Nat
      BY <1>2, <1>8, SampleFacts
    <2>3. h.delta = m(final) - (IF h.torn THEN 0 ELSE prev)
      BY <1>5 DEF TrueMoved
    <2> QED  BY <1>2, <2>1, <2>2, <2>3, ReachedIsGreatest
  <1>10. m(final) <= after
    <2>1. final \in Upto(id, b)
      BY <1>2, <1>6 DEF Upto
    <2> QED  BY <1>2, <2>1, ReachedIsGreatest
  <1>11. before <= prev
    <2>1. ASSUME NEW i \in Upto(id, b - 1) PROVE m(i) <= prev
      <3>1. i \in DOMAIN history[id] /\ HourAt(id, i) <= b - 1 /\ HourAt(id, i) \in Nat /\ i \in Nat \ {0}
        BY <1>2, SampleFacts DEF Upto
      <3>2. i < first
        <4>1. SUFFICES ASSUME first <= i PROVE FALSE
          BY <1>4, <3>1
        <4>2. HourAt(id, first) <= HourAt(id, i) /\ HourAt(id, first) = b
          BY <1>2, <1>4, <1>6, <3>1, <4>1, SampleOrder
        <4> QED  BY <1>2, <3>1, <4>2
      <3>3. first # 1 /\ i <= first - 1
        BY <1>4, <3>1, <3>2
      <3> QED  BY <1>2, <1>8, <3>1, <3>3, SampleOrder
    <2> HIDE DEF m, prev
    <2> QED  BY <1>2, <1>9, <2>1, ReachedBounds DEF m
  <1>12. ASSUME h.count = Cardinality(AllIn(id, b))
         PROVE  after <= m(final) /\ prev <= before
    <2>1. final = most
      <3>1. Cardinality(first..most) = most - first + 1
        BY <1>4, FS_Interval
      <3>2. h.count = most - first + 1
        BY <1>4, <1>12, <3>1
      <3>3. first \in Nat /\ most \in Nat /\ final = first + (most - first + 1) - 1
        BY <1>4, <1>5, <3>2
      <3> QED  BY <3>3
    <2>2. ASSUME NEW i \in Upto(id, b) PROVE m(i) <= m(final)
      <3>1. i \in DOMAIN history[id] /\ HourAt(id, i) <= b /\ HourAt(id, i) \in Nat /\ i \in Nat \ {0}
        BY <1>2, SampleFacts DEF Upto
      <3>2. i <= final
        <4>1. SUFFICES ASSUME final <= i, final # i PROVE FALSE
          BY <1>4, <2>1, <3>1
        <4>2. HourAt(id, final) <= HourAt(id, i) /\ HourAt(id, final) = b
          BY <1>2, <1>6, <3>1, <4>1, SampleOrder
        <4>3. HourAt(id, i) = b
          BY <1>2, <3>1, <4>2
        <4>4. i \in AllIn(id, b)
          BY <3>1, <4>3 DEF AllIn, HourAt
        <4> QED  BY <1>4, <2>1, <3>1, <4>1, <4>4
      <3> QED  BY <1>2, <1>6, <3>1, <3>2, SampleOrder
    <2>3. after <= m(final)
      <3> HIDE DEF m
      <3> QED  BY <1>2, <1>9, <2>2, ReachedBounds DEF m
    <2>4. CASE first = 1
      BY <1>9, <2>3, <2>4
    <2>5. CASE first # 1
      <3>1. HourAt(id, first - 1) <= b /\ HourAt(id, first - 1) # b
        <4>1. HourAt(id, first - 1) <= HourAt(id, first)
          BY <1>2, <1>4, <1>6, <1>8, <2>5, SampleOrder
        <4>2. first - 1 \notin AllIn(id, b)
          BY <1>4
        <4> QED  BY <1>4, <1>6, <1>8, <2>5, <4>1, <4>2 DEF AllIn, HourAt
      <3>2. HourAt(id, first - 1) \in Nat
        BY <1>2, <1>8, <2>5, SampleFacts
      <3>3. first - 1 \in Upto(id, b - 1)
        BY <1>2, <1>8, <2>5, <3>1, <3>2 DEF Upto
      <3>4. m(first - 1) <= before
        BY <1>2, <3>3, ReachedIsGreatest
      <3> QED  BY <2>3, <2>5, <3>4
    <2> QED  BY <2>4, <2>5
  <1> HIDE DEF m, prev, before, after
  <1>13. ~ h.torn => h.delta <= after - before
    BY <1>9, <1>10, <1>11
  <1>14. h.count = Cardinality(AllIn(id, b)) => h.delta >= after - before
    BY <1>9, <1>12
  <1> QED  BY <1>1, <1>13, <1>14 DEF before, after

(* The rows of one container count no more than it had moved by the end of *)
(* the past hours, unless one is torn.                                     *)
LEMMA RowsAreSteps ==
  ASSUME AnalyzerInv, at \in Nat, NEW c \in Ids, resets = 0, dropped[c] = 0,
         \A h \in CountedRows : h.id = c /\ ~ h.torn
  PROVE  CountedBytes <= Reached(c, BucketOf(at) - 1)
  <1> DEFINE f == [h \in CountedRows |-> h.delta]
             key == [h \in CountedRows |-> h.bucket]
             final == BucketOf(at) - 1
             g == [b \in -1..final |-> Reached(c, b)]
  <1>1. final \in Int /\ 0 <= final + 1 /\ BucketOf(at) \in Nat
    BY HoursAreOrdered
  <1>2. IsFiniteSet(CountedRows) /\ CountedBytes = SumFunctionOnSet(f, CountedRows)
    BY BytesAreNumbers
  <1>3. \A b \in -1..final : g[b] = Reached(c, b) /\ g[b] \in Nat
    BY ReachedIsGreatest
  <1>4. \A b \in 0..final : g[b - 1] <= g[b]
    <2> SUFFICES ASSUME NEW b \in 0..final PROVE g[b - 1] <= g[b]
      OBVIOUS
    <2>1. b \in -1..final /\ b - 1 \in -1..final /\ b \in Int /\ b - 1 \in Int /\ b - 1 <= b
      BY <1>1
    <2>2. Reached(c, b - 1) <= Reached(c, b)
      BY <2>1, ReachedGrows
    <2> QED  BY <2>1, <2>2
  <1>5. ASSUME NEW h \in CountedRows
        PROVE  /\ key[h] \in 0..final
               /\ f[h] \in Int /\ f[h] <= g[key[h]] - g[key[h] - 1]
    <2>1. h.bucket \in Buckets /\ h.bucket < BucketOf(at) /\ h.delta \in Nat /\ h.id = c
          /\ ~ h.torn
      BY CountedIsRow
    <2>2. h.bucket \in 0..final /\ h.bucket \in -1..final /\ h.bucket - 1 \in -1..final
      BY <1>1, <2>1 DEF Buckets
    <2>3. h.delta <= Reached(c, h.bucket) - Reached(c, h.bucket - 1)
      BY <2>1, RowIsStep
    <2> QED  BY <2>1, <2>2, <2>3
  <1>6. ASSUME NEW h \in CountedRows, NEW o \in CountedRows, key[h] = key[o]
        PROVE  h = o
    <2>1. h \in hours /\ o \in hours /\ h.id = o.id /\ h.bucket = o.bucket
      BY <1>6, CountedIsRow
    <2> QED  BY <2>1 DEF AnalyzerInv, ScanInv, HoursInv
  <1> HIDE DEF f, g, key, final
  <1>7. WithinSteps(f, g, CountedRows, key, 0, final)
    <2>1. 0 - 1 = -1
      OBVIOUS
    <2> QED  BY <1>1, <1>2, <1>3, <1>4, <1>5, <1>6, <2>1 DEF WithinSteps
  <1>8. SumFunctionOnSet(f, CountedRows) <= g[final] - g[0 - 1]
    BY <1>7, SumOfSteps
  <1>9. g[final] = Reached(c, final) /\ g[final] \in Nat /\ g[-1] \in Nat
    BY <1>1, <1>3
  <1>10. CountedBytes \in Nat
    BY BytesAreNumbers
  <1>11. CountedBytes <= Reached(c, final)
    BY <1>2, <1>8, <1>9, <1>10
  <1> QED  BY <1>11 DEF final

(* What the raw rows of one container say has moved since. *)
LEMMA RecentIsLater ==
  ASSUME AnalyzerInv, at \in Nat, NEW c \in Ids, resets = 0,
         \A r \in RecentRows : \E i \in DOMAIN history[c] : r = RawRow(c, i)
  PROVE  RecentBytes <= moved[c] - Reached(c, BucketOf(at) - 1)
  <1> DEFINE C == {r.rx : r \in RecentRows}
             past == Reached(c, BucketOf(at) - 1)
  <1>1. BucketOf(at) \in Nat /\ moved[c] \in Nat /\ past \in Nat
    <2>1. BucketOf(at) \in Nat
      BY HoursAreOrdered
    <2>2. past \in Nat
      BY ReachedIsGreatest
    <2>3. moved[c] \in Nat
      BY DEF AnalyzerInv, HourlyInv, StoreInv
    <2> QED  BY <2>1, <2>2, <2>3
  <1>2. past <= moved[c]
    <2>1. \A i \in Upto(c, BucketOf(at) - 1) : history[c][i].moved <= moved[c]
      BY SampleFacts DEF Upto
    <2> QED  BY <1>1, <2>1, ReachedBounds
  <1>3. ASSUME NEW r \in RecentRows
        PROVE  r.rx \in Nat /\ r.rx <= moved[c] /\ past <= r.rx
    <2>1. PICK i \in DOMAIN history[c] : r = RawRow(c, i)
      OBVIOUS
    <2>2. r.rx = history[c][i].rx /\ BucketOf(r.at) = HourAt(c, i)
      BY <2>1 DEF RawRow, HourAt
    <2>3. r.rx = history[c][i].moved /\ r.rx \in Nat /\ r.rx <= moved[c] /\ HourAt(c, i) \in Nat
      BY <2>2, SampleFacts
    <2>4. BucketOf(r.at) >= BucketOf(at)
      BY RecentIsSample
    <2>5. ASSUME NEW j \in Upto(c, BucketOf(at) - 1) PROVE history[c][j].moved <= r.rx
      <3>1. j \in DOMAIN history[c] /\ HourAt(c, j) <= BucketOf(at) - 1 /\ HourAt(c, j) \in Nat
            /\ i \in Nat /\ j \in Nat
        BY SampleFacts DEF Upto
      <3>2. j <= i
        <4>1. SUFFICES ASSUME i <= j PROVE FALSE
          BY <3>1
        <4>2. HourAt(c, i) <= HourAt(c, j)
          BY <3>1, <4>1, SampleOrder
        <4> QED  BY <1>1, <2>2, <2>3, <2>4, <3>1, <4>2
      <3> QED  BY <2>3, <3>1, <3>2, SampleOrder
    <2>6. past <= r.rx
      BY <2>3, <2>5, ReachedBounds
    <2> QED  BY <2>3, <2>6
  <1>4. C \in SUBSET (0..MaxMoved) /\ RecentBytes = Spread(C)
    BY BytesAreNumbers DEF RecentBytes
  <1>5. \A x \in C : x \in Nat /\ x <= moved[c] /\ past <= x
    BY <1>3
  <1> HIDE DEF C, past
  <1>6. CASE C = {}
    BY <1>1, <1>2, <1>4, <1>6 DEF Spread, past
  <1>7. CASE C # {}
    <2>1. PICK x \in C, y \in C : RecentBytes = x - y
      BY <1>4, <1>7, SpreadIsDifference, ConstantsAssumption
    <2>2. x - y <= moved[c] - past
      BY <1>1, <1>5
    <2> QED  BY <2>1, <2>2 DEF past
  <1> QED  BY <1>6, <1>7

(* A container with a row or a sample in the observation is sampled. *)
LEMMA ObservedIsSampled ==
  ASSUME AnalyzerInv, stage4 = "done", gens # <<>>
  PROVE  /\ \A h \in CountedRows : h.id \in Sampled
         /\ \A r \in RecentRows : \E id \in Sampled : \E i \in DOMAIN history[id] :
                r = RawRow(id, i)
  <1>1. verdict.start \in Int
    BY ResultParts
  <1>2. ASSUME NEW h \in CountedRows PROVE h.id \in Sampled
    <2>1. PICK id \in Ids, b \in Buckets : id = h.id /\ b = h.bucket
      BY CountedIsRow
    <2>2. b * HourLen >= verdict.start /\ AllIn(id, b) # {} /\ b \in Nat
      BY <2>1, CountedIsRow DEF Buckets
    <2>3. PICK i \in DOMAIN history[id] : HourAt(id, i) = b
      BY <2>2 DEF AllIn, HourAt
    <2>4. history[id][i].at \in Nat /\ b * HourLen <= history[id][i].at
      BY <2>3, SampleFacts, HourContains DEF HourAt
    <2>5. b * HourLen \in Int
      BY <2>2, ConstantsAssumption
    <2>6. history[id][i].at >= verdict.start
      <3> DEFINE p == b * HourLen
      <3>1. p \in Int /\ p >= verdict.start /\ p <= history[id][i].at
        BY <2>2, <2>4, <2>5
      <3> HIDE DEF p
      <3> QED  BY <1>1, <2>4, <3>1
    <2> QED  BY <2>1, <2>6 DEF Sampled
  <1>3. ASSUME NEW r \in RecentRows
        PROVE  \E id \in Sampled : \E i \in DOMAIN history[id] : r = RawRow(id, i)
    <2>1. PICK id \in Ids : \E i \in DOMAIN history[id] :
            r = RawRow(id, i) /\ r.at = history[id][i].at /\ r.at >= verdict.start
      BY RecentIsSample
    <2>2. id \in Sampled
      BY <2>1 DEF Sampled
    <2> QED  BY <2>1, <2>2
  <1> QED  BY <1>2, <1>3

LEMMA InvImpliesNoPhantomBytes == AnalyzerInv => NoPhantomBytes
  <1> SUFFICES ASSUME AnalyzerInv, Observed, Cardinality(Sampled) <= 1,
                      \A h \in hours : ~ h.torn, resets = 0, \A id \in Ids : dropped[id] = 0
               PROVE  verdict.bytes <= Total(Sampled)
    BY DEF NoPhantomBytes
  <1>1. stage4 = "done" /\ gens # <<>>
    BY NoResult DEF Observed
  <1>2. IsFiniteSet(Sampled) /\ Sampled \subseteq Ids
    BY AnalyzerAssumption, FS_Subset DEF Sampled
  <1>3. at \in Nat /\ verdict.bytes = CountedBytes + RecentBytes
    BY <1>1, ResultParts
  <1>4. CASE Sampled = {}
    <2>1. CountedRows = {} /\ RecentRows = {}
      BY <1>1, <1>4, ObservedIsSampled
    <2>2. CountedBytes = 0
      BY <2>1, BytesAreNumbers, SumEmpty
    <2>3. RecentBytes = 0
      BY <2>1 DEF RecentBytes, Spread
    <2>4. Total(Sampled) = 0
      BY <1>4, SumEmpty DEF Total
    <2> QED  BY <1>3, <2>2, <2>3, <2>4
  <1>5. CASE Sampled # {}
    <2>1. PICK c \in Sampled : Sampled = {c}
      <3>1. PICK c \in Sampled : TRUE
        BY <1>5
      <3>2. IsFiniteSet(Sampled \ {c}) /\ Cardinality(Sampled \ {c}) = Cardinality(Sampled) - 1
        BY <1>2, FS_RemoveElement
      <3>3. Cardinality(Sampled) \in Nat /\ Cardinality(Sampled \ {c}) \in Nat
        BY <1>2, <3>2, FS_CardinalityType
      <3>4. Cardinality(Sampled \ {c}) = 0
        BY <3>2, <3>3
      <3>5. Sampled \ {c} = {}
        BY <3>2, <3>4, FS_EmptySet
      <3> QED  BY <3>1, <3>5
    <2>2. c \in Ids /\ dropped[c] = 0
      BY <1>2
    <2>3. CountedBytes <= Reached(c, BucketOf(at) - 1)
      <3>1. \A h \in CountedRows : h.id = c /\ ~ h.torn
        BY <1>1, <2>1, ObservedIsSampled DEF CountedRows
      <3> QED  BY <1>3, <2>2, <3>1, RowsAreSteps
    <2>4. RecentBytes <= moved[c] - Reached(c, BucketOf(at) - 1)
      <3>1. \A r \in RecentRows : \E i \in DOMAIN history[c] : r = RawRow(c, i)
        BY <1>1, <2>1, ObservedIsSampled
      <3> QED  BY <1>3, <2>2, <3>1, RecentIsLater
    <2>5. Total(Sampled) = moved[c]
      <3>1. moved[c] \in Int /\ Sampled = {} \cup {c} /\ c \notin {}
        BY <2>1, <2>2 DEF AnalyzerInv, HourlyInv, StoreInv
      <3>2. SumFunctionOnSet(moved, {} \cup {c}) = moved[c] + SumFunctionOnSet(moved, {})
        BY <3>1, FS_EmptySet, SumAdd
      <3> QED  BY <3>1, <3>2, SumEmpty DEF Total
    <2>6. /\ CountedBytes \in Nat /\ RecentBytes \in Nat /\ moved[c] \in Nat
          /\ Reached(c, BucketOf(at) - 1) \in Nat
      BY <2>2, BytesAreNumbers, ReachedIsGreatest DEF AnalyzerInv, HourlyInv, StoreInv
    <2> QED  BY <1>3, <2>3, <2>4, <2>5, <2>6
  <1> QED  BY <1>4, <1>5

(* What is read of an hour counts once, in bytes and in samples: an hour   *)
(* is read from one table only (analyzer.go:78,141-142,169,241-262).  A    *)
(* torn row among those read is exempt: it may count the bytes of earlier  *)
(* hours again (aggregate.go:122-133).                                     *)
THEOREM NothingIsCountedTwice == AnalyzerSpec => []NothingCountedTwice
  <1>1. AnalyzerInv => NothingCountedTwice
    BY InvImpliesNoPhantomBytes, InvImpliesHoursCountedOnce DEF NothingCountedTwice
  <1> QED  BY <1>1, ScansReadRows, PTL

(* Later hours begin later. *)
LEMMA HoursBeginInOrder ==
  ASSUME NEW b \in Nat, NEW d \in Nat, b <= d
  PROVE  b * HourLen \in Nat /\ d * HourLen \in Nat /\ b * HourLen <= d * HourLen
  <1>1. PICK n \in Nat : d = b + n
    <2>1. d - b \in Nat /\ d = b + (d - b)
      OBVIOUS
    <2> QED  BY <2>1
  <1>2. HourLen \in Nat
    BY ConstantsAssumption
  <1>3. d * HourLen = b * HourLen + n * HourLen
    BY <1>1, <1>2
  <1>4. b * HourLen \in Nat /\ n * HourLen \in Nat
    BY <1>2
  <1> DEFINE p == b * HourLen  q == d * HourLen  r == n * HourLen
  <1>5. p \in Nat /\ r \in Nat /\ q = p + r
    BY <1>3, <1>4
  <1> HIDE DEF p, q, r
  <1>6. q \in Nat /\ p <= q
    BY <1>5
  <1> QED  BY <1>5, <1>6 DEF p, q

(* The bytes between two samples of past hours are in their rows.          *)
LEMMA PastIsCounted ==
  ASSUME AnalyzerInv, stage4 = "done", gens # <<>>, RowsComplete,
         resets = 0, NEW id \in Ids, dropped[id] = 0,
         NEW i \in DOMAIN history[id], NEW j \in DOMAIN history[id], i < j,
         HourAt(id, i) \in PastHours, HourAt(id, j) \in PastHours
  PROVE  history[id][j].moved - history[id][i].moved <= CountedBytes
  <1> DEFINE f == [h \in CountedRows |-> h.delta]
             key == [h \in CountedRows |-> h.bucket]
             first == HourAt(id, i)
             final == HourAt(id, j)
             g == [b \in first - 1..final |-> Reached(id, b)]
  <1>1. /\ first \in Nat /\ final \in Nat /\ first <= final
        /\ i \in Nat /\ j \in Nat /\ final \in Buckets
        /\ history[id][i].moved \in Nat /\ history[id][j].moved \in Nat
    BY SampleFacts, SampleOrder
  <1>2. /\ verdict.start \in Int /\ at \in Nat /\ BucketOf(at) \in Nat
    BY ResultParts, HoursAreOrdered
  <1>3. first * HourLen >= verdict.start /\ final < BucketOf(at)
    BY DEF PastHours
  <1>4. \A b \in first - 1..final : g[b] = Reached(id, b) /\ g[b] \in Nat
    BY ReachedIsGreatest
  <1>5. IsFiniteSet(CountedRows) /\ CountedBytes = SumFunctionOnSet(f, CountedRows)
        /\ CountedBytes \in Nat
    BY BytesAreNumbers
  <1>6. \A h \in CountedRows : f[h] = h.delta /\ key[h] = h.bucket
                               /\ f[h] \in Nat /\ key[h] \in Int
    BY CountedIsRow DEF Buckets
  <1> HIDE DEF f, key, first, final, g
  <1>7. ASSUME NEW b \in first..final
        PROVE  g[b] <= g[b - 1] \/ \E h \in CountedRows : key[h] = b /\ g[b] - g[b - 1] <= f[h]
    <2>1. b \in Nat /\ b - 1 \in first - 1..final /\ b \in first - 1..final /\ b <= final
          /\ first <= b
      BY <1>1
    <2>2. /\ g[b] = Reached(id, b) /\ g[b - 1] = Reached(id, b - 1)
          /\ g[b] \in Nat /\ g[b - 1] \in Nat
      BY <1>4, <2>1
    <2>3. CASE AllIn(id, b) = {}
      <3>1. ASSUME NEW k \in Upto(id, b) PROVE k \in Upto(id, b - 1)
        <4>1. k \in DOMAIN history[id] /\ HourAt(id, k) <= b /\ HourAt(id, k) \in Nat
          BY SampleFacts DEF Upto
        <4>2. HourAt(id, k) # b
          BY <2>3, <4>1 DEF AllIn, HourAt
        <4> QED  BY <2>1, <4>1, <4>2 DEF Upto
      <3>2. \A k \in Upto(id, b) : history[id][k].moved <= Reached(id, b - 1)
        BY <3>1, ReachedIsGreatest
      <3>3. Reached(id, b - 1) \in Nat
        BY ReachedIsGreatest
      <3>4. Reached(id, b) <= Reached(id, b - 1)
        BY <3>2, <3>3, ReachedBounds
      <3> QED  BY <2>2, <3>4
    <2>4. CASE AllIn(id, b) # {}
      <3>1. b \in PastHours
        <4>1. b \in Buckets
          <5>1. PICK m \in Nat : Buckets = 0..m
            BY ConstantsAssumption, HoursAreOrdered DEF Buckets, BucketOf
          <5> QED  BY <1>1, <2>1, <5>1
        <4>2. b < BucketOf(at)
          BY <1>1, <1>2, <1>3, <2>1
        <4>3. first * HourLen <= b * HourLen /\ first * HourLen \in Nat /\ b * HourLen \in Nat
          BY <1>1, <2>1, HoursBeginInOrder
        <4>4. b * HourLen >= verdict.start
          <5> DEFINE p == first * HourLen  q == b * HourLen
          <5>1. p \in Nat /\ q \in Nat /\ p <= q /\ p >= verdict.start
            BY <1>3, <4>3
          <5> HIDE DEF p, q
          <5>2. q >= verdict.start
            BY <1>2, <5>1
          <5> QED  BY <5>2 DEF q
        <4> QED  BY <4>1, <4>2, <4>4 DEF PastHours
      <3>2. PICK h \in hours : h.id = id /\ h.bucket = b /\ h.count = Cardinality(AllIn(id, b))
        BY <2>4, <3>1 DEF RowsComplete
      <3>3. h \in CountedRows
        BY <3>1, <3>2 DEF CountedRows, PastHours
      <3>4. h.delta >= Reached(id, b) - Reached(id, b - 1)
        BY <3>2, <3>3, RowIsStep
      <3>5. key[h] = b /\ f[h] = h.delta /\ f[h] \in Nat
        BY <1>6, <3>2, <3>3
      <3>6. g[b] - g[b - 1] <= f[h]
        BY <2>2, <3>4, <3>5
      <3> QED  BY <3>3, <3>5, <3>6
    <2> QED  BY <2>3, <2>4
  <1>8. CoversSteps(f, g, CountedRows, key, first, final)
    BY <1>1, <1>4, <1>5, <1>6, <1>7 DEF CoversSteps
  <1>9. g[final] - g[first - 1] <= CountedBytes
    BY <1>5, <1>8, SumCovers
  <1>10. history[id][j].moved <= g[final] /\ g[final] \in Nat
    <2>1. j \in Upto(id, final) /\ final \in first - 1..final
      BY <1>1 DEF Upto, final
    <2> QED  BY <1>4, <2>1, ReachedIsGreatest
  <1>11. g[first - 1] <= history[id][i].moved /\ g[first - 1] \in Nat
    <2>1. first - 1 \in first - 1..final
      BY <1>1
    <2>2. ASSUME NEW k \in Upto(id, first - 1) PROVE history[id][k].moved <= history[id][i].moved
      <3>1. k \in DOMAIN history[id] /\ HourAt(id, k) <= first - 1 /\ HourAt(id, k) \in Nat
            /\ k \in Nat
        BY SampleFacts DEF Upto
      <3>2. k <= i
        <4>1. SUFFICES ASSUME i <= k PROVE FALSE
          BY <1>1, <3>1
        <4>2. first <= HourAt(id, k)
          BY <3>1, <4>1, SampleOrder DEF first
        <4> QED  BY <1>1, <3>1, <4>2
      <3> QED  BY <3>1, <3>2, SampleOrder
    <2> QED  BY <1>1, <1>4, <2>1, <2>2, ReachedBounds
  <1>12. /\ history[id][i].moved \in Nat /\ history[id][j].moved \in Nat
         /\ CountedBytes \in Nat
    BY <1>1, <1>5
  <1> DEFINE mi == history[id][i].moved
             mj == history[id][j].moved
             low == g[first - 1]
             high == g[final]
  <1>13. /\ mi \in Nat /\ mj \in Nat /\ low \in Nat /\ high \in Nat /\ CountedBytes \in Nat
         /\ mj <= high /\ low <= mi /\ high - low <= CountedBytes
    BY <1>9, <1>10, <1>11, <1>12
  <1> HIDE DEF mi, mj, low, high
  <1>14. mj - mi <= CountedBytes
    BY <1>13
  <1> QED  BY <1>14 DEF mi, mj

(* Those between two samples of the current hour are in the raw rows.      *)
LEMMA CurrentIsCounted ==
  ASSUME AnalyzerInv, stage4 = "done", gens # <<>>,
         resets = 0, NEW id \in Ids, dropped[id] = 0,
         NEW i \in DOMAIN history[id], NEW j \in DOMAIN history[id],
         InCurrent(history[id][i]), InCurrent(history[id][j])
  PROVE  history[id][j].moved - history[id][i].moved <= RecentBytes
  <1> DEFINE C == {r.rx : r \in RecentRows}
  <1>1. ASSUME NEW k \in DOMAIN history[id], InCurrent(history[id][k])
        PROVE  history[id][k].moved \in C
    <2>1. k \in Raw(id)
      BY DEF Raw, AnalyzerInv, HourlyInv, StoreInv
    <2>2. BucketOf(history[id][k].at) >= BucketOf(at) /\ history[id][k].at >= verdict.start
      BY <1>1 DEF InCurrent
    <2>3. RawRow(id, k) \in RawSince(BucketOf(at))
      BY <2>1, <2>2 DEF RawSince
    <2>4. RawRow(id, k).at = history[id][k].at /\ RawRow(id, k).rx = history[id][k].rx
      BY DEF RawRow
    <2>5. RawRow(id, k) \in RecentRows
      BY <2>2, <2>3, <2>4 DEF RecentRows
    <2>6. history[id][k].rx \in C
      BY <2>4, <2>5
    <2> QED  BY <2>6, SampleFacts
  <1>2. C \in SUBSET (0..MaxMoved) /\ RecentBytes = Spread(C)
    BY BytesAreNumbers DEF RecentBytes
  <1>3. history[id][i].moved \in C /\ history[id][j].moved \in C
    BY <1>1
  <1> HIDE DEF C
  <1> QED  BY <1>2, <1>3, SpreadIsDifference, ConstantsAssumption

LEMMA InvImpliesZombieIsIdle == AnalyzerInv => ZombieIsIdle
  <1> SUFFICES ASSUME AnalyzerInv, verdict.status = "zombie", resets = 0,
                      \A id \in Ids : dropped[id] = 0, RowsComplete,
                      NEW id \in Ids, NEW i \in DOMAIN history[id], NEW j \in DOMAIN history[id],
                      i < j,
                      \/ InPast(history[id][i]) /\ InPast(history[id][j])
                      \/ InCurrent(history[id][i]) /\ InCurrent(history[id][j])
               PROVE  BelowThreshold(history[id][j].moved - history[id][i].moved, verdict.span)
    BY DEF ZombieIsIdle
  <1> DEFINE d == history[id][j].moved - history[id][i].moved
  <1>1. stage4 = "done" /\ gens # <<>>
    BY NoResult
  <1>2. verdict.bytes = CountedBytes + RecentBytes /\ BelowThreshold(verdict.bytes, verdict.span)
    BY <1>1, ResultParts
  <1>3. CountedBytes \in Nat /\ RecentBytes \in Nat
    BY BytesAreNumbers
  <1>4. d \in Nat
    <2>1. i \in Nat /\ j \in Nat /\ history[id][i].moved \in Nat /\ history[id][j].moved \in Nat
      BY SampleFacts
    <2>2. history[id][i].moved <= history[id][j].moved
      BY <2>1, SampleOrder
    <2> QED  BY <2>1, <2>2
  <1>5. d <= CountedBytes \/ d <= RecentBytes
    <2>1. CASE InPast(history[id][i]) /\ InPast(history[id][j])
      BY <1>1, <2>1, PastIsCounted DEF InPast, HourAt
    <2>2. CASE InCurrent(history[id][i]) /\ InCurrent(history[id][j])
      BY <1>1, <2>2, CurrentIsCounted
    <2> QED  BY <2>1, <2>2
  <1>6. Threshold * verdict.span \in Nat
    <2>1. verdict.span \in Nat
      BY InvImpliesAnalyzerTypes, AnalyzerAssumption DEF AnalyzerTypeOK
    <2> QED  BY <2>1, AnalyzerAssumption
  <1> DEFINE limit == Threshold * verdict.span
  <1> HIDE DEF d
  <1>7. verdict.bytes < limit
    BY <1>2 DEF BelowThreshold
  <1>8. limit \in Nat
    BY <1>6
  <1> HIDE DEF limit
  <1>9. d < limit
    BY <1>2, <1>3, <1>4, <1>5, <1>7, <1>8
  <1> QED  BY <1>9 DEF BelowThreshold, d, limit

(* "ZOMBIE: below ALL configured thresholds for the full observation       *)
(* window" (cmd/breaker/main.go:98): what a container of a zombie moved    *)
(* between two samples of the past hours, or two of the current one, stays *)
(* below the threshold (analyzer.go:133-187,241-300).  Torn rows can only  *)
(* add to the bytes of a service, and are not exempt.                      *)
THEOREM ZombiesAreIdle == AnalyzerSpec => []ZombieIsIdle
  BY ScansReadRows, InvImpliesZombieIsIdle, PTL
===============================================================================
