# Shipbreaker in TLA+

Shipbreaker watches the containers of a Docker host, samples their counters into a SQLite
database, and reports services that do nothing ("zombies").  This directory models the parts of
the program whose correctness depends on order: goroutines and channels, events that come late,
several writers of one table, a database cut short by failures, queries without a transaction,
logins that overlap, a shutdown with requests at work, and a browser whose requests overtake each
other.  TLC checks the models on small instances,
TLAPS proves every safety property of the passing runs for every instance; what is only
model-checked is liveness.

`PROJECT.json` lists the components, runs, mutants, the map from definitions to source lines,
findings, hazards and theorems.

    tlc -workers 2 -config Watcher.cfg MCWatcher        # a run
    tlapm WatcherProofs.tla                             # a proof

## 1. Inventory

| Component | Source | State | Operations | What makes it correct |
|---|---|---|---|---|
| Stats streams | `internal/docker/watcher.go` 187-270 | maps `streamCancel`, `statsCache`, `prevRead`, one goroutine and context per container | start, stop, resync's stops, decode, publish, deferred delete | no goroutine leaks, no dead registration, no frame without a goroutine that will delete it |
| Polling loop | `watcher.go` 89-182 | channels of capacity one, ticker, `pollRunning`, done channels | `ForcePoll`, `SetInterval`, ticks, `runPoll`, shutdown | one poll at a time, no double close, no forgotten caller, last interval wins, loop ends |
| Events and rows | `watcher.go` 274-490, `repository.go`, `retention.go` 79-87 | the status of each container row, the position in the event stream | `handleEvent`, reconnection, `resync`, `poll`, orphan deletion | rows and streams settle to what Docker runs; nothing alive is marked removed |
| Sampling | `stats.go`, `watcher.go` 292-363 | `prevRead`, the frame of the poll before | CPU share, network and disk totals, one sample per poll | a sample's interval is real, nothing is sampled twice, bytes have moved |
| Hourly store | `aggregate.go`, `retention.go`, `main.go` 243-266 | tables `metrics_raw`, `metrics_hourly` | insert, aggregate hour by hour, delete by age | no bytes invented or lost, nothing deleted before it is aggregated |
| Analyzer | `internal/analyzer/analyzer.go` | none (four queries) | `Run`, `evaluateInMemory` | no hour counted twice, no phantom bytes, one image observed |
| Database start-up | `db.go`, `migrate.go`, `settings.go` | schema, `schema_migrations`, the session secret | `Open`, `migrate`, `GetOrCreateSecret` | recorded migrations are complete, one secret for ever, no wedged database |
| Dashboard | `ui/src/app.jsx`, `api.js`, `Login.jsx` | React state, requests in flight | polling effects, reload, login, live switch | the flags are right, nobody is left alone, the tab and the switch agree with the server in the end |
| HTTP API | `internal/api/server.go` | none of its own | handlers over the components above | - |
| Login limiter | `internal/api/auth.go` 98-163, `server.go` 157-195 | failures, lock and age per address | check, verify, record, evict | few failures per lock, no lock lost, every lock ends |
| Configuration | `config.go`, `main.go` 132-154 | none | defaults, file, environment, flags | never public without credentials, no interval that panics but those named below |
| Start and shutdown | `main.go` 156-293 | what is open, deferred and started; requests at work | `runServe` | nothing closed under a user that was not cancelled; it exits |
| Logging, static files, Dashboard components | `logger.go`, `static.go`, `ui/src/components` | none | - | - |

How they interact.  `breaker serve` opens the database (Startup), starts `Watcher.Run` and the
maintenance goroutine, and serves HTTP.  `Run` starts the streams of what runs, a goroutine for
events, and then selects among ticks, triggers and intervals; each poll runs in a goroutine of
its own, reads the frames the stream goroutines left in a map, and writes rows.  The maintenance
goroutine aggregates and deletes the samples every hour.  `GET /api/zombies` and `breaker scan`
run the analyzer on the same file.  The browser polls the API; `POST /api/refresh` is `ForcePoll`
and `POST /api/live` is `SetInterval`.  `SIGTERM` cancels one context all of them share.

Hard behaviour: three threads write container rows, each from what it read earlier; goroutines
go on after their map entry is gone; the event stream breaks and is replayed; one done channel
passes through three goroutines; retention deletes what the aggregator will read again; hours
turn between the analyzer's queries; two processes migrate one file; frames of an earlier run of a
container, or of a goroutine that is draining, meet in one sample; logins overlap between the
limiter's check and its record; the program closes its database while goroutines and requests are
still at work; answers overtake each other in the browser.  `PROJECT.json` lists each of these as a hazard at its line.

## 2. Modules

| Module | Models | Lines of code it stands for |
|---|---|---|
| `StreamRegistry` | abstract: what the stream maps promise the other threads | `watcher.go` 187-257 |
| `StatsStreams` | the goroutines and maps behind it; implements `StreamRegistry` | `watcher.go` 187-260, 314-324, 456-469 |
| `PollScheduler` | `Run`'s select loop, the poll goroutine and its callers | `watcher.go` 89-182 |
| `Watcher` | event thread, poller, rows and retention against Docker; uses `StreamRegistry` for the streams | `watcher.go` 114-128, 274-489; `repository.go`; `retention.go` 79-87 |
| `HourlyStore` | the two metric tables under inserts, maintenance and failures | `aggregate.go`, `retention.go`, `main.go` 243-266 |
| `Analyzer` | extends `HourlyStore` with deployments and the analyzer's queries | `analyzer.go` 73-365 |
| `Startup` | migrations and session secret, several processes | `migrate.go`, `settings.go`, `db.go`, `main.go` 181-224 |
| `Sampling` | frames, the cache and `prevRead`, and the sample a poll makes; uses `StreamRegistry` for the streams | `stats.go` 12-80, `watcher.go` 187-363, 413-489 |
| `LoginLimit` | the login handler and the limiter | `auth.go` 98-163, `server.go` 157-195 |
| `Serve` | extends `LoginLimit`: configuration, start-up, requests at work, shutdown | `config.go`, `main.go` 132-293, `server.go` 40-137, `watcher.go` 96-129, 164-172 |
| `Dashboard` | the browser client and an abstract server | `app.jsx` 8-175, `api.js`, `Login.jsx` |
| `MC<M>` | instances for TLC (symmetry where a run checks safety only) | |
| `Sums` | lemmas about finite sums, for the proofs | |
| `<M>Proofs` | theorems about `<M>`; `ServeProofs` also has those about `LoginLimit` and `Startup`, `HourlyStoreProofs` those about `Analyzer` | |

Composition: `StatsStreams` refines `StreamRegistry` (`RegistrySpec`, checked and proved), and
`Watcher` and `Sampling` instantiate `StreamRegistry` for their streams, every step of theirs being
one of the registry (`WatcherUsesRegistry`, `SamplingUsesRegistry`, proved), so what is shown of them
rests on the registry and not on the goroutines.  `Watcher` takes from `PollScheduler` that at most one
poll runs (`AtMostOnePoll`) and that polls keep coming (`PollsKeepComing`).  `Analyzer` extends
`HourlyStore`: samples, clock and maintenance interleave with its queries.  `Serve` extends
`LoginLimit`: each step of a login in the limiter is a step of its request in the program
(`ServeImplementsLimiter`, proved).  `Sampling` and `HourlyStore` meet in `Increment`, what the
aggregator makes of two samples.

### How states and actions correspond to the code

*StatsStreams.*  `pc[w]` is where a goroutine is in `runStatsStream`; an action runs from one
point where another thread may intervene to the next.  Map accesses under `w.mu` are one action;
`cancel()` is called after the unlock, so it is an action of its own (`Cancel`).  A frame is the
goroutine that decoded it.  `Resume` is the test of the context at the top of each loop.

*PollScheduler.*  `loop` is where `Run` is, one action per case of the select.  A request stands
for a `ForcePoll` call and its done channel, a setter for a `SetInterval` call and its duration.
`staleRunning` models the unlocked read of `pollRunning`: a data race, so the read returns
the old or the new value.  `seenBy`, `covered`, `joined` and `earlier` are history.

*Watcher.*  `thread` is where the event thread is, between two calls that touch Docker, the
database or the maps.  `log` is what Docker emitted; `since` is the last event handled, from
which a reconnection replays (that event included, as the daemon's `since` does).  `poller`,
`snapshot`, `pending` are the poll's own view.  `rows` is `containers.status`, "none" for no row.
A failing call is a disjunct guarded by `Fault`.
`steady` is chosen at the start and never changes: it marks the behaviours in which the daemon
does nothing the streams cannot follow, so that one run covers them and all others.

*HourlyStore.*  One counter stands for four that are treated alike.  `history` is every sample
ever taken, `dropped` how many of them were deleted: `metrics_raw` is the rest.  The aggregator takes
an hour in three steps, because inserts come between: `QueryPrevious` reads what the counters said
before the hour, of the containers that have samples of the hour then (`prevMap`), `QueryRows` reads
the hour's samples, and `CommitBucket` writes the rows.  `seen`, `torn` and `failed` are history: the
containers the first query was about, the rows of containers that were not among them, and the hours
whose aggregation failed in the current run.

*Analyzer.*  One action per query.  `at` is `now` as `Run` read it.  `Evaluate` is
`evaluateInMemory` without the CPU average: it picks the rows of the observation, and `Judge` makes
the verdict of them, over a span of a thousandth of a day (`MinSpan`) or more; a service is below its thresholds when its bytes are.  A float division by the window's days is a comparison of `bytes` with `Threshold * span`.

*Startup.*  One action per SQL statement.  A migration is the sequence of tables it creates.

*Sampling.*  A frame carries what the daemon reports (`host`, `cpu`, `rx`) and, for the properties
only, the truth behind it (`work`, `moved`, `detached`).  `decoded` holds the frames goroutines have
decoded and not yet cached: one of the open stream, and one of those of closed streams together.
A stream of a container that does not run delivers a blank frame.  A `resync` of one container is
one step here; `processContainer` reads the cache and writes `prevRead` in one, under `w.mu`, and
may fail before (`UpsertContainer`) or after (`InsertRawMetric`).

*LoginLimit.*  A request is between `allowed` and `record` while `login[r]` is an address.  Times
are what is left of a lock and how old an entry is, in ticks.  A count never falls when a lock
ends: the next failure locks again.  `late` is history.

*Serve.*  `main` is where `runServe` is, `deferred` its stack of deferred calls, `open` what they
close.  `loop` is the watcher's `Run`, of which only its start, its channel of intervals and its end
matter here.  A request is where its handler may wait: for its body, for a poll, for the channel,
for bcrypt.  An interval is a number of seconds, of any sign, and the layer it comes from;
`Duration` makes nanoseconds of it, in the width of the integers.

*Dashboard.*  One action per event of the browser: a click, a timer, an effect after a render, an
answer.  A `setState` batch is one action.  `Reply` is the server's moment, `Deliver` the browser's.

## 3. Runs

Every property of a passing run has a mutant: the same run with one definition replaced by the
change a plausible bug would make (operators commented "Mutation"), which TLC refutes.
Some properties are conjunctions of named parts that one run checks together: `EntriesMatchWorkers`
of `UnregisteredIsCancelled` and `RegisteredIsLive`, `DonesClosedOnce` of `DoneHeldOnce` and
`WaiterNotForgotten`, `EverybodyReturns` of `ForcePollReturns`, `SetIntervalReturns` and
`RunReturns`, `NothingCountedTwice` of `NoPhantomBytes` and `HoursCountedOnce`, `LimiterLetsGo` of
`LocksEnd` and `QuietIsForgotten`.  The types of `Analyzer` (those of `HourlyStore` with them) and of
`Sampling` are checked in their runs; those of the other modules are proved, and no run repeats them.

| Run | Checks | Bounds, and why they are enough |
|---|---|---|
| `streams` | `FramePublisherAlive EntriesMatchWorkers`, refinement `RegistrySpec`, `StoppedWorkerExits` | 2 containers, 2 goroutines: one draining and one open of the same container or of two; the proofs cover any number |
| `polls` | `AtMostOnePoll DonesClosedOnce OwnPollIsComplete LastSetWins EverybodyReturns PollsKeepComing` | 2 requests, 2 setters, 2 poll slots: one poll ending while the next begins, a full trigger channel; any 2 of these calls in one behaviour, begun in order (the proofs of the invariants have no bound) |
| `watcher` | `RemovedIsGone RevivedOnlyByStalePoll RowsSettle StreamsFollowDocker` | 1 container, 3 changes, 2 failures of any kind: containers meet only in the lists, and one of them suffices for a list to be stale |
| `hourly` | `CommittedRowsExact DeletedIsAggregated SamplesAreAggregated TornRowsAreMended` | 1 container (containers do not meet in the store), 3 hours of 2 ticks, one reset, 2 failures; the clock passes both retention times |
| `analyzer` | `AnalyzerTypeOK NothingCountedTwice ZombieIsIdle ObservesOneImage` | 3 containers, 2 hours, a window of one hour that slides over the first, one image and the empty one, 2 units of traffic; a constraint keeps two families of behaviours: one container sampled up to 4 times, or containers deployed and removed (A-B-A sequences) and none sampled, since images and bytes meet in no query |
| `startup` | `RecordedIsApplied SessionsStayValid EveryProcessRuns` | 2 servers, a scan, 2 failures; 3 secrets so that a fresh one is always left |
| `dashboard` | `FlagsMatchLoads NobodyLeftAlone SwitchTellsTruth TabCatchesUp ExpiredAsksForLogin` | 2 requests in flight (and those of a login, a reload and the live switch), 2 clicks; new data, an error, an expiry and clicks, 2 of them together (the proofs of the invariants have no bound) |
| `sampling` | `SamplingTypeOK RatesAreReal NoStretchTwice BytesHaveMoved` | 1 container (containers meet in no frame), 2 interfaces, host time up to 2, 2 units of traffic, 2 starts, ends or detached interfaces |
| `serve` | `CancelledBeforeClosed OnlyBadIntervalsCrash FewFailures LocksHold ServeExits LimiterLetsGo` | 2 requests, 1 address (addresses do not meet in the limiter), 2 attempts, a lock of 2 ticks, eviction after 2; layers that set, override, omit and spoil a setting, integers of 4 bits and 3 nanoseconds to the second, so that 2 seconds fit and 3 overflow; the proofs cover any |

Runs that TLC must find violated, each stating what a comment or document of the repository says
and the code does not do (details under "findings" in `PROJECT.json`):

| Run | Property | Trace |
|---|---|---|
| `watcher_unpause` | `RunningIsStreamed` | "pause" closes the stream, "unpause" opens none |
| `hourly_history` | `PastRowsKept` | a complete row is rewritten from what retention left of its samples |
| `analyzer_spread` | `ServiceBytesWereMoved` | two containers of one service: the difference of their counters is charged |

Other places where the models show the code doing less than one might expect, and how the
properties are stated because of them:

* A forced poll that meets a running one is answered at once (`watcher.go` 136-140);
  `OwnPollIsComplete` is therefore about polls that were not joined (`joined`).
* A container started between the start-up list and the event subscription has no stream until a
  resync; so has one that changes during an outage of the event stream, or is paused.
  `StreamsFollowDocker` is about a `steady` daemon.
* A poll whose list is older than a destruction revives the row, which then stays 'exited':
  `RevivedOnlyByStalePoll` says that nothing else does, and `RowsSettle` allows it.
* The retention runs although an hour's aggregation failed: the exception in `DeletedIsAggregated`.
* The aggregator's two queries for an hour are no transaction.  A container whose first sample of the
  hour is inserted between them has no entry in `prevMap` (`aggregate.go` 77-80, 122), so the row
  claims its whole counter; it is `torn`.  `CommittedRowsExact` bounds such a row by all that the
  container has moved, `NothingCountedTwice` and `PastRowsKept` are about the other rows, and
  `TornRowsAreMended` says that a later run makes the row again, unless retention comes first.
* Samples of an hour that has just ended, and bytes between the last sample of an hour and the first of
  the current one, are in no table the analyzer reads: the conditions of `ZombieIsIdle`.
* `breaker scan` migrates the database it is said to open read-only: in `Startup` scanners take
  the same steps as servers.
* A load answered before the session expired, delivered after a refusal, hides the login form and
  leaves polling off; so does a first request that fails with anything but 401 (`doubt` in
  `NobodyLeftAlone`).  An older snapshot may replace a newer one for a while (`TabCatchesUp`).
* The live mode outlives the page that switched it on, and two clicks in a hurry send two requests
  that may arrive in the other order: `SwitchTellsTruth` is about a switch that was alone and did
  not fail.
* A sample may begin before the last one ended, when a frame came late from a closed stream or a
  stream delivered a blank one and `prevRead` took it: `NoStretchTwice` says that nothing else
  makes it.
* When an interface is detached the total over interfaces falls, and the aggregator counts the
  rest of it as new; and a sample made of a late frame, whose smaller total looks like a reset,
  adds bytes again that the sample before has added.  In these two cases `BytesHaveMoved` bounds
  what is added by all the container has moved, in all others by what it has moved since the
  sample before.  The second came out of the attempt to prove it (see section 5).
* An interval of zero or less in the YAML file passes `Validate` and panics in the watcher, at the
  start or when the live mode is switched; so does one from the file or the environment that
  `time.Duration(n) * time.Second` makes negative or zero, such as 10000000000 (`main.go` 202,
  `server.go` 118).  `OnlyBadIntervalsCrash` says that nothing else does.
* A count of failures does not fall when its lock ends, so one more failure locks again: what
  `FewFailures` and `LocksEnd` bound is how often a lock is prolonged.
* The shutdown waits for neither the watcher nor the maintenance goroutine, and for requests five
  seconds, whatever they are at; a live switch that finds the channel full once the loop has stopped
  is blocked for good, and a body that never comes keeps its handler.  `CancelledBeforeClosed` and
  `ServeExits` say that the context of whoever is left has been cancelled and that the program exits
  all the same.

Deadlock checking is off where the system may stop: after the shutdown (`PollScheduler`), when the
process has ended (`Serve`), and in `Dashboard` once the bounded clicks are spent, because an error other than 401 at the first
request leaves the page without timers.

## 4. Fairness

* *StatsStreams*: only a goroutine whose context is done makes progress, because the Docker client
  returns then; one with a live context may wait for Docker for ever.
* *PollScheduler*: Go's `select` chooses at random among the ready cases, so a case that is ready
  again and again is taken: strong fairness for the two cases that may spawn a poll, weak for the
  others and for the sends, which stay ready once they are (each call is made once).  A poll ends.
  Nothing is assumed of the 15-second time-out.
* *Watcher*: the event thread, the poll, retention: weak fairness, because they run in goroutines of their own.
  Docker need not change anything; no failure need happen; failures are finitely many.
* *HourlyStore*: weak fairness of the maintenance goroutine, which a ticker starts again.
* *Startup*: a stopped process is started again (`restart: unless-stopped`), and statements end.
* *Dashboard*: requests are answered and handled, effects run, timers tick.  Strong where the
  bound on requests in flight would otherwise suppress them.  The user need not do anything.
* *Serve*: `main`, the watcher's loop and the limiter's clock and eviction loop go on when they can
  (weak); a handler that can go on again and again does (strong: the channel of intervals may fill
  up in between).  Nothing is assumed of clients, of the 15-second time-out or of the signal.
  `Shutdown` returns at any time, at the latest after its five seconds.
* *Analyzer* and *Sampling* have safety properties only.

## 5. Proofs

| Theorem | States | Argument |
|---|---|---|
| `StreamsTypeOK`, `FramesHaveLivePublisher`, `NoLeakNorDeadEntry` | the types and the invariants of `streams` | `StreamsInv`, their conjunction, is inductive: the deferred delete may take a frame only because its publisher is alive, and a start may reuse a slot only because no frame refers to a dead one |
| `StreamsImplementRegistry` | `Spec => RegistrySpec` | every step maps to a step of the registry or a stutter, from `StreamsInv` |
| `PollTypeOK`, `OnePollAtATime`, `NoDoneTwiceNorLost`, `ForcedPollIsWhole` | the types and the invariants of `polls` | `PollInv` adds that a waiting request of a poll goroutine is counted among those that saw it whole (`OwnPollSeen`), and that an answered one is closed (`OkIsClosed`) |
| `LastIntervalWins` | `LastSetWins` | `SetInv`: a duration an earlier setter sent has left the channel, and if the ticker still has it something newer is pending |
| `WatcherTypeOK`, `OnlyGoneIsRemoved`, `RevivalNeedsStalePoll` | the safety properties of `watcher` | `WatcherInv` adds that "destroy" is reported only of destroyed ids (`DestroyedIsGone`), and that what the event thread is about to write never concerns a removed row (`WritesAreFresh`) |
| `WatcherUsesRegistry`, `SamplingUsesRegistry` | `Spec => Streams!RegistrySpec` | `WatcherInv` bounds what the event thread works through, so it opens and closes streams of containers only; each step is one of the registry or leaves the streams alone |
| `FailuresAreFew`, `NoLockIsLost` | `FewFailures`, `LocksHold` | `LoginInv` adds that a locked address is no older than what has passed of its lock, so that the eviction cannot reach it, and that a lock implies a count |
| `ServeIsTyped`, `ServesFailClosed`, `NothingClosedUnderTheLiving`, `OnlyBadOnesCrash` | the types and the safety properties of `serve`, and `FailClosed`: what listens beyond the loopback has a user and a password | `ServeInv` says for each place of `runServe` what the stack of deferred calls holds (`stop` above everything once the loop may run), and that every configuration past `LoadConfig` has been checked.  A duration that has not overflowed is the product (`DurationIsExact`), so it is positive when the seconds are |
| `ServeImplementsLimiter`, `ServeFailuresAreFew` | `Spec => LoginSpec`, and with it the limiter's properties of the whole program | a request at `login body` or `verify` is one past the limiter's check |
| `StartupTypeOK`, `MigrationsAreComplete`, `SessionsSurvive` | the invariants of `startup` | `StartupInv` adds how far a process that applies a migration has come (`ProgressInv`), and that only the stored secret, which every running server holds, has signed (`SecretInv`) |
| `RunsCountWhatIsOld`, `NothingIsDeletedUncounted` | `DeletedIsAggregated` of `hourly` | `HourlyInv`: when a run has passed an hour, the hour's row counts every sample from before the run began, or the hour failed; a run takes less than the retention time (the guard of `Tick`), so all that it deletes is from before it began |
| `StoreTypes`, `RowsAreExact`, `CommittedIsExact` | the types of `HourlyStore`, and `CommittedRowsExact` of `hourly` | `ExactInv`: of any two samples of a container, and of a sample and the present, the counter has grown as much as was moved, or no more since a reset (`Between`); and each batch and row of a complete hour claims what moved from the sample before the hour (from the start of its life, if torn) to the last one it counts (`RowExact`), which later inserts and deletions leave true.  `PreviousInv` carries the first query over to the second: of the containers it was about, `prevMap` holds the counter of the last sample before the hour, which no insert in between changes; of the others it holds zero |
| `ScansReadRows`, `AnalyzerTypes` | the types of `analyzer` | `AnalyzerInv` adds to the invariants of the store that the rows read are of past hours, exact in the sense of `RowExact` (torn ones included), and no two of one hour and container; that the generations are listed newest first; and that a verdict is `Evaluate` of what was read |
| `NothingIsCountedTwice` | `NothingCountedTwice` of `analyzer` | the rows of one container are at most the steps of a function of the hour, what the container had moved by the end of it; they sum up to no more than it gains (`SumOfSteps`), and the raw rows of the current hour lie after the last of them.  The hours counted are mapped into those with samples, one to one |
| `ZombiesAreIdle` | `ZombieIsIdle` of `analyzer` | the other way round: when the rows are complete they cover those steps (`SumCovers`), so two samples of the past hours differ by no more than the sum of the rows, and two of the current one by no more than the spread of the raw rows, both of which a zombie has below its threshold |
| `OneImageIsObserved` | `ObservesOneImage` of `analyzer` | the generations are sorted by creation, strictly, so the end of the run of one image separates what is since the start from what is before |
| `DashboardTypes`, `FlagsAreRight`, `SomebodyIsThere`, `SwitchIsTrue` | the invariants of `dashboard` | `DashboardInv` adds of the live requests that, while nothing is in doubt, there is at most one, that it carries the switch's mode until it is answered, and that its success has set the interval; one lemma for each of sending, answering and receiving |
| `SamplingTypes`, `SampledRatesAreReal`, `StretchesAreSampledOnce`, `SampledBytesHaveMoved` | `SamplingTypeOK`, `RatesAreReal`, `NoStretchTwice`, `BytesHaveMoved` of `sampling` | `FramesInv` compares any two frames of a container that are still about: from the older to the newer its work grows by no more than the host's time, and what its counter has forgotten does not shrink, and the total over its interfaces grows by what was moved, or is no more than that after a restart, unless an interface was detached between them; and it is never more than all that was moved.  `OrderInv`: but for late frames, the cache and `prevRead` are no older than the last sample |

The theorems hold for any sets of containers, goroutines, calls, processes and secrets, and any
bounds.  Their assumptions are the ASSUMEs of the modules (a null value is no member of the set it
is null for; bounds are numbers; the containers of a service, the interfaces and the requests are
finitely many, without which a sum over them means nothing), which TLC evaluates in the runs.

*Sums.*  `Aggregate`, `networkTotals` and `Judge` add up a function over a finite set with the fold of
the community modules.  `Sums` proves what the other modules need of that fold: a sum may be taken
apart at any element (`SumRemove`), it grows with its terms and with its set, the terms of a step
function telescope (`SumTelescopes`), and terms that lie within different steps, or cover them all,
are bounded by its gain from above (`SumOfSteps`) or below (`SumCovers`).  The induction theorems of
the library take an operator the provers cannot instantiate.  Each of these lemmas instead takes a
counterexample that is minimal, a set that contains no smaller one (`LeastSubset`, from the
well-foundedness of strict inclusion on finite sets) or the least number (`LeastNumber`), and
refutes it.

*What the proofs corrected.*  `BytesHaveMoved` had only the exception of a detached interface.  Its
step could not be proved for a sample made of a frame that a closed stream delivers after a newer
one was sampled: the total falls, which the aggregator takes for a reset, so that all of it is
added although the last sample has counted it.  TLC shows this on an instance with one interface
where the container starts and ends four times; that of section 3, with two, is too small (and one
with four too large for a run).  The property has the second exception, `id \in late`, now, and the
theorem says that no third one is needed.

Only model-checked, on the instances of section 3, is liveness under fairness (`StoppedWorkerExits`,
`EverybodyReturns`, `PollsKeepComing`, `RowsSettle`, `StreamsFollowDocker`, `SamplesAreAggregated`,
`TornRowsAreMended`, `EveryProcessRuns`, `TabCatchesUp`, `ExpiredAsksForLogin`, `ServeExits`, `LimiterLetsGo`): it rests on
ENABLED and on fairness, which the prover does not handle.  Every invariant, every action property
of safety and every refinement is proved.

## 6. Not modelled

Rendering, formatting and the modals, whose requests depend on nothing that changes while they are
open; logging; service keys and names (string handling); which address a request comes from
(`clientIP`, proxies); read-only handlers that run one query; the settings that `config.go` layers
in the same way as those in `Serve`; SQLite's locking below a statement (`busy_timeout` is an error
that may happen); wall clocks going backwards; forced polls less than a second apart (two samples
with one timestamp); averages, and the working set of the memory, one subtraction; counters beyond
2^63; more than one service in `Analyzer` (services share no row).

## 7. Plan

What is left, in the order of what it would show; runs that refute a comment give way where one
instance can no longer hold all the questions.

1. An abstract history of one container row (present, stopped, removed) that `Watcher` implements
   while nothing is stale, in place of the two action properties about rows.
2. The CPU average and a second threshold in `Analyzer`, with a verdict per threshold.
3. The request for the configuration and the three seconds of the reload button in `Dashboard`.
4. One instance of `Serve` with `PollScheduler` in place of its abstract loop.
