# Formal models of FLEAD

TLA+ models of the federated learning anomaly detection pipeline in `src/`,
model-checked with TLC and proved about with TLAPS. Paths below are relative
to the repository. `NN` stands for the numbered scripts in `scripts/`, so `04`
is `scripts/04_federated_aggregation.py`.

## 1. The system

Devices' readings are replayed into Kafka. A Flink job scores every reading and
trains one small model per device. An aggregator averages the devices' updates
into numbered global models, publishes them in a file and keeps the last ones
in a registry. Spark scores the published models on held-out readings, and the
aggregator rolls back when a newer one scores much worse than the best. A
collector copies three topics into TimescaleDB.

| Component | State it keeps | Operations | Talks to | What makes it hard | What makes it correct |
| --- | --- | --- | --- | --- | --- |
| Producer, `02` | Kafka client, counters, time of the last confirmed delivery | send, delivery callbacks, watchdog, reconnect | Kafka; container restart | callbacks on the client's thread, a client that expires everything for ever | dead clients are replaced, living ones get their time |
| Flink job, `03`, `scripts/flink_models.py` | per worker: forest, cached global model; per device: window, counters, local model | one reading: score, maybe train; read the model file | Kafka; model file | all state in memory, several trainings between two versions, failures in the middle of an update | a round is due exactly when it should be; updates name the parameters they grew from |
| Aggregator, `04` | global model, buffered updates, registry and its files, count of noised rounds | receive update, round, register, evict, save, publish, refresh scores, roll back, restart | model file, database, Kafka | other processes look at every step; calls fail and are only logged; everything in memory is lost in a restart | version numbers, bases, scores and budgets stay attached to the right parameters |
| Spark evaluation, `05` | model last read, version last evaluated | look at the file, score, insert | model file, database | sampling; failures recorded as success | scores in version order |
| Collector, `scripts/kafka_to_timescaledb_collector.py` | three batches, time of the last insert, database connection, consumer positions | message, flush, shutdown, restart | Kafka, database | transaction of three statements with batches emptied in between; offsets committed independently | no row twice, nothing lost |
| Spark stream and batch analysis, `05` | Spark's checkpoint, two database connections, held-out rows | submit, batch analysis, micro-batch, score, end | Kafka, database, model file | a failed write is acknowledged; a lost connection is never reopened; errors end in exit code 0 | every window stored once, newest model scored |
| Metrics updater, `scripts/dashboard_metrics_updater.py` | database connection | connect, snapshot, end and be restarted | database | recovery depends on a rollback that raises | snapshots go on after an outage |
| Monitor, `monitoring_dashboard/pipeline_monitor.py` | a cache of seconds | overview | database | rows older than a day are out of its sight | silence is reported |
| Startup, `start`, `scripts/pipeline_orchestrator.py`, `01`, `00` | containers, volumes, jobs | prepare data, remove and start containers, build tables, ensure topics, submit jobs | Docker, Kafka, database | starting over what an earlier start, a reboot or an interruption left; retried submissions; waits that only warn | nothing is replaced under its users; one Flink job; topics before jobs |
| Data preparation, `scripts/data_preprocessor.py`, `scripts/convert_chunks_to_device_csvs.py` | raw data, chunks, device files | download, write chunks, assign, flush, shuffle | the disk it shares with producer and Spark | breaking off anywhere; two readers with two ideas of the split | whole, balanced, streamed and held-out rows disjoint |
| Viewer, Grafana | caches | queries, configuration | database | – | read-only |

Where it is hard to test, and which property looks at it, is listed in
`PROJECT.json` under `hazards`.

## 2. Modules

| Module | Models |
| --- | --- |
| `ModelService` | abstract: what the aggregator promises the readers of the model file |
| `FederatedAggregation` | the aggregator, in an open environment of devices and Spark; implements `ModelService` |
| `FederatedLearning` | the loop: aggregator, Flink workers and devices, the topic between them, Spark's evaluation (extends `FederatedAggregation`) |
| `Collector` | the collector with its transaction, Kafka positions and restarts |
| `RandomCutForest` | which readings the trees of a worker hold |
| `LocalTraining` | when a device trains |
| `ProducerWatchdog` | the producer's delivery watchdog |
| `Analytics` | the Spark job with its stream and checkpoint, the metrics updater, the monitor, around one database |
| `DataPreparation` | the container that prepares the device files, and which rows their readers take |
| `Startup` | the script `start` and the orchestrator over containers, topics and jobs (extends `DataPreparation`) |
| `MC…` | the instance of each for TLC |
| `…Proofs` | the theorems about each |

### 2.1 FederatedAggregation

Parameters are abstracted to the number of the aggregate that made them: two
models have equal numbers exactly when they have equal parameters, and that is
all the properties ask. The service is one thread. Its handlers are cut where
another process can see something or where it can die: the replacement of
`global_model_latest.json`, the registration with the version's own file, each
row and each Kafka message. The variable `pc` makes the pieces follow each
other without choice:

    idle/check -Aggregate-> registering -> saving -> sending -> refreshing -> deciding
    deciding -KeepModel-> idle
    deciding -RollBack-> registeringRollback -> savingRollback -> sendingRollback -> idle

| TLA+ | `04` |
| --- | --- |
| `globalModel`, `pending`, `registry`, `dpRounds`, `elapsed` | `global_model`, `pending_updates`, `model_registry.versions`, `rounds_processed`, `now - last_round_at >= ROUND_INTERVAL_SECONDS` |
| `files`, `latest`, `rows`, `evaluations`, `output` | the per-version files, `global_model_latest.json`, `federated_models`, `model_evaluations`, the output topic |
| `ReceiveUpdate` | `process_local_model_update`, for each message of a poll |
| `Aggregate`, `RegisterModel`, `SaveRound`, `SendRound` | `aggregate` and the rest of `maybe_aggregate` |
| `RefreshEvaluations`, `KeepModel`, `RollBack`, `SaveRollback`, `SendRollback` | `_refresh_evaluations_and_rollback`, `check_rollback`, `rollback_to` |
| `Die`, `Restart` | an uncaught error or kill; `__init__` and `_reset_model_dir` |
| `Evaluate` | `insert_model_evaluations` of `05`, for any model ever served |

Every call that the code wraps in a `try` has an outcome, done or failed, and
the service goes on either way. The environment may send an update of any
device trained from any model ever served, and may score any such model. The
history variables `made`, `served`, `unsaved` (versions whose insert failed) and
`rollbackLog` are only read by properties, except that `made` numbers the
aggregates. A row of `federated_models` has two fields of history: the life of the
service that wrote it and the aggregates computed by then. Every
round empties the buffer, so an update with an old base is one that arrived late.

`ModelService` is the view of a reader of `global_model_latest.json`: one current
model, numbered without gaps within a life, whose parameters are a new aggregate
or one made before; what is published is the current model or, when a write
failed, the one before; a crash loses the current model and the next life first
withdraws the file. The mapping in `FederatedAggregation` takes `globalModel`,
`latest`, the number of aggregates and whether `pc` is `"down"`; buffer, registry,
tables, topic and the order of the calls are hidden.

### 2.2 FederatedLearning

Replaces the open environment by the actual parties. `cache` is the
`GlobalModelCache` of a worker, `local` what a device's parameters grew from,
`topic` the undelivered messages, a set because the sink writes without a key
to four partitions. A training round reads one atomically replaced file and
writes one message, so `Train` is one action. `LoadModel`, `ScoreModel` and
`ScoreFails` are Spark's loop, cut between reading the file and inserting the
scores. The held-out sample is fixed, so parameters scored again under one
number score the same.

`AggregatorSpec` (the specification of `FederatedAggregation`) is a property of
this module, so the open environment is shown to be general enough.

### 2.3 Collector

A message is handled in one action together with the flush it triggers; only a
commit is visible outside. `InsertBatches(b, at)` is the transaction: `at` is
where it fails, a statement number, the commit, at once on a closed
connection, or nowhere. A failed commit may have been carried out. `Remaining`
is what the batches hold afterwards. Kafka is the environment:
`AutoCommit` commits positions at any time, `StartCollector` resumes from them.
The consumer group has one member; redelivery by a rebalance within a life of the
process is not modelled.

### 2.4 RandomCutForest, LocalTraining, ProducerWatchdog

`RandomCutForest` keeps the indices in each tree. An update that breaks off
(the library refuses to forget an absent index, or fails to insert) leaves the
earlier trees updated, the later ones not, and uses up the index; `map` logs it.
`WindowIsFirstAndLast` says what a tree holds, `WindowIsMostRecent` what the
docstring says it does.

`LocalTraining` follows one device with any offset, since the offset is a hash
of the name. `timer` is the age of `last_training_time` compared with the
interval. `readings` and `regular` are history. That `map` gives up a reading
when the forest fails is not part of this module; such a reading is not a step.

`ProducerWatchdog` has the main thread (`SendReading`, `ConnectSucceeds`,
`ConnectFails`), the client's I/O thread (`_on_delivered`, `_on_failed`) and an
environment that takes the broker or the client's session away. The clock ticks
in units of which `STALL` make `stall_seconds`. `LoopFails` is any other error of the
streaming loop, which ends the program for docker to start again. Callbacks of a closed client are
left out: closing aborts its batches, and an abort leaves the watchdog alone.

### 2.5 Analytics

Three processes share TimescaleDB, each on connections opened once (`conn`,
`streamConn`, `updaterConn`). After an outage a statement fails, the rollback in
its handler fails as well, and the models differ in who catches that: nobody in
the updater (the process ends and docker starts another), `main` in the driver
(the job ends with exit code 0), `_write_stream_batch` in the stream (the query
goes on and stores nothing). A micro-batch is `PlanBatch` (offsets written to the
checkpoint), `StoreBatch` or `LoseBatch` (`foreachBatch`), `AckBatch` (commit);
the driver may end between any two. The driver's main thread is `Submit`,
`AnalyseBatch`, then `LoadModel` and a score per new version until `JobEnds`.
The checkpoint is in `/tmp` of the container `spark-master`; the module is about
one life of that container.

The aggregator is here what the driver sees of it: `Publish` puts the next version
in the file, `AggregatorRestarts` removes the file and lets the versions start at 1
again, as often as faults allow. The code compares versions; the properties tell
models apart by a serial number, which no guard reads. A job whose last evaluated
version is published again by a later life takes the new model for the old one
(`TakenForAnother`) and never scores it, unless something else is published.

`age` is the age of the newest row of a stage in classes: within the limit, over
it, older than the day the monitor's queries look back. One stage stands for
all checks, which are rows of one table of the monitor. Values of KPIs, scores
and windows, the job's own KPI rows, the results of the batch analysis, received
alerts and `/metrics` are left out. Someone is assumed to look at the page once a
day; a single lost batch with newer rows behind it is seen by nobody, and
`SilentStreamIsReported` does not claim otherwise.

### 2.6 DataPreparation and Startup

A row is its number in the source, a device file a sequence of rows with
timestamps. The container's two processes write the disk piece by piece, and
every piece has an action for breaking off in it: the front of the archive is
unpacked, some stale files are removed, the front of a buffer is appended, a file
is half rewritten by the shuffle. What is on disk stays, for the next run or the
next start. `Balanced` is every assignment the shuffled `arange % num_devices`
can give, `Shuffled` every order of a file. `Streamed` and `HeldOut` are what the
producer and Spark read.

`Startup` has one variable for the step `start` is at. `docker compose down` may
fail, containers are removed by name (`docker container rm -f … || true`: the errors
it swallows are taken to be those of containers that are not there, not a docker
that fails to remove one that is), compose starts a service when its `depends_on`
are met, `database-init` drops and creates the tables, the
orchestrator waits for Kafka, ensures the topics and submits the jobs, each with
its retries. Waits that end either way are no steps. Around it the user may
interrupt or prepare data by hand while nothing runs, clients may create topics
first, containers may die and the machine may reboot (docker restarts those with
`restart: unless-stopped`). Jobs live and die with their containers. A
submission of the Flink job may fail although the job manager has taken the job;
`misreported` counts these.

## 3. Runs

Passing runs, all checked exhaustively:

| cfg | Bounds | Question |
| --- | --- | --- |
| `Aggregation` | 2 devices, minimum 2, window 2, versions to 4, 3 rounds over all lives, 1 restart, 1 failed call | are registry and files a window, has every version its row, does a due round run without further updates, does the model file only move forward, is `ModelService` implemented; in the first life, are numbers, bases, scores and budgets attached to the right parameters |
| `Learning` | 1 device, window 4, versions to 6, 4 rounds, the worker restarts once | does the loop implement the aggregator, do Spark's scores arrive in order, what does a rollback restore and when is there a second one, what does a training round start from, do devices keep up |
| `Collector` | batch 2, 2 messages in each of 3 topics (1 unattributed), 2 failures, 1 restart | what becomes of a consumed message |
| `Forest` | 3 trees of 3, 20 readings, 2 failures | what the trees hold |
| `Training` | the real constants 20, 30, 200 and every offset | no round late, the stagger holds, the timer trains slow devices |
| `Producer` | stall 2, 2 attempts, 2 unconfirmed, 2 outages | dead clients are replaced, others get their time |
| `Analytics` | 2 windows, 3 models, 2 submissions, 1 fault, which may be a restart of the aggregator | which windows are stored once, is the newest model scored and none twice by a job, is silence reported, do snapshots resume |
| `Startup` | 2 starts, 1 fault, 1 topic, 2 attempts each; 2 chunks of 2 rows, 2 devices, 1 streamed row | does a start over any leftovers replace nothing under its users, submit once, find its topics, end; is the data whole and split |

Why the bounds suffice for what they ask. A window of 2 evicts by the third
version, a window of 4 within 6 versions evicts the target of a rollback while
the degraded version and a newer best are still there; scores 0 and 2 with a
drop of 1 give worse, equal and better. A restart at any of the steps of three
rounds has a later life meet rows, scores and late updates of the first. Two devices tell "latest
update of each device" from "latest update", and the minimum of 2 makes rounds
wait. A collector batch of 2 over three tables has flushes with one and two
statements and a remainder, and two failures let a retry fail again. Twenty
readings are six windows of three, enough for a missing index to come round
twice. In `Analytics` the second window, model and submission are what a stored one
is confused with, and the third model may, after a restart of the aggregator, be version 1
again for a job that has since evaluated version 2, or has not; one fault
already reaches every failure from every state of the others, and outages leave all
connections lost. Two starts are an earlier one with
anything it leaves and the one over it, and one fault is a death or a reboot
between them. Two chunks of two rows on two devices have a buffer with rows of
several chunks, one with none, and a file longer than what is streamed of it.
Topics are independent of each other, and the theorem about them is for any set.
`MaxVersion` leaves room for the rollback of a round, so versions to 4 are at least
three rounds. The loop is checked with one device, whose interleavings with the
aggregator, Spark and its worker are what its properties are about, and in
`Learning` without deaths of the aggregator, which six versions leave no room for.
That the loop implements the aggregator is proved for any number of devices, workers
and restarts; `RestartedVersions` has both kinds of restart. No
run uses symmetry: the one with interchangeable devices has a liveness property,
for which it is unsound.

After a restart the aggregator uses its numbers again, and what names a model by
number may mean another one. `VersionNamesOneModel`, `DeltasMeasuredFromBase`,
`ScoresBelongToModel`, `RolledBackModelWasScored`, `LastScoredIsNewest`,
`SecondRollbackAfterEviction`, `TrainsFromNewestRead` and `DevicesKeepUp` are
therefore about its first life and say so (`restarts = 0`), `BudgetCoversReleases`
about the rows that life wrote (`r.life = 0`); nothing is claimed of them beyond it.
`RestartedVersions` shows the consequence for devices; `Analytics` has the
one for Spark. `TypeOK`, `RegistryIsWindow`, `RowsMissingByFailure`, `DueRoundRuns`,
`LatestNeverRegresses`, `ImplementsModelService` and `AggregatorSpec` are about any
number of lives.

`CHECK_DEADLOCK FALSE` is set for the collector, which idles when all topics are
read, for the forest, which stops at its bound of readings, for the analytics,
which idle with nothing new, and for startup, which is over after the last start.

### Where code and documents disagree

Each of these runs checks one sentence of the documentation or of a comment and
finds a behaviour of the code that violates it. `PROJECT.json` quotes the
sentences.

| cfg | Sentence | What happens |
| --- | --- | --- |
| `RollbackTwice` | a rollback once per degraded version | the check forgets a rollback whose target is not the best any more |
| `RestartedVersions` | a newer global model is adopted | after a restart of the aggregator numbers start at 1 and are ignored |
| `FirstPointStays` | every tree keeps a sliding window of the most recent points, evicting the oldest | the very first point is never evicted, since `index - tree_size` is forgotten only beyond `tree_size` leaves |
| `LostReadings` | every reading is stored | batches are emptied before the commit that then fails |

Seen while modelling, part of the models, and not given a run of their own:

- Updates carry no key and the topic has four partitions, so an older update of a
  device may arrive after a newer one and replace it (`04:685`).
- A device that trains twice between two versions goes on from its own
  parameters the second time (`flink_models.py:278`), where `SYSTEM.md:86` has
  rounds begin from the global model. Its update still names the base.
- The numbers reused after a restart also reach the bases of updates in flight and
  the scores already in `model_evaluations` (`04:597`).
- Spark compares versions as well: a model of a restarted aggregator with the number
  evaluated last is not scored while it is the published one (`05:694`), and another
  number may be scored by one job for a second time, as a second model.
- The count behind the privacy budget starts again with the process (`04:439`), so the
  "cumulative" budget of `00_init_database.py:150` is that of one life.
- Versions replaced before Spark looks, or recorded as evaluated although the
  insert failed, are never scored (`05:691`), where `SYSTEM.md:11` says every
  version is.
- A failed insert into `federated_models` is not repeated; `RowsMissingByFailure`
  is what remains of the one row per version of `SYSTEM.md:162`.
- The collector looks at the age of its batches only when a message arrives
  (`scripts/kafka_to_timescaledb_collector.py:389`), so the 10 seconds of its
  header do not hold on idle topics.
- The Spark job's `main` catches every error and exits with 0, which the
  orchestrator takes for a job that completed (`pipeline_orchestrator.py:293`).
- A preprocessing run that broke off after its first file is accepted, by this
  start and by later ones (`start:69`), which then go on with part of the data. No
  property sees that; `HeldOutNeverStreamed` holds even then, and
  `CompletedRunIsWhole` is about runs that complete.
- After an outage the stream's connection is never opened again (`05:277`), and
  the batches after it are acknowledged without being stored.
- The monitor looks back one day, so silence longer than a day is no complaint
  any more (`pipeline_monitor.py:817`).
- `start` names an option `--safe` (`start:121`) that the orchestrator does not
  have (`pipeline_orchestrator.py:646`).

## 4. Fairness

- `FederatedAggregation`: weak fairness of the service's next step, the start of a
  new process after a death included (`restart: unless-stopped`), and of the passing
  of time. The main loop polls with a timeout of a second and no call in it waits for
  ever. Devices and Spark owe nothing.
- `FederatedLearning`: in addition some message of every device with messages is
  delivered in the end (the consumer polls all partitions), caches expire, and a
  device goes on streaming, since the producer repeats its files.
- `LocalTraining`: the device streams, labelled or not, and time passes.
- `ProducerWatchdog`: the main thread and the clock go on and the broker returns.
  Nothing is assumed of the client's I/O thread.
- `Analytics`: the driver's thread, the streaming thread and the updater take the
  steps they can, the updater's snapshot is accepted now and then, rows grow old,
  and the monitor's page polls. Nobody has to repair the database or to submit the
  job again.
- `Startup`: the commands of the scripts return, as do the containers `start`
  waits for. Interruptions, faults and starts owe nothing.

No strong fairness is used.

## 5. Proofs

All theorems are for arbitrary constants under the named `ASSUME`s of the
modules: finite sets of devices, positive sizes, natural bounds. The bounds are
constants as well, so no theorem depends on a small one.

**Aggregator** (`FederatedAggregationProofs`)

- `TypeCorrect`. `TypeOK` is not inductive: that a registered version is in
  `Versions` needs `VersionBound`, that the model in memory leaves room for a
  round's rollback at the right values of `pc`.
- `RegistryWindow` by `WindowInv`: eviction keeps the newest versions of a set
  that is an interval, so it moves a window (`NewestIsWindow`, by cardinalities
  of intervals).
- `VersionNaming` by `NamingInv`: all published models carry at most the current
  version, and a step adds only a model with a new number or copies of the
  current one. One life only: `RestartedVersions` shows why.
- `DeltasFromBase` and `ScoresOfOwnModel` by `ReferenceInv`: what updates and
  scores name was once served; naming then makes equal numbers equal parameters.
- `BudgetCovers` by `BudgetInv`: in the first life the count of noised rounds is the
  count of aggregates, so the budget in a row, a rollback's too, is the number of
  aggregates when it was written. Rows stay as they are.
- `ModelFileMonotone` by `LatestInv`, the file never being ahead of memory.
- `RollbackNotRepeated` by `RollbackInv`: every logged rollback is still
  remembered by a registered version, or its target has been evicted. It is a theorem
  only: what a run would ask of it, `SecondRollbackAfterEviction` asks more sharply.
- `RollbackDetermined`: `check_rollback` has at most one pair to act on, so the
  choice in `RollBack` is none, and (`DecidesOnRound`) it always runs on the model
  of a round, so its test of `rolled_back_from` in memory is never what stops it.
- `RollbackRestoresScored` by `RestoredInv`, on top of naming.
- `RowsOnlyMissByFailure` by `RowsInv`: at every `pc`, each version whose row is due has
  one of this life or is in `unsaved`, which only a failed insert of that version adds
  to (`SavedOrRecorded`). A death sets the version back to 0, so nothing is due after
  it and rows of an earlier life count for nothing.
- `AggregatorImplementsService`: each action is a step of `ModelService` or a
  stutter under the mapping (`ServiceSimulation`), from the invariants above and from
  `TargetIsAggregate`: what a rollback restores is an aggregate made before.

**Loop** (`FederatedLearningProofs`): `LearningImplementsAggregator`, from
`ServedInv`: every global model that a cache, a device, a message or Spark holds
was served. `ScoresInOrder` from `ScoringInv`, which orders the version
evaluated, the one being scored and the file. `LoopKeepsPromises` collects what the
aggregator's theorems then say of the loop, and `LearningTypeCorrect` its types.

`SecondRollbackNeedsEviction` by `JudgedInv`, under the hypothesis that the
aggregator is not restarted: a registered score is the one in the table
(`ScoresStand`); Spark scores in order, so a version left without a score when a
newer one got its own never gets one (`NoLateScores`); hence the target of a logged rollback
stays the best for as long as its degraded version is the latest evaluated and
both are registered (`TargetsStand`). `check_rollback` then looks for the
same pair, which `RollbackInv` of the aggregator excludes. In the aggregator's open
environment the property is false, as an older version scored late may become the
best: it needs the loop.

`RoundsStartFromRead` by `BehindInv`: in the first life no device is ahead of its
worker's cache and no cache ahead of the file, and equal numbers are equal
parameters, so that the newer model is adopted or the device has it already. This is
where naming and `ModelFileMonotone` are needed, and what a restart breaks.

**Collector** (`CollectorProofs`): types; `StoredOnce` by `RowInv` (a message
beyond the position, or pending, has at most as many rows as there were
restarts); `LossExplained` by `LossInv` on top of it; `SmallBatches` by `SizeInv`.

**Forest** (`RandomCutForestProofs`): `BoundedWindow`, whatever fails;
`ExactWindow`, without failed insertions; `DropsHaveAReason` by `DroppedInv`: what
a tree misses of the last `tree_size` readings was dropped, so a tree that cannot
forget the reading due for it shows that this one was dropped too, and only failures
start such a chain (`Unprovoked`). `TypeCorrect`.

**Training** (`LocalTrainingProofs`): `RoundsInTime`, since until the window holds
enough samples it holds every labelled reading counted. `Staggered` by `StaggerInv`:
before the first round the count is that of the readings, after it the readings
beyond the first round's are `since` and whole intervals (`WholeIntervals`, stated
with a multiple as the readings are counted modulo the interval; `ModUnique` takes it
to `%`). `TypeCorrect`: the bound of the counter is `RoundsInTime`.

**Producer** (`ProducerWatchdogProofs`): `OwnTime`, since the silence measured never
began before the client; `TypeCorrect`.

**Analytics** (`AnalyticsProofs`): `StoredOnce` follows a batch through the
checkpoint: windows before it are settled, those in it are stored if the sink has
returned, those behind it have no rows. `ScoredOncePerJob` goes by the order of serial
numbers: the running job has scored nothing newer than the model it evaluated last,
that is no newer than the one it read, and that no newer than the published one
(`JobInv`); a model to be scored has another version than the last one, so it is
another model and a newer one, which `ScoreInv` has without a score of this job.
`TypeCorrect` needs the same of windows (`RowInv`): a window that the
running job has yet to store has fewer rows than there were submissions.

**Startup** (`StartupProofs`)

- `EvaluatedOnUnseen` by `DataInv`: reading k of every device file carries second
  k - 1, at every moment of a conversion, because the counter of written rows is
  the length of the file while it is appended to, and a shuffle stamps anew. The
  producer's cut by position and Spark's by time then are the same cut. Proved of
  the data preparation alone and carried over by `StartupPreparesData`.
- `DropsUnderNobody` by `WritersInv`: from the removal of the old containers until
  `database-init` has ended no writer is up, and jobs come later.
- `TrainsOnce` by `JobsInv`: the job manager is new in each start, so running and
  misreported jobs are equal until the submission that succeeds.
- `SubmitsToTopics` by `TopicsInv`.
- `ConvertsUnderNobody` by `ReadersInv`: readers were only ever started by a start
  that had data, that data is still there, and with data nothing is converted.
- `CompletedRunsAreWhole` by `WholeInv`. `ChunksInv`: once the conversion reads them
  the chunks on disk are those of this run, all of them. `SpreadInv`: the rows in
  a device's file and buffer together enumerate (`Enumerates`: each once, nothing
  else) the rows spread so far that `assignment` gives the device; a row enters
  one buffer, a flush moves it, a shuffle of a finite file is a bijection
  (`EnumeratesShuffled`). `EndInv`: this is still so when the run has ended. The
  files have the same length, give or take one, because `arange(total) %
  num_devices` deals equal turns (`TurnsBalanced`) and shuffling the assignment keeps
  how often each device occurs. None of this is a sum over the chunks, so no
  induction is needed but that over the steps.
- `TypeCorrect`: the rows of files and buffers are rows of the dataset
  (`ContentsInv`), a device is written no more than its share (`WrittenBound`, from
  `SpreadInv`), and `AttemptsInv` bounds the submissions of a start: those before the
  current attempt all failed.

Model-checked only: the liveness properties (`DueRoundRuns`, `DevicesKeepUp`,
`SlowDevicesTrain`, `DeadClientsAreReplaced`, `StartEnds`, `NewestModelIsScored`,
`SilentStreamIsReported`, `SnapshotsGoOn`), because fairness and `ENABLED` are
beyond the prover. Every invariant, every action property
and both refinements of the passing runs are proved. Where a theorem is about the
first life of the aggregator, the property it states says so (`restarts = 0`,
`r.life = 0`); no theorem takes the bound of a run for granted. What the theorems assume is what the
modules' `ASSUME`s say, no more.

## 6. Not modelled

Real arithmetic: clipping, noise and accountant, the SGD of a round, cuts and
scores of the forest, adaptive thresholds, update clustering, the performance
monitor's averages, the fleet z-score, metrics of the confusion matrix. TLC has
no reals, and no decision that is modelled reads these values except scores,
which are taken from a small set. Read-only parts: the device viewer, the pages
and `/metrics` of the monitor, the generated Grafana dashboards and the HTTP calls
that install them once. Audit rows the aggregator writes for dashboards
(`local_models`). The pacing of the producer. `PROJECT.json` lists every component
with its reason.

## 7. Plan

Written, in this order: the aggregator, the loop, the collector, the forest, the
training schedule, the watchdog; then the abstract model service and its
refinement, the analytics around the database, the data preparation and startup;
each with its proofs.

Left:

1. A Flink worker that composes `RandomCutForest` and `LocalTraining`: `map`
   drops a reading for training when the forest fails, one worker's forest serves
   many devices, and the first reading fixes the columns. Its run takes the place
   of `Forest` and `Training`.
2. The rest of the producer: its passes over the device files in turn, and the
   callbacks of a closed client.
3. Pure functions over small inputs: update clustering over a few directions,
   adaptive thresholds on a grid, the confusion matrix and its metrics.
4. Proofs: those of the new modules. What the present runs check is proved, but for
   liveness.
