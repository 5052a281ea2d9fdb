-------------------------- MODULE FederatedLearning --------------------------
(***************************************************************************)
(* The federated learning loop: the aggregator of FederatedAggregation,    *)
(* the Flink job that trains the devices' models                           *)
(* (scripts/03_flink_local_training.py, scripts/flink_models.py), the      *)
(* topic local-model-updates between them, and the Spark job that scores   *)
(* the published models (scripts/05_spark_analytics.py).                   *)
(*                                                                         *)
(* A Flink worker handles one reading at a time, and everything a training *)
(* round reads or writes outside the worker is one file that is replaced   *)
(* atomically and one message, so a round is one action.  Readings arrive  *)
(* all the time: a device may become due for training at any moment.       *)
(***************************************************************************)
EXTENDS FederatedAggregation

CONSTANTS
    Workers,            \* parallel instances of the Flink operator
    WorkerOf,           \* key_by: the worker that gets a device's readings
    MaxTrainings,       \* bound: where counts of trainings stop counting
    MaxInFlight,        \* bound: undelivered messages of a device
    MaxWorkerRestarts   \* bound: how often a Flink worker is restarted

ASSUME WorkersAssumption == WorkerOf \in [Devices -> Workers]

VARIABLES
    cache,           \* GlobalModelCache: the model last read, and if it was
                     \* checked within refresh_seconds
    local,           \* local_models: the global model a device's parameters
                     \* started from and its trainings since
    trainings,       \* history: trainings of a device, over all restarts,
                     \* which number its messages
    topic,           \* local-model-updates: messages not delivered yet
    sparkPc,         \* "watching" for a new version or "scoring" one
    sparkModel,      \* model_eval.model
    evaluatedVersion,
    workerRestarts

flinkVars == <<cache, local, trainings, workerRestarts>>
sparkVars == <<sparkPc, sparkModel, evaluatedVersion>>
learningVars == <<vars, flinkVars, topic, sparkVars>>

-----------------------------------------------------------------------------
NoModelRead == [model |-> NoModelFile, fresh |-> FALSE]

NewLocal    == [base |-> NoModelFile, rounds |-> 0]   \* not in local_models

Message == [device : Devices, number : Nat, base : Served, rounds : Nat]

LearningTypeOK ==
    /\ cache \in [Workers -> [model : Served, fresh : BOOLEAN]]
    /\ local \in [Devices -> [base : Served, rounds : Nat]]
    /\ trainings \in [Devices -> Nat]
    /\ topic \subseteq Message
    /\ sparkPc \in {"watching", "scoring"}
    /\ sparkModel \in Served
    /\ evaluatedVersion \in Nat
    /\ workerRestarts \in Nat

LearningInit ==
    /\ Init
    /\ cache = [w \in Workers |-> NoModelRead]
    /\ local = [d \in Devices |-> NewLocal]
    /\ trainings = [d \in Devices |-> 0]
    /\ topic = {}
    /\ sparkPc = "watching"
    /\ sparkModel = NoModelFile
    /\ evaluatedVersion = NoVersion
    /\ workerRestarts = 0

-----------------------------------------------------------------------------
(* The aggregator, and its end of the topic.                               *)

AggregatorStep ==
    /\ Service \/ IntervalElapses \/ Die
    /\ UNCHANGED <<flinkVars, topic, sparkVars>>

(* The sink gives its messages no key, so a device's messages spread over  *)
(* the partitions and may overtake each other.                             *)
DeliverUpdate(msg) ==
    /\ ReceiveUpdate(msg.device, [base |-> msg.base.version, params |-> msg.base.params])
    /\ topic' = topic \ {msg}
    /\ UNCHANGED <<flinkVars, sparkVars>>

-----------------------------------------------------------------------------
(* The Flink job.                                                          *)

(* refresh_seconds pass since a worker last looked at the file.            *)
CacheExpires(w) ==
    /\ cache[w].fresh
    /\ cache' = [cache EXCEPT ![w].fresh = FALSE]
    /\ UNCHANGED <<vars, local, trainings, workerRestarts, topic, sparkVars>>

(* A slip of CachedModel: once there is a model, the file is not read.     *)
CachedModelForever(w) ==
    IF cache[w].model # NoModelFile THEN cache[w].model ELSE latest

(* get: the model file if it is due to be read and exists, else what is    *)
(* cached.                                                                 *)
CachedModel(w) ==
    IF cache[w].fresh \/ latest = NoModelFile THEN cache[w].model ELSE latest

(* A slip of Synced: the number is taken over without the parameters.      *)
SyncedNumberOnly(d, m) ==
    IF m.version > local[d].base.version
    THEN [base |-> [version |-> m.version, params |-> local[d].base.params],
          rounds |-> local[d].rounds]
    ELSE local[d]

(* sync_from_global: adopt the global parameters of a newer version, or of *)
(* any version if the device has no parameters yet.                        *)
Synced(d, m) ==
    IF m # NoModelFile /\ (m.version > local[d].base.version \/ local[d] = NewLocal)
    THEN [base |-> m, rounds |-> 0]
    ELSE local[d]

Counted(n) == IF n < MaxTrainings THEN n + 1 ELSE n

(* _train_local_model: sync, train on the window, emit the new parameters. *)
Train(d) ==
    LET w == WorkerOf[d]
        start == Synced(d, CachedModel(w))
    IN  /\ Cardinality({msg \in topic : msg.device = d}) < MaxInFlight
        /\ cache' = [cache EXCEPT ![w] = [model |-> CachedModel(w), fresh |-> TRUE]]
        /\ local' = [local EXCEPT ![d] = [start EXCEPT !.rounds = Counted(@)]]
        /\ trainings' = [trainings EXCEPT ![d] = Counted(@)]
        /\ topic' = topic \cup {[device |-> d, number |-> Counted(trainings[d]),
                                 base |-> start.base, rounds |-> Counted(start.rounds)]}
        /\ UNCHANGED <<vars, workerRestarts, sparkVars>>

(* open: a restarted worker starts from nothing; its state is in memory    *)
(* only.                                                                   *)
RestartWorker(w) ==
    /\ workerRestarts < MaxWorkerRestarts
    /\ cache' = [cache EXCEPT ![w] = NoModelRead]
    /\ local' = [d \in Devices |-> IF WorkerOf[d] = w THEN NewLocal ELSE local[d]]
    /\ workerRestarts' = workerRestarts + 1
    /\ UNCHANGED <<vars, trainings, topic, sparkVars>>

-----------------------------------------------------------------------------
(* The Spark job's evaluation loop.                                        *)

LoadModel ==
    /\ sparkPc = "watching"
    /\ latest # NoModelFile
    /\ sparkModel' = latest
    /\ sparkPc' = IF latest.version # evaluatedVersion THEN "scoring" ELSE "watching"
    /\ UNCHANGED <<vars, flinkVars, topic, evaluatedVersion>>

(* The held-out sample is fixed, so a model scored twice scores the same.  *)
HeldOutScores(m) ==
    LET e == evaluations[m.version]
    IN  IF e # NoEvaluation /\ e.params = m.params THEN {e.f1} ELSE F1Scores

ScoreModel(f1) ==
    /\ sparkPc = "scoring"
    /\ f1 \in HeldOutScores(sparkModel)
    /\ Evaluate(sparkModel, f1)
    /\ sparkPc' = "watching"
    /\ evaluatedVersion' = sparkModel.version
    /\ UNCHANGED <<flinkVars, topic, sparkModel>>

(* No held-out sample, or a failed insert, which is logged and rolled      *)
(* back: the loop records the version as evaluated all the same.           *)
ScoreFails ==
    /\ sparkPc = "scoring"
    /\ sparkPc' = "watching"
    /\ evaluatedVersion' = sparkModel.version
    /\ UNCHANGED <<vars, flinkVars, topic, sparkModel>>

-----------------------------------------------------------------------------
FlinkStep == \/ \E w \in Workers : CacheExpires(w) \/ RestartWorker(w)
             \/ \E d \in Devices : Train(d)

SparkStep == LoadModel \/ ScoreFails \/ \E f1 \in F1Scores : ScoreModel(f1)

LearningNext ==
    \/ AggregatorStep
    \/ \E msg \in topic : DeliverUpdate(msg)
    \/ FlinkStep
    \/ SparkStep

LearningSpec == LearningInit /\ [][LearningNext]_learningVars

(* Spark may stop scoring at any time; the aggregator's loop, the delivery *)
(* of messages, and a device's stream of readings go on.                   *)
FairLearningSpec ==
    /\ LearningSpec
    /\ WF_learningVars(Service /\ AggregatorStep)
    /\ \A w \in Workers : WF_learningVars(CacheExpires(w))
    /\ \A d \in Devices :
          /\ WF_learningVars(Train(d))
          /\ WF_learningVars(\E msg \in topic : msg.device = d /\ DeliverUpdate(msg))

-----------------------------------------------------------------------------
(* Properties.                                                             *)

(* The loop implements the aggregator in its open environment: devices and *)
(* Spark only ever name models that were served, with the parameters these *)
(* had, so what is proved of FederatedAggregation holds in the loop.       *)
AggregatorSpec == Spec

(* While the aggregator lives, Spark's scores arrive in version order: the *)
(* version it evaluated last is the newest one with a score, which is what *)
(* check_rollback takes the newest scored version to be.                   *)
LastScoredIsNewest ==
    restarts = 0 => \A v \in Scored : v <= evaluatedVersion

(* While the aggregator lives, a degraded version causes a second rollback *)
(* only once the target of the first has left the registry.                *)
RollsBack == restarts = 0 /\ pc = "deciding" /\ pc' = "registeringRollback"

SecondRollbackAfterEviction ==
    [][\A old \in rollbackLog :
          (RollsBack /\ IsLatestEvaluated(old[1])) => old[2] \notin DOMAIN registry]_learningVars

(* While the aggregator lives, a training round starts from the model its  *)
(* worker read last, parameters and number, and from the published one if  *)
(* the worker read the file for this round: through caching, restarts of   *)
(* the worker, late devices and rollbacks no device keeps an older model   *)
(* of its own.  (ReadModelIsAdopted below drops the condition.)            *)
TrainsFromNewestRead ==
    [][\A msg \in topic' \ topic : restarts = 0 =>
          /\ msg.base = cache'[WorkerOf[msg.device]].model
          /\ (~cache[WorkerOf[msg.device]].fresh /\ latest # NoModelFile)
                => msg.base = latest]_learningVars

(* As long as the aggregator is not restarted, every device comes back to  *)
(* parameters that grew from the published model again and again, although *)
(* the workers look at the file only now and then and may be restarted.    *)
DevicesKeepUp ==
    \A d \in Devices : []<>(local[d].base = latest \/ restarts > 0)

(* What documents and comments say, and the code does not do.              *)

(* flink_models.py: each round starts from the latest federated global     *)
(* model when a newer one is available.                                    *)
ReadModelIsAdopted ==
    [][\A msg \in topic' \ topic :
          (~cache[WorkerOf[msg.device]].fresh /\ latest # NoModelFile)
              => msg.base = latest]_learningVars

(* 04_federated_aggregation.py: only roll back once per degraded version.  *)
OncePerDegradedVersion ==
    \A p, q \in rollbackLog : p[1] = q[1] => p[2] = q[2]

=============================================================================
