------------------------ MODULE FederatedAggregation ------------------------
(***************************************************************************)
(* The federated aggregator (scripts/04_federated_aggregation.py): a       *)
(* single-threaded service that buffers device updates, runs FedAvg rounds *)
(* over them, publishes every new global model, keeps the last versions in *)
(* a registry, pulls Spark's held-out scores and rolls back.               *)
(*                                                                         *)
(* The service's handlers are cut at the points another process can        *)
(* observe (the model file, the database, Kafka) or the service can die;   *)
(* "pc" makes the pieces of one handler follow each other without choice.  *)
(* Model parameters are abstracted to the number of the round that made    *)
(* them: 0 is the zero model, p is the p-th aggregate ever computed.       *)
(* Devices and Spark are an open environment here: any device may send an  *)
(* update trained from any model it could ever have read, and any model    *)
(* that was ever served may be scored at any time.                         *)
(***************************************************************************)
EXTENDS Integers, FiniteSets

CONSTANTS
    Devices,
    MIN_DEVICES_FOR_AGGREGATION,
    MAX_MODEL_VERSIONS_KEPT,
    ROLLBACK_F1_DROP,
    F1Scores,        \* the held-out F1 values told apart
    MaxVersion,      \* bound: the highest global version
    MaxRounds,       \* bound: aggregates computed, over all restarts
    MaxRestarts,     \* bound: how often the service dies
    MaxFaults        \* bound: failed file, database and Kafka calls

ASSUME DevicesAssumption == IsFiniteSet(Devices)

ASSUME PolicyAssumption ==
    /\ MIN_DEVICES_FOR_AGGREGATION \in Nat \ {0}
    /\ MAX_MODEL_VERSIONS_KEPT \in Nat \ {0}
    /\ ROLLBACK_F1_DROP \in Nat
    /\ F1Scores \subseteq Nat

ASSUME BoundsAssumption ==
    /\ MaxVersion \in Nat /\ MaxRounds \in Nat
    /\ MaxRestarts \in Nat /\ MaxFaults \in Nat

VARIABLES
    pc,            \* where the service's single thread is
    globalModel,   \* global_model: the model in memory
    pending,       \* pending_updates: the latest update of each device
    elapsed,       \* now - last_round_at >= ROUND_INTERVAL_SECONDS
    registry,      \* model_registry.versions
    files,         \* versions v with a file global_model_v<v>.json
    latest,        \* what global_model_latest.json holds
    dpRounds,      \* differential_privacy.rounds_processed
    rows,          \* table federated_models
    evaluations,   \* table model_evaluations: newest row of device 'ALL'
    output,        \* the last message sent to OUTPUT_TOPIC
    made,          \* history: aggregates computed, over all restarts
    unsaved,       \* history: versions of this life whose insert failed
    served,        \* history: models global_model_latest.json ever held
    rollbackLog,   \* history: <<degraded, target>> of this run's rollbacks
    restarts,      \* times the service died
    faults         \* calls that failed

memoryVars == <<globalModel, pending, elapsed, registry, dpRounds, rollbackLog>>
storeVars  == <<files, latest, rows, evaluations, output>>
historyVars == <<made, unsaved, served>>
vars == <<pc, memoryVars, storeVars, historyVars, restarts, faults>>

-----------------------------------------------------------------------------
Versions == 1 .. MaxVersion

NoVersion == 0      \* rolled_back_from is None
NoScore   == -1     \* heldout_f1 is None

ZeroParams   == 0
NoModelFile  == [version |-> 0, params |-> ZeroParams]
InitialModel == [version |-> 0, params |-> ZeroParams, rolledBackFrom |-> NoVersion]

Served == [version : Nat, params : Nat]
Model  == [version : Nat, params : Nat, rolledBackFrom : Nat]
Entry  == [params : Nat, rolledBackFrom : Nat, f1 : F1Scores \cup {NoScore}]

(* A row of federated_models.  Two fields are history: the life of the     *)
(* service that wrote the row, and the aggregates computed by then.        *)
Row == [version : Nat, params : Nat, dpRounds : Nat, life : Nat, released : Nat]

NoUpdate == [base |-> -1, params |-> -1]
Update   == [base : Nat, params : Nat]

NoEvaluation == [f1 |-> NoScore, params |-> ZeroParams]
Evaluation   == [f1 : F1Scores, params : Nat]

Buffered == {d \in Devices : pending[d] # NoUpdate}

PCs == {"idle", "check", "registering", "saving", "sending", "refreshing",
        "deciding", "registeringRollback", "savingRollback", "sendingRollback",
        "down"}

TypeOK ==
    /\ pc \in PCs
    /\ globalModel \in Model
    /\ pending \in [Devices -> Update \cup {NoUpdate}]
    /\ elapsed \in BOOLEAN
    /\ DOMAIN registry \subseteq Versions
    /\ registry \in [DOMAIN registry -> Entry]
    /\ files \subseteq Versions
    /\ latest \in Served
    /\ dpRounds \in Nat
    /\ rows \subseteq Row
    /\ evaluations \in [Versions -> Evaluation \cup {NoEvaluation}]
    /\ output \in Served
    /\ made \in Nat
    /\ unsaved \subseteq Versions
    /\ served \subseteq Served
    /\ rollbackLog \subseteq Versions \X Versions
    /\ restarts \in 0 .. MaxRestarts
    /\ faults \in 0 .. MaxFaults

-----------------------------------------------------------------------------
EmptyBuffer   == [d \in Devices |-> NoUpdate]
EmptyRegistry == [v \in {} |-> NoEvaluation]

Init ==
    /\ pc = "idle"
    /\ globalModel = InitialModel
    /\ pending = EmptyBuffer
    /\ elapsed = FALSE
    /\ registry = EmptyRegistry
    /\ dpRounds = 0
    /\ rollbackLog = {}
    /\ files = {}
    /\ latest = NoModelFile
    /\ rows = {}
    /\ evaluations = [v \in Versions |-> NoEvaluation]
    /\ output = NoModelFile
    /\ made = 0
    /\ unsaved = {}
    /\ served = {NoModelFile}
    /\ restarts = 0
    /\ faults = 0

(* A call to a file, the database or Kafka succeeds or fails.              *)
Outcomes == {"done", "failed"}

Fault(out) ==
    IF out = "failed" THEN faults < MaxFaults /\ faults' = faults + 1
                      ELSE UNCHANGED faults

-----------------------------------------------------------------------------
(* The buffer.                                                             *)

(* A slip of BufferUpdate: the base of an update trained from no global    *)
(* model is stored as it came, None.                                       *)
BufferUpdateNoneBase(d, u) ==
    pending' = [pending EXCEPT ![d] = IF u.base = 0 THEN [u EXCEPT !.base = -1] ELSE u]

(* process_local_model_update: the newest arrival overwrites the device's  *)
(* buffered update.  The audit row it adds to local_models is read by      *)
(* dashboards only and is left out.                                        *)
BufferUpdate(d, u) == pending' = [pending EXCEPT ![d] = u]

(* One message of a poll's batch; maybe_aggregate follows the last one.    *)
ReceiveUpdate(d, u) ==
    /\ pc \in {"idle", "check"}
    /\ BufferUpdate(d, u)
    /\ pc' = "check"
    /\ UNCHANGED <<globalModel, elapsed, registry, dpRounds, rollbackLog,
                   storeVars, historyVars, restarts, faults>>

(* ROUND_INTERVAL_SECONDS pass since the last round.                       *)
IntervalElapses ==
    /\ ~elapsed
    /\ elapsed' = TRUE
    /\ UNCHANGED <<pc, globalModel, pending, registry, dpRounds, rollbackLog,
                   storeVars, historyVars, restarts, faults>>

(* round_due; the bounds keep room for the round's rollback.               *)
WithinBound == globalModel.version + 1 < MaxVersion /\ made < MaxRounds

RoundDue ==
    /\ Cardinality(Buffered) >= MIN_DEVICES_FOR_AGGREGATION
    /\ elapsed
    /\ WithinBound

NoRoundDue ==
    /\ pc = "check"
    /\ ~RoundDue
    /\ pc' = "idle"
    /\ UNCHANGED <<memoryVars, storeVars, historyVars, restarts, faults>>

-----------------------------------------------------------------------------
(* One round.                                                              *)

(* A slip of BaseParams: the registry is not consulted.                    *)
BaseParamsCurrent(b) == IF b = 0 THEN ZeroParams ELSE globalModel.params

(* _base_vector: the parameters an update's delta is measured from.        *)
BaseParams(b) ==
    IF b = globalModel.version THEN globalModel.params
    ELSE IF b \in DOMAIN registry THEN registry[b].params
    ELSE IF b = 0 THEN ZeroParams
    ELSE globalModel.params

(* A slip of PublishModelFile: the file is opened for writing in place, so *)
(* a failed write leaves an empty one.                                     *)
PublishModelFileInPlace(model, out) ==
    LET copy == [version |-> model.version, params |-> model.params]
    IN  IF out = "done" THEN latest' = copy /\ served' = served \cup {copy}
              ELSE latest' = NoModelFile /\ UNCHANGED served

(* _publish_model_files: an atomic replace of the file, errors swallowed.  *)
PublishModelFile(model, out) ==
    LET copy == [version |-> model.version, params |-> model.params]
    IN  IF out = "done" THEN latest' = copy /\ served' = served \cup {copy}
              ELSE UNCHANGED <<latest, served>>

(* A slip of RoundCheckPoints: a round is only looked for after a message. *)
RoundCheckPointsOnMessage == {"check"}

(* The service calls maybe_aggregate after each message and after each     *)
(* poll, a poll that returned nothing included.                            *)
RoundCheckPoints == {"idle", "check"}

(* aggregate, up to the first file it writes.                              *)
Aggregate(out) ==
    /\ pc \in RoundCheckPoints
    /\ RoundDue
    /\ made' = made + 1
    /\ dpRounds' = dpRounds + 1
    /\ globalModel' = [version |-> globalModel.version + 1, params |-> made + 1,
                       rolledBackFrom |-> NoVersion]
    /\ PublishModelFile(globalModel', out)
    /\ Fault(out)
    /\ pc' = "registering"
    /\ UNCHANGED <<pending, elapsed, registry, rollbackLog, files, rows,
                   evaluations, output, unsaved, restarts>>

(* A slip of Newest: one version too many is kept.                         *)
NewestOffByOne(S) ==
    {v \in S : Cardinality({w \in S : w > v}) <= MAX_MODEL_VERSIONS_KEPT}

(* ModelRegistry.register: insert the model, then evict all but the        *)
(* newest MAX_MODEL_VERSIONS_KEPT versions and delete their files.         *)
Newest(S) ==
    {v \in S : Cardinality({w \in S : w > v}) < MAX_MODEL_VERSIONS_KEPT}

(* A slip of NewEntry: a rollback's entry inherits its target's score.     *)
NewEntryScored == [params |-> globalModel.params,
                   rolledBackFrom |-> globalModel.rolledBackFrom,
                   f1 |-> IF globalModel.rolledBackFrom \in DOMAIN registry
                          THEN registry[globalModel.rolledBackFrom].f1 ELSE NoScore]

NewEntry == [params |-> globalModel.params,
             rolledBackFrom |-> globalModel.rolledBackFrom, f1 |-> NoScore]

Register ==
    LET kept == Newest(DOMAIN registry \cup {globalModel.version})
    IN  /\ registry' = [v \in kept |-> IF v = globalModel.version THEN NewEntry
                                                                  ELSE registry[v]]
        /\ files' = (files \cup {globalModel.version})
                        \ ((DOMAIN registry \cup {globalModel.version}) \ kept)

RegisterModel ==
    /\ \/ pc = "registering" /\ pc' = "saving"
       \/ pc = "registeringRollback" /\ pc' = "savingRollback"
    /\ Register
    /\ UNCHANGED <<globalModel, pending, elapsed, dpRounds, rollbackLog, latest,
                   rows, evaluations, output, historyVars, restarts, faults>>

RowOf(model, budget) ==
    [version |-> model.version, params |-> model.params, dpRounds |-> budget,
     life |-> restarts, released |-> made]

(* A slip of SaveRoundToDb: a rollback's row takes over its target's       *)
(* budget.                                                                 *)
SaveRoundToDbTargetBudget(out) ==
    IF out = "done"
    THEN rows' = rows \cup {RowOf(globalModel, globalModel.params)} /\ UNCHANGED unsaved
    ELSE unsaved' = unsaved \cup {globalModel.version} /\ UNCHANGED rows

(* A slip of SaveRoundToDb: no row for a model whose file was not written. *)
SaveRoundToDbAfterFile(out) ==
    IF out = "done"
    THEN /\ rows' = IF latest.version = globalModel.version
                    THEN rows \cup {RowOf(globalModel, dpRounds)} ELSE rows
         /\ UNCHANGED unsaved
    ELSE unsaved' = unsaved \cup {globalModel.version} /\ UNCHANGED rows

(* _save_round_to_db: one row per version, with the accountant's count; a  *)
(* failed statement is logged and forgotten.                               *)
SaveRoundToDb(out) ==
    IF out = "done"
    THEN rows' = rows \cup {RowOf(globalModel, dpRounds)} /\ UNCHANGED unsaved
    ELSE unsaved' = unsaved \cup {globalModel.version} /\ UNCHANGED rows

(* The end of aggregate: the row, the emptied buffer, last_round_at.       *)
SaveRound(out) ==
    /\ pc = "saving"
    /\ SaveRoundToDb(out)
    /\ pending' = EmptyBuffer
    /\ elapsed' = FALSE
    /\ Fault(out)
    /\ pc' = "sending"
    /\ UNCHANGED <<globalModel, registry, dpRounds, rollbackLog, files, latest,
                   evaluations, output, made, served, restarts>>

(* _publish_global_update: send and flush, errors swallowed.               *)
PublishGlobalUpdate(out) ==
    output' = IF out = "done" THEN [version |-> globalModel.version, params |-> globalModel.params]
                    ELSE output

SendRound(out) ==
    /\ pc = "sending"
    /\ PublishGlobalUpdate(out)
    /\ Fault(out)
    /\ pc' = "refreshing"
    /\ UNCHANGED <<memoryVars, files, latest, rows, evaluations, historyVars,
                   restarts>>

-----------------------------------------------------------------------------
(* Held-out scores and rollback, after every round.                        *)

(* record_evaluations: the newest score of every version still registered. *)
RecordEvaluations ==
    registry' = [v \in DOMAIN registry |->
                    IF evaluations[v] = NoEvaluation THEN registry[v]
                    ELSE [registry[v] EXCEPT !.f1 = evaluations[v].f1]]

(* _refresh_evaluations_and_rollback: a failed query records nothing.      *)
RefreshEvaluations(out) ==
    /\ pc = "refreshing"
    /\ IF out = "done" THEN RecordEvaluations ELSE UNCHANGED registry
    /\ Fault(out)
    /\ pc' = "deciding"
    /\ UNCHANGED <<globalModel, pending, elapsed, dpRounds, rollbackLog,
                   storeVars, historyVars, restarts>>

Evaluated == {v \in DOMAIN registry : registry[v].f1 # NoScore}

IsLatestEvaluated(v) == v \in Evaluated /\ \A w \in Evaluated : w <= v

(* best: the highest F1, the oldest version among equals.                  *)
IsBest(v) ==
    /\ v \in Evaluated
    /\ \A w \in Evaluated :
          \/ registry[w].f1 < registry[v].f1
          \/ registry[w].f1 = registry[v].f1 /\ v <= w

(* A slip of AlreadyRolledBack: only the current model is looked at, which *)
(* a round has always just replaced.                                       *)
AlreadyRolledBackCurrentOnly(degraded, best) ==
    globalModel.rolledBackFrom # NoVersion

(* check_rollback: the latest evaluated version is worse than the best by  *)
(* more than the drop, and no newer version is a rollback to that best.    *)
AlreadyRolledBack(degraded, best) ==
    \/ globalModel.rolledBackFrom # NoVersion
    \/ \E v \in DOMAIN registry :
          registry[v].rolledBackFrom = best /\ v > degraded

CheckRollback(degraded, best) ==
    /\ IsLatestEvaluated(degraded)
    /\ IsBest(best)
    /\ degraded # best
    /\ registry[degraded].f1 < registry[best].f1 - ROLLBACK_F1_DROP
    /\ ~AlreadyRolledBack(degraded, best)

KeepModel ==
    /\ pc = "deciding"
    /\ ~\E degraded, best \in DOMAIN registry : CheckRollback(degraded, best)
    /\ pc' = "idle"
    /\ UNCHANGED <<memoryVars, storeVars, historyVars, restarts, faults>>

(* Slips of RollbackTo: the target's version number is published again;    *)
(* its parameters are not copied.                                          *)
RollbackToOldNumber(target) ==
    globalModel' = [version |-> target, params |-> registry[target].params,
                    rolledBackFrom |-> target]

RollbackToSameNumber(target) ==
    globalModel' = [globalModel EXCEPT !.params = registry[target].params,
                                       !.rolledBackFrom = target]

RollbackToOwnParams(target) ==
    globalModel' = [globalModel EXCEPT !.version = @ + 1, !.rolledBackFrom = target]

(* rollback_to: the target's parameters become a new global version.       *)
RollbackTo(target) ==
    globalModel' = [version |-> globalModel.version + 1,
                    params |-> registry[target].params,
                    rolledBackFrom |-> target]

RollBack(out) ==
    /\ pc = "deciding"
    /\ \E degraded, best \in DOMAIN registry :
          /\ CheckRollback(degraded, best)
          /\ RollbackTo(best)
          /\ rollbackLog' = rollbackLog \cup {<<degraded, best>>}
    /\ PublishModelFile(globalModel', out)
    /\ Fault(out)
    /\ pc' = "registeringRollback"
    /\ UNCHANGED <<pending, elapsed, registry, dpRounds, files, rows,
                   evaluations, output, made, unsaved, restarts>>

(* The end of rollback_to: the row, then the Kafka message.                *)
SaveRollback(out) ==
    /\ pc = "savingRollback"
    /\ SaveRoundToDb(out)
    /\ Fault(out)
    /\ pc' = "sendingRollback"
    /\ UNCHANGED <<memoryVars, files, latest, evaluations, output, made, served,
                   restarts>>

SendRollback(out) ==
    /\ pc = "sendingRollback"
    /\ PublishGlobalUpdate(out)
    /\ Fault(out)
    /\ pc' = "idle"
    /\ UNCHANGED <<memoryVars, files, latest, rows, evaluations, historyVars,
                   restarts>>

-----------------------------------------------------------------------------
(* The service dies (an error nothing catches, such as a failed write in   *)
(* register, or the process is killed) and its container restarts it.      *)

Die ==
    /\ pc # "down"
    /\ restarts < MaxRestarts
    /\ globalModel' = InitialModel
    /\ pending' = EmptyBuffer
    /\ elapsed' = FALSE
    /\ registry' = EmptyRegistry
    /\ dpRounds' = 0
    /\ rollbackLog' = {}
    /\ unsaved' = {}
    /\ restarts' = restarts + 1
    /\ pc' = "down"
    /\ UNCHANGED <<storeVars, made, served, faults>>

(* __init__: a new GlobalModel, and _reset_model_dir empties the directory *)
(* of model files.  The database keeps its tables.                         *)
Restart ==
    /\ pc = "down"
    /\ files' = {}
    /\ latest' = NoModelFile
    /\ pc' = "idle"
    /\ UNCHANGED <<memoryVars, rows, evaluations, output, historyVars, restarts,
                   faults>>

-----------------------------------------------------------------------------
(* Spark inserts a held-out score of a model it read from the model file.  *)
Evaluate(m, f1) ==
    /\ m.version # 0
    /\ evaluations' = [evaluations EXCEPT ![m.version] = [f1 |-> f1, params |-> m.params]]
    /\ UNCHANGED <<pc, memoryVars, files, latest, rows, output, historyVars,
                   restarts, faults>>

-----------------------------------------------------------------------------
ServiceStep ==
    \/ NoRoundDue
    \/ \E out \in Outcomes : Aggregate(out)
    \/ RegisterModel
    \/ \E out \in Outcomes : SaveRound(out)
    \/ \E out \in Outcomes : SendRound(out)
    \/ \E out \in Outcomes : RefreshEvaluations(out)
    \/ KeepModel
    \/ \E out \in Outcomes : RollBack(out)
    \/ \E out \in Outcomes : SaveRollback(out)
    \/ \E out \in Outcomes : SendRollback(out)

Service == ServiceStep \/ Restart

OpenWorld ==
    \/ \E d \in Devices, m \in served :
          ReceiveUpdate(d, [base |-> m.version, params |-> m.params])
    \/ IntervalElapses
    \/ \E m \in served, f1 \in F1Scores : Evaluate(m, f1)

Environment == OpenWorld \/ Die

Next == Service \/ Environment

Spec == Init /\ [][Next]_vars

(* The main loop never blocks for more than a poll's second, the container *)
(* is restarted whenever it ends, and time passes.  Nothing obliges a      *)
(* device to send or Spark to score.                                       *)
FairSpec == Spec /\ WF_vars(Service) /\ WF_vars(IntervalElapses)

-----------------------------------------------------------------------------
(* Properties.                                                             *)

(* While a new version is being written it is not registered yet.          *)
Registered ==
    IF pc \in {"registering", "registeringRollback"} THEN globalModel.version - 1
                                                     ELSE globalModel.version

Window(n) == {v \in Versions : v <= n /\ v > n - MAX_MODEL_VERSIONS_KEPT}

(* The registry holds exactly the last MAX_MODEL_VERSIONS_KEPT versions,   *)
(* rollbacks included, and the directory exactly their files: eviction     *)
(* neither skips a version nor leaves a file behind.                       *)
RegistryIsWindow ==
    /\ DOMAIN registry = Window(Registered)
    /\ pc # "down" => files = DOMAIN registry

(* Every place a version number is written to: the memory of the service,  *)
(* its registry, the file devices and Spark read, federated_models, the    *)
(* Kafka topic and the models Spark's scores are about.                    *)
CurrentModel   == [version |-> globalModel.version, params |-> globalModel.params]
RowModels      == {[version |-> r.version, params |-> r.params] : r \in rows}
RegistryModels == {[version |-> v, params |-> registry[v].params] : v \in DOMAIN registry}
Scored         == {v \in Versions : evaluations[v] # NoEvaluation}
ScoredModels   == {[version |-> v, params |-> evaluations[v].params] : v \in Scored}

Published ==
    served \cup RowModels \cup RegistryModels \cup ScoredModels \cup {output, CurrentModel}

(* As long as the service has not been restarted, which starts the numbers *)
(* again, a version number names one model wherever it is written,         *)
(* whatever was rolled back or failed to be written in between.  Devices   *)
(* name the model they started from, and Spark the model it scored, by     *)
(* number alone.                                                           *)
VersionNamesOneModel ==
    restarts = 0 => \A m1, m2 \in Published : m1.version = m2.version => m1.params = m2.params

(* A delta is measured from the parameters the device really started from, *)
(* unless these were evicted.  Every round empties the buffer, so an old   *)
(* base comes with an update that arrives late: trained before the rounds  *)
(* and rollbacks that have since moved the global model on.  Numbers of an *)
(* earlier life of the service mislead _base_vector, so this is said of    *)
(* the first.                                                              *)
BaseIsKept(b) == b \in DOMAIN registry \cup {0, globalModel.version}

DeltasMeasuredFromBase ==
    restarts = 0 => \A d \in Buffered :
        BaseIsKept(pending[d].base) => BaseParams(pending[d].base) = pending[d].params

(* The score the registry holds for a version is a score of that version's *)
(* parameters, so a rollback compares what it believes it compares.  In a  *)
(* later life the table still has scores of the earlier one's numbers.     *)
ScoresBelongToModel ==
    restarts = 0 => \A v \in DOMAIN registry :
        registry[v].f1 # NoScore => evaluations[v].params = registry[v].params

(* While a rollback is the current model of the first life, its parameters *)
(* are those of the version it names, and Spark scored exactly those.      *)
RolledBackModelWasScored ==
    (restarts = 0 /\ globalModel.rolledBackFrom # NoVersion) =>
        /\ globalModel.rolledBackFrom < globalModel.version
        /\ evaluations[globalModel.rolledBackFrom].params = globalModel.params

(* The privacy budget stored with a version, a rollback too, covers every  *)
(* noised aggregate computed before its row was written.  The accountant   *)
(* is kept in memory, so this is said of the rows of the first life.       *)
BudgetCoversReleases == \A r \in rows : r.life = 0 => r.dpRounds >= r.released

(* The model file only moves forward while the service lives, also when    *)
(* writes of it fail: a device that adopts newer versions only misses none *)
(* of them for having seen a higher number.                                *)
LatestNeverRegresses == [][pc # "down" => latest'.version >= latest.version]_vars

(* For one degraded version no version is rolled back to twice, although   *)
(* the registry evicts and the scores change between the checks.           *)
RollbackIsNew ==
    [][pc = "deciding" /\ pc' = "registeringRollback" => rollbackLog' # rollbackLog]_vars

(* A buffer that is full enough is aggregated (or lost with the service)   *)
(* even when no further update arrives to trigger the round.               *)
DueRoundRuns ==
    (Cardinality(Buffered) >= MIN_DEVICES_FOR_AGGREGATION /\ WithinBound)
        ~> (Buffered = {})

(* Once its round is over, every version of this life, a rollback too, has *)
(* a row this life wrote, unless the insert of that very version failed:   *)
(* no other failing call costs a row.                                      *)
HasRow(v) == \E r \in rows : r.version = v /\ r.life = restarts

RowsMissingByFailure ==
    pc \in {"idle", "check"} =>
        \A v \in 1 .. globalModel.version : HasRow(v) \/ v \in unsaved

(* Readers of the model file cannot tell the aggregator from ModelService: *)
(* whatever is buffered, evicted, scored or fails in between, version      *)
(* numbers go up one by one and every model they find is the current one   *)
(* or the last one that could be written.                                  *)
ForReaders == INSTANCE ModelService WITH
    current   <- CurrentModel,
    released  <- made,
    published <- latest,
    up        <- pc # "down"

ImplementsModelService == ForReaders!Spec

=============================================================================
