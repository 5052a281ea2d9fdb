----------------------- MODULE FederatedLearningProofs -----------------------
(***************************************************************************)
(* The learning loop implements the aggregator's specification, for any    *)
(* number of devices and workers, so every theorem about the aggregator    *)
(* is a theorem about the loop.                                            *)
(***************************************************************************)
EXTENDS FederatedLearning, FederatedAggregationProofs

USE DEF historyVars

-----------------------------------------------------------------------------
(* Every model held by a worker, a device, a message or Spark was served.  *)
ServedInv ==
    /\ latest \in served /\ NoModelFile \in served
    /\ cache \in [Workers -> [model : served, fresh : BOOLEAN]]
    /\ local \in [Devices -> [base : served, rounds : Nat]]
    /\ \A msg \in topic : msg.device \in Devices /\ msg.base \in served
    /\ sparkModel \in served

(* The aggregator's own steps only ever add to what was served.            *)
LEMMA ServedGrows ==
    ASSUME latest \in served, NoModelFile \in served, [Next]_vars
    PROVE  latest' \in served' /\ served \subseteq served'
<1>1. ASSUME NEW out \in Outcomes, Aggregate(out)
      PROVE  latest' \in served' /\ served \subseteq served'
  BY <1>1 DEF Aggregate, PublishModelFile
<1>2. ASSUME NEW out \in Outcomes, RollBack(out)
      PROVE  latest' \in served' /\ served \subseteq served'
  BY <1>2 DEF RollBack, PublishModelFile
<1>3. CASE served' = served /\ (latest' = latest \/ latest' = NoModelFile)
  BY <1>3
<1>4. CASE Service
  BY <1>1, <1>2, <1>3, <1>4
  DEF Service, ServiceStep, NoRoundDue, RegisterModel, SaveRound, SendRound,
      RefreshEvaluations, KeepModel, SaveRollback, SendRollback, Restart, storeVars
<1>5. CASE Environment
  BY <1>3, <1>5 DEF Environment, OpenWorld, ReceiveUpdate, IntervalElapses, Die,
                    Evaluate, storeVars
<1>6. CASE UNCHANGED vars
  BY <1>3, <1>6 DEF vars, storeVars
<1>7. QED
  BY <1>4, <1>5, <1>6 DEF Next

(* A step of the loop is a step of the aggregator's specification or       *)
(* leaves the aggregator and its environment alone.                        *)
LEMMA StepImplements ==
    ASSUME ServedInv, [LearningNext]_learningVars
    PROVE  [Next]_vars
<1>1. CASE AggregatorStep
  BY <1>1 DEF AggregatorStep, Next, Environment, OpenWorld
<1>2. ASSUME NEW msg \in topic, DeliverUpdate(msg) PROVE Next
  <2>1. msg.device \in Devices /\ msg.base \in served
    BY DEF ServedInv
  <2>2. ReceiveUpdate(msg.device, [base |-> msg.base.version, params |-> msg.base.params])
    BY <1>2 DEF DeliverUpdate
  <2>3. Environment
    BY <2>1, <2>2 DEF Environment, OpenWorld
  <2>4. QED
    BY <2>3 DEF Next
<1>3. CASE FlinkStep
  BY <1>3 DEF FlinkStep, CacheExpires, RestartWorker, Train
<1>4. ASSUME NEW f1 \in F1Scores, ScoreModel(f1) PROVE Next
  <2>1. Evaluate(sparkModel, f1) /\ sparkModel \in served
    BY <1>4 DEF ScoreModel, ServedInv
  <2>2. Environment
    BY <2>1 DEF Environment, OpenWorld
  <2>3. QED
    BY <2>2 DEF Next
<1>5. CASE LoadModel \/ ScoreFails
  BY <1>5 DEF LoadModel, ScoreFails
<1>6. CASE UNCHANGED learningVars
  BY <1>6 DEF learningVars
<1>7. QED
  BY <1>1, <1>2, <1>3, <1>4, <1>5, <1>6 DEF LearningNext, SparkStep

-----------------------------------------------------------------------------
(* A training starts from the model it read or goes on from the one it had.*)
LEMMA TrainReadsServed ==
    ASSUME ServedInv, NEW d \in Devices, NEW w \in Workers
    PROVE  /\ CachedModel(w) \in served
           /\ Synced(d, CachedModel(w)) \in [base : served, rounds : Nat]
<1>1. CachedModel(w) \in served
  BY DEF CachedModel, ServedInv
<1>2. QED
  BY <1>1 DEF Synced, ServedInv

LEMMA ServedStep ==
    ASSUME ServedInv, [LearningNext]_learningVars
    PROVE  ServedInv'
<1>1. latest' \in served' /\ NoModelFile \in served' /\ served \subseteq served'
  BY StepImplements, ServedGrows DEF ServedInv
<1>2. /\ cache \in [Workers -> [model : served', fresh : BOOLEAN]]
      /\ local \in [Devices -> [base : served', rounds : Nat]]
      /\ \A msg \in topic : msg.device \in Devices /\ msg.base \in served'
      /\ sparkModel \in served'
  BY <1>1 DEF ServedInv
<1>3. CASE UNCHANGED <<cache, local, sparkPc, sparkModel>> /\ topic' \subseteq topic
  BY <1>1, <1>2, <1>3 DEF ServedInv
<1>4. ASSUME NEW w \in Workers, CacheExpires(w) PROVE ServedInv'
  BY <1>1, <1>2, <1>4 DEF CacheExpires, sparkVars, ServedInv
<1>5. ASSUME NEW w \in Workers, RestartWorker(w) PROVE ServedInv'
  <2>1. cache' \in [Workers -> [model : served', fresh : BOOLEAN]]
    BY <1>1, <1>2, <1>5 DEF RestartWorker, NoModelRead
  <2>2. local' \in [Devices -> [base : served', rounds : Nat]]
    BY <1>1, <1>2, <1>5 DEF RestartWorker, NewLocal
  <2>3. QED
    BY <1>1, <1>2, <1>5, <2>1, <2>2 DEF RestartWorker, sparkVars, ServedInv
<1>6. ASSUME NEW d \in Devices, Train(d) PROVE ServedInv'
  <2> DEFINE w == WorkerOf[d]
  <2> DEFINE start == Synced(d, CachedModel(w))
  <2>1. w \in Workers
    BY WorkersAssumption
  <2>2. CachedModel(w) \in served /\ start \in [base : served, rounds : Nat]
    BY <2>1, TrainReadsServed
  <2>3. /\ cache' = [cache EXCEPT ![w] = [model |-> CachedModel(w), fresh |-> TRUE]]
        /\ local' = [local EXCEPT ![d] = [start EXCEPT !.rounds = Counted(@)]]
        /\ topic' = topic \cup {[device |-> d, number |-> Counted(trainings[d]),
                                 base |-> start.base, rounds |-> Counted(start.rounds)]}
        /\ UNCHANGED sparkVars
    BY <1>6 DEF Train
  <2> HIDE DEF w, start
  <2>4. [start EXCEPT !.rounds = Counted(@)] \in [base : served, rounds : Nat]
    BY <2>2 DEF Counted
  <2>5. local' \in [Devices -> [base : served', rounds : Nat]]
    BY <1>1, <1>2, <2>3, <2>4
  <2>6. cache' \in [Workers -> [model : served', fresh : BOOLEAN]]
    BY <1>1, <1>2, <2>2, <2>3
  <2>7. \A msg \in topic' : msg.device \in Devices /\ msg.base \in served'
    BY <1>1, <1>2, <2>2, <2>3
  <2>8. QED
    BY <1>1, <1>2, <2>3, <2>5, <2>6, <2>7 DEF sparkVars, ServedInv
<1>7. CASE LoadModel
  BY <1>1, <1>2, <1>7 DEF LoadModel, flinkVars, vars, storeVars, ServedInv
<1>8. CASE ScoreFails \/ \E f1 \in F1Scores : ScoreModel(f1)
  BY <1>1, <1>2, <1>8 DEF ScoreFails, ScoreModel, flinkVars, ServedInv
<1>9. CASE AggregatorStep \/ UNCHANGED learningVars
  BY <1>3, <1>9 DEF AggregatorStep, learningVars, flinkVars, sparkVars
<1>10. CASE \E msg \in topic : DeliverUpdate(msg)
  BY <1>3, <1>10 DEF DeliverUpdate, flinkVars, sparkVars
<1>11. QED
  BY <1>4, <1>5, <1>6, <1>7, <1>8, <1>9, <1>10 DEF LearningNext, FlinkStep, SparkStep

LEMMA ServedInvariant == LearningSpec => []ServedInv
<1>1. LearningInit => ServedInv
  BY DEF LearningInit, Init, ServedInv, NoModelRead, NewLocal
<1>2. QED
  BY <1>1, ServedStep, PTL DEF LearningSpec

(* Whatever the workers cache, however messages are reordered and whenever *)
(* Spark scores: the loop is one of the aggregator's open environments.    *)
THEOREM LearningImplementsAggregator == LearningSpec => AggregatorSpec
<1>1. LearningInit => Init
  BY DEF LearningInit
<1>2. ServedInv /\ [LearningNext]_learningVars => [Next]_vars
  BY StepImplements
<1>3. QED
  BY <1>1, <1>2, ServedInvariant, PTL DEF LearningSpec, AggregatorSpec, Spec

(* What the aggregator promises in its open environment it keeps in the    *)
(* loop, for any number of devices and workers: in its first life a        *)
(* version names one model, deltas are measured from the model they name,  *)
(* scores belong to their model, the noise budget is counted and a         *)
(* rollback restores a model that was scored; in every life the registry   *)
(* is a window, a row is missing only if its insert failed, and a rollback *)
(* that is logged was not logged before.                                   *)
THEOREM LoopKeepsPromises ==
    LearningSpec => /\ [](/\ VersionNamesOneModel
                          /\ DeltasMeasuredFromBase
                          /\ ScoresBelongToModel
                          /\ BudgetCoversReleases
                          /\ RolledBackModelWasScored
                          /\ RegistryIsWindow
                          /\ RowsMissingByFailure)
                    /\ LatestNeverRegresses
                    /\ RollbackIsNew
  BY LearningImplementsAggregator, VersionNaming, DeltasFromBase, ScoresOfOwnModel, BudgetCovers,
     RollbackRestoresScored, RegistryWindow, RowsOnlyMissByFailure, ModelFileMonotone,
     RollbackNotRepeated, PTL DEF AggregatorSpec

-----------------------------------------------------------------------------
(* Types.                                                                  *)

NumbersInv ==
    /\ trainings \in [Devices -> Nat]
    /\ topic \subseteq Message
    /\ sparkPc \in {"watching", "scoring"}
    /\ evaluatedVersion \in Nat
    /\ workerRestarts \in Nat

LEMMA ServedAreModels ==
    ASSUME TypeInv, ServedInv, NumbersInv
    PROVE  LearningTypeOK
  BY DEF TypeInv, TypeOK, ServedInv, NumbersInv, LearningTypeOK

LEMMA NumbersStep ==
    ASSUME TypeInv, ServedInv, NumbersInv, [LearningNext]_learningVars
    PROVE  NumbersInv'
<1>1. served \subseteq Served
  BY DEF TypeInv, TypeOK
<1>2. ASSUME NEW d \in Devices, Train(d) PROVE NumbersInv'
  <2> DEFINE w == WorkerOf[d]
             start == Synced(d, CachedModel(w))
             msg == [device |-> d, number |-> Counted(trainings[d]),
                     base |-> start.base, rounds |-> Counted(start.rounds)]
  <2>1. w \in Workers
    BY WorkersAssumption
  <2>2. start \in [base : served, rounds : Nat]
    BY <2>1, TrainReadsServed
  <2>3. /\ trainings' = [trainings EXCEPT ![d] = Counted(@)]
        /\ topic' = topic \cup {msg}
        /\ UNCHANGED <<workerRestarts, sparkVars>>
    BY <1>2 DEF Train
  <2> HIDE DEF w, start
  <2>4. Counted(trainings[d]) \in Nat /\ Counted(start.rounds) \in Nat
    BY <2>2 DEF NumbersInv, Counted
  <2>5. msg \in Message
    BY <1>1, <2>2, <2>4 DEF Message
  <2>6. trainings' \in [Devices -> Nat]
    BY <2>3, <2>4 DEF NumbersInv
  <2>7. QED
    BY <2>3, <2>5, <2>6 DEF NumbersInv, sparkVars
<1>3. CASE \E w \in Workers : CacheExpires(w) \/ RestartWorker(w)
  BY <1>3 DEF CacheExpires, RestartWorker, NumbersInv, sparkVars
<1>4. CASE SparkStep
  <2>1. sparkModel.version \in Nat
    BY <1>1 DEF ServedInv, Served
  <2>2. QED
    BY <1>4, <2>1 DEF SparkStep, LoadModel, ScoreFails, ScoreModel, flinkVars, NumbersInv
<1>5. CASE AggregatorStep \/ \E msg \in topic : DeliverUpdate(msg)
  BY <1>5 DEF AggregatorStep, DeliverUpdate, flinkVars, sparkVars, NumbersInv
<1>6. CASE UNCHANGED learningVars
  BY <1>6 DEF learningVars, flinkVars, sparkVars, NumbersInv
<1>7. QED
  BY <1>2, <1>3, <1>4, <1>5, <1>6 DEF LearningNext, FlinkStep

(* Every variable of the workers, the topic and Spark keeps its type; what *)
(* they hold are models because what was served are.                       *)
THEOREM LearningTypeCorrect == LearningSpec => []LearningTypeOK
<1>1. LearningInit => NumbersInv
  BY DEF LearningInit, NumbersInv, NoVersion
<1>2. LearningSpec => []TypeInv
  BY LearningImplementsAggregator, TypeInvariant, PTL DEF AggregatorSpec
<1>3. QED
  BY <1>1, <1>2, NumbersStep, ServedInvariant, ServedAreModels, PTL DEF LearningSpec

-----------------------------------------------------------------------------
(* Spark scores versions in order.                                         *)

(* In the first life the service is never down and the file only advances. *)
LEMMA FirstLifeStep ==
    ASSUME TypeInv, LatestInv, restarts = 0 => pc # "down", [Next]_vars, (restarts = 0)'
    PROVE  /\ restarts = 0 /\ pc # "down" /\ pc' # "down"
           /\ latest'.version >= latest.version
<1>1. restarts = 0 /\ ~Die
  BY FirstLife
<1>2. pc # "down" /\ latest'.version >= latest.version
  BY <1>1, LatestStep
<1>3. pc' # "down"
  BY <1>1, <1>2
  DEF Next, Service, ServiceStep, Environment, OpenWorld, NoRoundDue, Aggregate,
      RegisterModel, SaveRound, SendRound, RefreshEvaluations, KeepModel, RollBack,
      SaveRollback, SendRollback, Restart, ReceiveUpdate, IntervalElapses, Evaluate, vars
<1>4. QED
  BY <1>1, <1>2, <1>3

ScoringInv ==
    restarts = 0 =>
        /\ pc # "down"
        /\ evaluatedVersion <= sparkModel.version
        /\ sparkModel.version <= latest.version
        /\ \A v \in Scored : v <= evaluatedVersion

LEMMA ScoringStep ==
    ASSUME TypeInv, LatestInv, ServedInv, ScoringInv, evaluatedVersion \in Nat,
           [LearningNext]_learningVars
    PROVE  ScoringInv' /\ (evaluatedVersion \in Nat)'
<1>1. [Next]_vars
  BY StepImplements
<1>2. sparkModel.version \in Nat /\ latest.version \in Nat /\ latest'.version \in Nat
  BY <1>1, TypeStep DEF ServedInv, TypeInv, TypeOK, Served
<1>3. ASSUME restarts' = 0
      PROVE  /\ restarts = 0 /\ pc # "down" /\ pc' # "down"
             /\ latest'.version >= latest.version
  BY <1>1, <1>3, FirstLifeStep DEF ScoringInv
<1>4. CASE UNCHANGED <<sparkModel, evaluatedVersion, evaluations>>
  BY <1>2, <1>3, <1>4 DEF ScoringInv, Scored
<1>5. CASE LoadModel
  <2>1. sparkModel' = latest /\ UNCHANGED <<latest, evaluatedVersion, evaluations>>
    BY <1>5 DEF LoadModel, vars, storeVars
  <2>2. QED
    BY <1>2, <1>3, <2>1 DEF ScoringInv, Scored
<1>6. CASE ScoreFails
  <2>1. /\ evaluatedVersion' = sparkModel.version
        /\ UNCHANGED <<latest, sparkModel, evaluations>>
    BY <1>6 DEF ScoreFails, vars, storeVars
  <2>2. QED
    BY <1>2, <1>3, <2>1 DEF ScoringInv, Scored, Versions
<1>7. ASSUME NEW f1 \in F1Scores, ScoreModel(f1) PROVE ScoringInv' /\ evaluatedVersion' \in Nat
  <2>1. /\ evaluatedVersion' = sparkModel.version /\ UNCHANGED <<sparkModel, latest>>
        /\ evaluations' = [evaluations EXCEPT ![sparkModel.version] =
                              [f1 |-> f1, params |-> sparkModel.params]]
    BY <1>7 DEF ScoreModel, Evaluate
  <2>2. Scored' \subseteq Scored \cup {sparkModel.version}
    BY <2>1 DEF Scored, TypeInv, TypeOK
  <2>3. QED
    BY <1>2, <1>3, <2>1, <2>2 DEF ScoringInv, Scored, Versions
<1>8. CASE AggregatorStep
  <2>1. UNCHANGED evaluations
    BY <1>8
    DEF AggregatorStep, Service, ServiceStep, NoRoundDue, Aggregate, RegisterModel,
        SaveRound, SendRound, RefreshEvaluations, KeepModel, RollBack, SaveRollback,
        SendRollback, Restart, IntervalElapses, Die, storeVars
  <2>2. QED
    BY <1>4, <1>8, <2>1 DEF AggregatorStep, sparkVars
<1>9. CASE FlinkStep \/ \E msg \in topic : DeliverUpdate(msg)
  BY <1>4, <1>9
  DEF FlinkStep, CacheExpires, Train, RestartWorker, DeliverUpdate, ReceiveUpdate, vars,
      sparkVars, storeVars
<1>10. CASE UNCHANGED learningVars
  BY <1>4, <1>10 DEF learningVars, vars, sparkVars, storeVars
<1>11. QED
  BY <1>4, <1>5, <1>6, <1>7, <1>8, <1>9, <1>10 DEF LearningNext, SparkStep

(* Until the aggregator first dies, the version Spark evaluated last is    *)
(* the newest one with a score.                                            *)
THEOREM ScoresInOrder == LearningSpec => []LastScoredIsNewest
<1>1. LearningInit => ScoringInv /\ evaluatedVersion \in Nat
  BY DEF LearningInit, Init, ScoringInv, Scored, NoModelFile, NoVersion
<1>2. ScoringInv => LastScoredIsNewest
  BY DEF ScoringInv, LastScoredIsNewest
<1>3. QED
  BY <1>1, <1>2, ScoringStep, LearningImplementsAggregator, TypeInvariant, LatestInvariant,
     ServedInvariant, PTL DEF LearningSpec, AggregatorSpec

-----------------------------------------------------------------------------
(* Second rollbacks.  While Spark scores versions in order, what the       *)
(* registry has judged stands: the version found degraded stays the newest *)
(* scored one only as long as no older one gets a score, and a version's   *)
(* score never changes, so the target of its rollback stays the best.      *)

ScoresStand ==
    \A v \in Evaluated : v \in Scored /\ registry[v].f1 = evaluations[v].f1

NoLateScores ==
    \A v \in Evaluated, w \in DOMAIN registry : w < v /\ w \in Scored => w \in Evaluated

TargetsStand ==
    \A p \in rollbackLog :
        /\ p[1] < globalModel.version
        /\ p[1] \in DOMAIN registry => p[1] \in Evaluated
        /\ p[2] \in DOMAIN registry /\ IsLatestEvaluated(p[1]) => IsBest(p[2])

JudgedInv == ScoresStand /\ NoLateScores /\ TargetsStand

LEMMA RegisterKeepsJudged ==
    ASSUME TypeInv, WindowInv, RollbackInv, JudgedInv, RegisterModel
    PROVE  JudgedInv'
<1> DEFINE n == globalModel.version
<1>1. /\ n \in Nat /\ DOMAIN registry = Window(n - 1)
      /\ registry' = [v \in Window(n) |-> IF v = n THEN NewEntry ELSE registry[v]]
      /\ UNCHANGED <<globalModel, rollbackLog, evaluations>>
  BY RegisterMovesWindow DEF RegisterModel
<1>2. Scored' = Scored /\ n' = n
  BY <1>1 DEF Scored
<1>3. \A v \in Window(n) : v # n => v \in DOMAIN registry /\ registry'[v] = registry[v]
  <2>1. ASSUME NEW v \in Window(n), v # n PROVE v \in Window(n - 1)
    <3>1. v \in Nat /\ v <= n /\ v > n - MAX_MODEL_VERSIONS_KEPT
      BY DEF Window, Versions
    <3>2. v <= n - 1 /\ v > (n - 1) - MAX_MODEL_VERSIONS_KEPT
      BY <1>1, <2>1, <3>1, PolicyAssumption
    <3>3. QED
      BY <3>2 DEF Window
  <2>2. QED
    BY <1>1, <2>1
<1>4. Evaluated' = {v \in Evaluated : v \in Window(n)}
  <2>1. ASSUME NEW v \in Evaluated' PROVE v \in Evaluated /\ v \in Window(n) /\ v # n
    <3>1. v \in Window(n) /\ registry'[v].f1 # NoScore
      BY <1>1 DEF Evaluated
    <3>2. v # n
      BY <1>1, <3>1 DEF NewEntry
    <3>3. QED
      BY <1>3, <3>1, <3>2 DEF Evaluated
  <2>2. ASSUME NEW v \in Evaluated, v \in Window(n) PROVE v \in Evaluated'
    <3>1. v # n
      BY <1>1 DEF Evaluated, Window, Versions
    <3>2. QED
      BY <1>1, <1>3, <2>2, <3>1 DEF Evaluated
  <2>3. QED
    BY <2>1, <2>2
<1>5. \A v \in Evaluated : v \in Nat /\ v < n /\ (v \notin Window(n) => v <= n - MAX_MODEL_VERSIONS_KEPT)
  BY <1>1, BoundsAssumption, PolicyAssumption DEF Evaluated, Window, Versions
<1>6. \A v \in Evaluated' : registry'[v] = registry[v]
  BY <1>3, <1>4, <1>5
<1>7. ScoresStand'
  BY <1>1, <1>2, <1>4, <1>6 DEF JudgedInv, ScoresStand
<1>8. NoLateScores'
  BY <1>1, <1>2, <1>3, <1>4, <1>5 DEF JudgedInv, NoLateScores
<1>9. ASSUME NEW p \in rollbackLog
      PROVE  /\ p[1] < n
             /\ p[1] \in DOMAIN registry' => p[1] \in Evaluated'
             /\ p[2] \in DOMAIN registry' /\ IsLatestEvaluated(p[1])' => IsBest(p[2])'
  <2> DEFINE d == p[1]
             t == p[2]
  <2>1. d < n /\ t < n /\ d \in Nat /\ t \in Nat
    BY DEF JudgedInv, TargetsStand, RollbackInv, TypeInv, TypeOK, Versions
  <2>2. d \in DOMAIN registry' => d \in Evaluated'
    BY <1>1, <1>3, <1>4, <2>1 DEF JudgedInv, TargetsStand
  <2>3. ASSUME t \in DOMAIN registry', IsLatestEvaluated(d)' PROVE IsBest(t)'
    <3>1. t \in DOMAIN registry /\ t \in Window(n)
      BY <1>1, <1>3, <2>1, <2>3
    <3>2. d \in Evaluated /\ d \in Window(n) /\ \A w \in Evaluated' : w <= d
      BY <1>4, <2>3 DEF IsLatestEvaluated
    <3>3. d > n - MAX_MODEL_VERSIONS_KEPT
      BY <3>2 DEF Window
    <3>4. ASSUME NEW w \in Evaluated PROVE w <= d
      <4>1. CASE w \in Window(n)
        BY <1>4, <3>2, <4>1
      <4>2. CASE w \notin Window(n)
        BY <1>1, <1>5, <2>1, <3>3, <4>2, PolicyAssumption
      <4>3. QED
        BY <4>1, <4>2
    <3>5. IsBest(t)
      BY <3>1, <3>2, <3>4 DEF JudgedInv, TargetsStand, IsLatestEvaluated
    <3>6. t \in Evaluated'
      BY <1>4, <3>1, <3>5 DEF IsBest
    <3>7. QED
      BY <1>4, <1>6, <3>5, <3>6 DEF IsBest
  <2>4. QED
    BY <2>1, <2>2, <2>3
<1>10. QED
  BY <1>1, <1>2, <1>7, <1>8, <1>9 DEF JudgedInv, TargetsStand

LEMMA RefreshKeepsJudged ==
    ASSUME TypeInv, JudgedInv, NEW out \in Outcomes, RefreshEvaluations(out)
    PROVE  JudgedInv'
<1>1. UNCHANGED <<globalModel, rollbackLog, evaluations>>
  BY DEF RefreshEvaluations, storeVars
<1>2. Scored' = Scored
  BY <1>1 DEF Scored
<1>3. CASE registry' = registry
  BY <1>1, <1>2, <1>3
  DEF JudgedInv, ScoresStand, NoLateScores, TargetsStand, Evaluated, IsLatestEvaluated,
      IsBest
<1>4. CASE RecordEvaluations
  <2>1. DOMAIN registry' = DOMAIN registry /\ DOMAIN registry \subseteq Versions
    BY <1>4 DEF RecordEvaluations, TypeInv, TypeOK
  <2>2. ASSUME NEW v \in DOMAIN registry
        PROVE  /\ v \in Scored => registry'[v].f1 = evaluations[v].f1 /\ registry'[v].f1 # NoScore
               /\ v \notin Scored => registry'[v] = registry[v]
    <3>1. /\ v \in Versions /\ registry[v] \in Entry
          /\ v \in Scored => evaluations[v] # NoEvaluation /\ evaluations[v] \in Evaluation
          /\ v \notin Scored => evaluations[v] = NoEvaluation
      BY <2>1 DEF Scored, TypeInv, TypeOK
    <3>2. registry'[v] = IF evaluations[v] = NoEvaluation THEN registry[v]
                         ELSE [registry[v] EXCEPT !.f1 = evaluations[v].f1]
      BY <1>4 DEF RecordEvaluations
    <3>3. v \in Scored => registry'[v].f1 = evaluations[v].f1
      BY <3>1, <3>2 DEF Entry
    <3>4. v \in Scored => evaluations[v].f1 # NoScore
      BY <3>1, PolicyAssumption DEF Evaluation, NoScore
    <3>5. QED
      BY <3>1, <3>2, <3>3, <3>4
  <2>3. Evaluated' = DOMAIN registry \cap Scored
    BY <2>1, <2>2 DEF Evaluated, JudgedInv, ScoresStand
  <2>4. Evaluated \subseteq Evaluated'
    BY <2>3 DEF Evaluated, JudgedInv, ScoresStand
  <2>5. \A v \in Evaluated : registry'[v].f1 = registry[v].f1
    BY <2>2 DEF Evaluated, JudgedInv, ScoresStand
  <2>6. ScoresStand' /\ NoLateScores'
    BY <1>1, <1>2, <2>1, <2>2, <2>3 DEF ScoresStand, NoLateScores
  <2>7. ASSUME NEW p \in rollbackLog
        PROVE  /\ p[1] < globalModel.version
               /\ p[1] \in DOMAIN registry => p[1] \in Evaluated'
               /\ p[2] \in DOMAIN registry /\ IsLatestEvaluated(p[1])' => IsBest(p[2])'
    <3>1. p[1] < globalModel.version /\ (p[1] \in DOMAIN registry => p[1] \in Evaluated)
      BY DEF JudgedInv, TargetsStand
    <3>2. ASSUME p[2] \in DOMAIN registry, IsLatestEvaluated(p[1])' PROVE IsBest(p[2])'
      <4>1. p[1] \in Evaluated /\ \A w \in Evaluated' : w <= p[1]
        BY <2>3, <3>1, <3>2 DEF IsLatestEvaluated
      <4>2. IsBest(p[2])
        BY <2>4, <3>2, <4>1 DEF JudgedInv, TargetsStand, IsLatestEvaluated
      <4>3. Evaluated' = Evaluated
        <5>1. ASSUME NEW w \in Evaluated' PROVE w \in Evaluated
          <6>1. w \in DOMAIN registry /\ w \in Scored /\ w <= p[1]
            BY <2>3, <4>1
          <6>2. w \in Nat /\ p[1] \in Nat
            BY <2>1, <4>1, <6>1 DEF Evaluated, Versions
          <6>3. w = p[1] \/ w < p[1]
            BY <6>1, <6>2
          <6>4. QED
            BY <4>1, <6>1, <6>3 DEF JudgedInv, NoLateScores
        <5>2. QED
          BY <2>4, <5>1
      <4>4. QED
        BY <2>5, <4>2, <4>3 DEF IsBest
    <3>3. QED
      BY <2>4, <3>1, <3>2
  <2>8. QED
    BY <1>1, <2>1, <2>6, <2>7 DEF JudgedInv, TargetsStand
<1>5. QED
  BY <1>3, <1>4 DEF RefreshEvaluations

(* Spark never gives a first score to a version older than one scored, and *)
(* a version scored again keeps its score.                                 *)
LEMMA ScoringKeepsJudged ==
    ASSUME TypeInv, ServedInv, ScoringInv, JudgedInv, restarts = 0, VersionNamesOneModel,
           evaluatedVersion \in Nat, NEW f1 \in F1Scores, ScoreModel(f1)
    PROVE  JudgedInv'
<1> DEFINE s == sparkModel.version
<1>1. /\ UNCHANGED <<globalModel, registry, rollbackLog>> /\ s \in Nat
      /\ evaluations' = [evaluations EXCEPT ![s] = [f1 |-> f1, params |-> sparkModel.params]]
      /\ f1 \in HeldOutScores(sparkModel)
  BY DEF ScoreModel, Evaluate, memoryVars, ServedInv, TypeInv, TypeOK, Served
<1>2. evaluations \in [Versions -> Evaluation \cup {NoEvaluation}]
  BY DEF TypeInv, TypeOK
<1>3. \A v \in Scored : v \in Nat /\ v <= s
  BY <1>1 DEF ScoringInv, Scored, Versions
<1>4. \A v \in Versions : v # s => evaluations'[v] = evaluations[v]
  BY <1>1, <1>2
<1>5. s \in Scored => f1 = evaluations[s].f1 /\ evaluations'[s].f1 = evaluations[s].f1
  <2>1. SUFFICES ASSUME s \in Scored
                 PROVE  f1 = evaluations[s].f1 /\ evaluations'[s].f1 = evaluations[s].f1
    OBVIOUS
  <2>2. s \in Versions /\ evaluations[s] # NoEvaluation
    BY <2>1 DEF Scored
  <2> DEFINE m == [version |-> s, params |-> evaluations[s].params]
  <2>3. m \in Published /\ sparkModel \in Published
    BY <2>1 DEF Published, ScoredModels, ServedInv
  <2>4. m.version = sparkModel.version /\ m.params = evaluations[s].params
    OBVIOUS
  <2>5. evaluations[s].params = sparkModel.params
    BY <2>3, <2>4 DEF VersionNamesOneModel
  <2>6. f1 = evaluations[s].f1
    BY <1>1, <2>2, <2>5 DEF HeldOutScores
  <2>7. evaluations'[s].f1 = f1
    BY <1>1, <1>2, <2>2
  <2>8. QED
    BY <2>6, <2>7
<1>6. Scored \subseteq Scored' /\ Scored' \subseteq Scored \cup {s}
  <2>1. [f1 |-> f1, params |-> sparkModel.params] # NoEvaluation
    BY PolicyAssumption DEF NoEvaluation, NoScore
  <2>2. QED
    BY <1>1, <1>2, <1>4, <2>1 DEF Scored
<1>7. Evaluated' = Evaluated
  BY <1>1 DEF Evaluated
<1>8. ScoresStand'
  <2>1. ASSUME NEW v \in Evaluated PROVE v \in Scored' /\ registry[v].f1 = evaluations'[v].f1
    <3>1. v \in Scored /\ registry[v].f1 = evaluations[v].f1 /\ v \in Versions
      BY DEF JudgedInv, ScoresStand, Scored
    <3>2. QED
      BY <1>4, <1>5, <1>6, <3>1
  <2>2. QED
    BY <1>1, <1>7, <2>1 DEF ScoresStand
<1>9. NoLateScores'
  <2>1. ASSUME NEW v \in Evaluated, NEW w \in DOMAIN registry, w < v, w \in Scored'
        PROVE  w \in Evaluated
    <3>1. v \in Nat /\ v <= s
      BY <1>3 DEF JudgedInv, ScoresStand
    <3>2. w \in Scored
      BY <1>1, <1>6, <2>1, <3>1
    <3>3. QED
      BY <2>1, <3>2 DEF JudgedInv, NoLateScores
  <2>2. QED
    BY <1>1, <1>7, <2>1 DEF NoLateScores
<1>10. TargetsStand'
  BY <1>1, <1>7 DEF JudgedInv, TargetsStand, IsLatestEvaluated, IsBest
<1>11. QED
  BY <1>8, <1>9, <1>10 DEF JudgedInv

LEMMA JudgedStep ==
    ASSUME TypeInv, WindowInv, RollbackInv, ServedInv, ScoringInv, evaluatedVersion \in Nat,
           VersionNamesOneModel, restarts = 0 => JudgedInv,
           [LearningNext]_learningVars
    PROVE  (restarts = 0 => JudgedInv)'
<1> SUFFICES ASSUME (restarts = 0)' PROVE JudgedInv'
  OBVIOUS
<1>1. [Next]_vars
  BY StepImplements
<1>2. ~Die /\ restarts = 0
  BY <1>1, FirstLife
<1>3. JudgedInv /\ VersionNamesOneModel
  BY <1>2
<1>4. CASE UNCHANGED <<registry, evaluations, rollbackLog, globalModel>>
  BY <1>3, <1>4
  DEF JudgedInv, ScoresStand, NoLateScores, TargetsStand, Evaluated, Scored,
      IsLatestEvaluated, IsBest
<1>5. ASSUME NEW out \in Outcomes, Aggregate(out) PROVE JudgedInv'
  <2>1. /\ UNCHANGED <<registry, evaluations, rollbackLog>>
        /\ globalModel'.version = globalModel.version + 1
    BY <1>5 DEF Aggregate
  <2>2. \A p \in rollbackLog : p[1] < globalModel'.version
    BY <1>3, <2>1 DEF JudgedInv, TargetsStand, TypeInv, TypeOK, Model, Versions
  <2>3. QED
    BY <1>3, <2>1, <2>2
    DEF JudgedInv, ScoresStand, NoLateScores, TargetsStand, Evaluated, Scored,
        IsLatestEvaluated, IsBest
<1>6. ASSUME NEW out \in Outcomes, RollBack(out) PROVE JudgedInv'
  <2>1. PICK degraded \in DOMAIN registry, best \in DOMAIN registry :
           /\ CheckRollback(degraded, best)
           /\ RollbackTo(best)
           /\ rollbackLog' = rollbackLog \cup {<<degraded, best>>}
    BY <1>6 DEF RollBack
  <2>2. UNCHANGED <<registry, evaluations>> /\ pc = "deciding"
    BY <1>6 DEF RollBack
  <2>3. globalModel'.version = globalModel.version + 1 /\ globalModel.version \in Nat
    BY <2>1 DEF RollbackTo, TypeInv, TypeOK, Model
  <2>4. degraded <= globalModel.version /\ degraded \in Nat
    BY <2>2 DEF WindowInv, RegistryIsWindow, Registered, Window, Versions
  <2>5. degraded \in Evaluated /\ IsBest(best)
    BY <2>1 DEF CheckRollback, IsLatestEvaluated
  <2>6. UNCHANGED <<Evaluated, Scored>>
    BY <2>2 DEF Evaluated, Scored
  <2>7. \A p \in rollbackLog' :
           /\ p[1] < globalModel'.version
           /\ p[1] \in DOMAIN registry => p[1] \in Evaluated
           /\ p[2] \in DOMAIN registry /\ IsLatestEvaluated(p[1]) => IsBest(p[2])
    <3>1. ASSUME NEW p \in rollbackLog PROVE p[1] < globalModel'.version
      BY <1>3, <2>3 DEF JudgedInv, TargetsStand, TypeInv, TypeOK, Versions
    <3>2. QED
      BY <1>3, <2>1, <2>3, <2>4, <2>5, <3>1 DEF JudgedInv, TargetsStand
  <2>8. TargetsStand'
    BY <2>2, <2>6, <2>7 DEF TargetsStand, IsLatestEvaluated, IsBest
  <2>9. QED
    BY <1>3, <2>2, <2>6, <2>8 DEF JudgedInv, ScoresStand, NoLateScores
<1>7. CASE AggregatorStep
  <2>1. Service \/ IntervalElapses
    BY <1>2, <1>7 DEF AggregatorStep
  <2>2. CASE RegisterModel
    BY <1>3, <2>2, RegisterKeepsJudged
  <2>3. CASE \E out \in Outcomes : RefreshEvaluations(out)
    BY <1>3, <2>3, RefreshKeepsJudged
  <2>4. QED
    BY <1>4, <1>5, <1>6, <2>1, <2>2, <2>3
    DEF Service, ServiceStep, NoRoundDue, SaveRound, SendRound, KeepModel, SaveRollback,
        SendRollback, Restart, IntervalElapses, memoryVars, storeVars
<1>8. ASSUME NEW f1 \in F1Scores, ScoreModel(f1) PROVE JudgedInv'
  BY <1>2, <1>3, <1>8, ScoringKeepsJudged
<1>9. CASE FlinkStep \/ LoadModel \/ ScoreFails \/ \E msg \in topic : DeliverUpdate(msg)
  BY <1>4, <1>9
  DEF FlinkStep, CacheExpires, Train, RestartWorker, LoadModel, ScoreFails, DeliverUpdate,
      ReceiveUpdate, vars, memoryVars, storeVars
<1>10. CASE UNCHANGED learningVars
  BY <1>4, <1>10 DEF learningVars, vars, memoryVars, storeVars
<1>11. QED
  BY <1>7, <1>8, <1>9, <1>10 DEF LearningNext, SparkStep

(* For every registry size and score set, as long as the aggregator is not *)
(* restarted: rolling back twice for one degraded version takes that the   *)
(* registry has evicted the first target in between.                       *)
THEOREM SecondRollbackNeedsEviction == LearningSpec => SecondRollbackAfterEviction
<1> DEFINE Judged == restarts = 0 => JudgedInv
           Scoring == ScoringInv /\ evaluatedVersion \in Nat
<1>1. LearningInit => Judged /\ Scoring
  BY DEF LearningInit, Init, JudgedInv, ScoresStand, NoLateScores, TargetsStand, Evaluated,
         EmptyRegistry, ScoringInv, Scored, NoModelFile, NoVersion
<1>2. ASSUME TypeInv, RollbackInv, Judged, [LearningNext]_learningVars, ServedInv
      PROVE  [\A old \in rollbackLog :
                (RollsBack /\ IsLatestEvaluated(old[1])) => old[2] \notin DOMAIN registry]_learningVars
  <2>1. SUFFICES ASSUME NEW old \in rollbackLog, RollsBack, IsLatestEvaluated(old[1]),
                        old[2] \in DOMAIN registry
                 PROVE  FALSE
    OBVIOUS
  <2>2. [Next]_vars
    BY <1>2, StepImplements
  <2>3. \E out \in Outcomes : RollBack(out)
    BY <2>1, <2>2
    DEF RollsBack, Next, Service, ServiceStep, Environment, OpenWorld, NoRoundDue,
        Aggregate, RoundCheckPoints, RegisterModel, SaveRound, SendRound,
        RefreshEvaluations, KeepModel, SaveRollback, SendRollback, Restart,
        ReceiveUpdate, IntervalElapses, Die, Evaluate, vars
  <2>4. PICK degraded \in DOMAIN registry, best \in DOMAIN registry : CheckRollback(degraded, best)
    BY <2>3 DEF RollBack
  <2>5. \A v \in Evaluated : v \in Nat /\ registry[v].f1 \in Int
    BY <1>2, PolicyAssumption DEF Evaluated, TypeInv, TypeOK, Versions, Entry, NoScore
  <2>6. degraded = old[1]
    BY <2>1, <2>4, <2>5 DEF CheckRollback, IsLatestEvaluated
  <2>7. IsBest(old[2])
    BY <1>2, <2>1 DEF RollsBack, JudgedInv, TargetsStand
  <2>8. best = old[2]
    BY <2>4, <2>5, <2>7 DEF CheckRollback, IsBest
  <2>9. \E v \in DOMAIN registry : registry[v].rolledBackFrom = best /\ v > degraded
    <3>1. Remembered(old[1], old[2]) /\ pc = "deciding"
      BY <1>2, <2>1 DEF RollbackInv, RollsBack
    <3>2. QED
      BY <2>1, <2>6, <2>8, <3>1 DEF Remembered
  <2>10. QED
    BY <2>4, <2>9 DEF CheckRollback, AlreadyRolledBack
<1>3. TypeInv /\ LatestInv /\ ServedInv /\ Scoring /\ [LearningNext]_learningVars => Scoring'
  BY ScoringStep
<1>4. TypeInv /\ WindowInv /\ RollbackInv /\ ServedInv /\ Scoring /\ VersionNamesOneModel /\ Judged
         /\ [LearningNext]_learningVars => Judged'
  BY JudgedStep
<1>5. LearningSpec => [](TypeInv /\ WindowInv /\ LatestInv /\ RollbackInv /\ VersionNamesOneModel)
  BY LearningImplementsAggregator, TypeInvariant, WindowInvariant, LatestInvariant,
     RollbackInvariant, VersionNaming, PTL DEF AggregatorSpec
<1> HIDE DEF Judged, Scoring
<1>6. QED
  BY <1>1, <1>2, <1>3, <1>4, <1>5, ServedInvariant, PTL DEF LearningSpec,
                                                            SecondRollbackAfterEviction

-----------------------------------------------------------------------------
(* Devices train from the model read last.                                 *)

(* In the first life a device's base is no newer than the model its worker *)
(* has read, and that is no newer than the published one.                  *)
BehindInv ==
    restarts = 0 =>
        /\ \A w \in Workers : cache[w].model.version <= latest.version
        /\ \A d \in Devices : local[d].base.version <= cache[WorkerOf[d]].model.version

LEMMA ServedByNumber ==
    ASSUME TypeInv, VersionNamesOneModel, restarts = 0,
           NEW m1 \in served, NEW m2 \in served, m1.version = m2.version
    PROVE  m1 = m2
<1>1. m1.params = m2.params
  BY DEF VersionNamesOneModel, Published
<1>2. m1 \in Served /\ m2 \in Served
  BY DEF TypeInv, TypeOK
<1>3. QED
  BY <1>1, <1>2 DEF Served

(* A round's base is the model the worker read for it or had read before.  *)
LEMMA TrainAdopts ==
    ASSUME TypeInv, ServedInv, VersionNamesOneModel, BehindInv, restarts = 0,
           NEW d \in Devices
    PROVE  LET m == CachedModel(WorkerOf[d])
           IN  /\ m \in served /\ Synced(d, m).base = m
               /\ cache[WorkerOf[d]].model.version <= m.version
               /\ m.version <= latest.version
<1> DEFINE w == WorkerOf[d]
           m == CachedModel(w)
<1>1. w \in Workers /\ m \in served /\ Synced(d, m) \in [base : served, rounds : Nat]
  BY WorkersAssumption, TrainReadsServed
<1>2. /\ local[d].base \in served /\ cache[w].model \in served
      /\ latest \in served /\ NoModelFile \in served
  BY <1>1 DEF ServedInv
<1>3. \A x \in served : x.version \in Nat
  BY DEF TypeInv, TypeOK, Served
<1>4. local[d].base.version <= cache[w].model.version /\ cache[w].model.version <= latest.version
  BY <1>1 DEF BehindInv
<1>5. m = cache[w].model \/ m = latest
  BY DEF CachedModel
<1>6. cache[w].model.version <= m.version /\ m.version <= latest.version
  BY <1>2, <1>3, <1>4, <1>5
<1>7. local[d].base.version <= m.version
  BY <1>1, <1>2, <1>3, <1>4, <1>6
<1> HIDE DEF w, m
<1>8. CASE Synced(d, m) = [base |-> m, rounds |-> 0]
  BY <1>1, <1>6, <1>8 DEF m, w
<1>9. CASE Synced(d, m) = local[d] /\ (m = NoModelFile \/ ~(m.version > local[d].base.version))
  <2>1. m.version = local[d].base.version
    BY <1>1, <1>2, <1>3, <1>7, <1>9 DEF NoModelFile
  <2>2. m = local[d].base
    BY <1>1, <1>2, <2>1, ServedByNumber
  <2>3. QED
    BY <1>1, <1>6, <1>9, <2>2 DEF m, w
<1>10. QED
  BY <1>8, <1>9 DEF Synced

LEMMA BehindStep ==
    ASSUME TypeInv, LatestInv, ServedInv, VersionNamesOneModel, BehindInv,
           restarts = 0 => pc # "down", [LearningNext]_learningVars
    PROVE  BehindInv' /\ (restarts = 0 => pc # "down")'
<1> SUFFICES ASSUME (restarts = 0)' PROVE BehindInv' /\ (pc # "down")'
  BY DEF BehindInv
<1>1. [Next]_vars
  BY StepImplements
<1>2. restarts = 0 /\ pc' # "down" /\ latest'.version >= latest.version
  BY <1>1, FirstLifeStep
<1>3. /\ latest.version \in Nat /\ latest'.version \in Nat
      /\ \A w \in Workers : cache[w].model.version \in Nat
      /\ \A d \in Devices : local[d].base.version \in Nat
  <2>1. \A x \in served : x.version \in Nat
    BY DEF TypeInv, TypeOK, Served
  <2>2. latest' \in Served
    BY <1>1, TypeStep DEF TypeInv, TypeOK
  <2>3. QED
    BY <2>1, <2>2 DEF ServedInv, Served
<1>4. /\ \A w \in Workers : cache[w].model.version <= latest.version
      /\ \A w \in Workers : cache[w].model.version <= latest'.version
      /\ \A d \in Devices : local[d].base.version <= cache[WorkerOf[d]].model.version
  BY <1>2, <1>3 DEF BehindInv
<1>5. CASE UNCHANGED <<cache, local>>
  BY <1>2, <1>4, <1>5 DEF BehindInv
<1>6. ASSUME NEW d \in Devices, Train(d) PROVE BehindInv'
  <2> DEFINE w == WorkerOf[d]
             m == CachedModel(w)
             start == Synced(d, m)
  <2>1. /\ m \in served /\ start.base = m
        /\ cache[w].model.version <= m.version /\ m.version <= latest.version
    BY <1>2, TrainAdopts
  <2>2. /\ cache' = [cache EXCEPT ![w] = [model |-> m, fresh |-> TRUE]]
        /\ local' = [local EXCEPT ![d] = [start EXCEPT !.rounds = Counted(@)]]
        /\ UNCHANGED latest
    BY <1>6 DEF Train, vars, storeVars
  <2>3. m.version \in Nat
    BY <2>1 DEF TypeInv, TypeOK, Served
  <2>4. start \in [base : served, rounds : Nat] /\ w \in Workers
    BY WorkersAssumption, TrainReadsServed
  <2> HIDE DEF w, m, start
  <2>5. [start EXCEPT !.rounds = Counted(@)].base = m
    BY <2>1, <2>4
  <2>6. /\ cache \in [Workers -> [model : served, fresh : BOOLEAN]]
        /\ local \in [Devices -> [base : served, rounds : Nat]]
    BY DEF ServedInv
  <2>7. \A x \in Workers : cache'[x].model = IF x = w THEN m ELSE cache[x].model
    BY <2>2, <2>4, <2>6
  <2>8. \A e \in Devices : local'[e].base = IF e = d THEN m ELSE local[e].base
    BY <2>2, <2>5, <2>6
  <2>9. ASSUME NEW e \in Devices
        PROVE  local'[e].base.version <= cache'[WorkerOf[e]].model.version
    <3>1. WorkerOf[e] \in Workers
      BY WorkersAssumption
    <3>2. CASE e = d
      BY <2>3, <2>7, <2>8, <3>1, <3>2 DEF w
    <3>3. CASE e # d /\ WorkerOf[e] = w
      BY <1>3, <1>4, <2>1, <2>3, <2>7, <2>8, <3>1, <3>3
    <3>4. CASE e # d /\ WorkerOf[e] # w
      BY <1>4, <2>7, <2>8, <3>1, <3>4
    <3>5. QED
      BY <3>2, <3>3, <3>4
  <2>10. \A x \in Workers : cache'[x].model.version <= latest'.version
    BY <1>4, <2>1, <2>2, <2>7
  <2>11. QED
    BY <2>9, <2>10 DEF BehindInv
<1>7. ASSUME NEW w \in Workers, RestartWorker(w) PROVE BehindInv'
  <2>1. /\ cache' = [cache EXCEPT ![w] = NoModelRead]
        /\ local' = [d \in Devices |-> IF WorkerOf[d] = w THEN NewLocal ELSE local[d]]
        /\ UNCHANGED latest
        /\ cache \in [Workers -> [model : served, fresh : BOOLEAN]]
    BY <1>7 DEF RestartWorker, vars, storeVars, ServedInv
  <2>2. NewLocal.base.version = 0 /\ NoModelRead.model.version = 0
    BY DEF NewLocal, NoModelRead, NoModelFile
  <2>3. \A x \in Workers : cache'[x] = IF x = w THEN NoModelRead ELSE cache[x]
    BY <2>1
  <2>4. ASSUME NEW d \in Devices
        PROVE  local'[d].base.version <= cache'[WorkerOf[d]].model.version
    <3>1. WorkerOf[d] \in Workers
      BY WorkersAssumption
    <3>2. QED
      BY <1>4, <2>1, <2>2, <2>3, <3>1
  <2>5. \A x \in Workers : cache'[x].model.version <= latest'.version
    BY <1>3, <1>4, <2>1, <2>2, <2>3
  <2>6. QED
    BY <2>4, <2>5 DEF BehindInv
<1>8. ASSUME NEW w \in Workers, CacheExpires(w) PROVE BehindInv'
  <2>1. \A x \in Workers : cache'[x].model = cache[x].model
    BY <1>8 DEF CacheExpires, ServedInv
  <2>2. \A d \in Devices : WorkerOf[d] \in Workers
    BY WorkersAssumption
  <2>3. QED
    BY <1>4, <1>8, <2>1, <2>2 DEF CacheExpires, BehindInv
<1>9. BehindInv'
  BY <1>5, <1>6, <1>7, <1>8
  DEF LearningNext, FlinkStep, SparkStep, AggregatorStep, DeliverUpdate, LoadModel,
      ScoreModel, ScoreFails, learningVars, flinkVars
<1>10. QED
  BY <1>2, <1>9

(* For any devices, workers, delays and rollbacks: while the aggregator is *)
(* not restarted, a training round starts from the very model its worker   *)
(* read last, which is the published one if it read the file for it.       *)
THEOREM RoundsStartFromRead == LearningSpec => TrainsFromNewestRead
<1> DEFINE Alive == restarts = 0 => pc # "down"
           Base(msg) ==
               /\ msg.base = cache'[WorkerOf[msg.device]].model
               /\ (~cache[WorkerOf[msg.device]].fresh /\ latest # NoModelFile)
                      => msg.base = latest
<1>1. LearningInit => BehindInv /\ Alive
  <2>1. \A d \in Devices : WorkerOf[d] \in Workers
    BY WorkersAssumption
  <2>2. QED
    BY <2>1 DEF LearningInit, Init, BehindInv, NoModelRead, NewLocal, NoModelFile
<1>2. ASSUME TypeInv, ServedInv, VersionNamesOneModel, BehindInv, restarts = 0,
             [LearningNext]_learningVars, NEW msg \in topic' \ topic
      PROVE  Base(msg)
  <2>1. PICK d \in Devices : Train(d)
    BY <1>2
    DEF LearningNext, FlinkStep, SparkStep, AggregatorStep, DeliverUpdate, CacheExpires,
        RestartWorker, LoadModel, ScoreModel, ScoreFails, learningVars
  <2> DEFINE w == WorkerOf[d]
             m == CachedModel(w)
  <2>2. Synced(d, m).base = m /\ w \in Workers
    BY <1>2, TrainAdopts, WorkersAssumption
  <2>3. msg.device = d /\ msg.base = Synced(d, m).base
    <3>1. \E n, k : topic' = topic \cup {[device |-> d, number |-> n,
                                         base |-> Synced(d, m).base, rounds |-> k]}
      BY <2>1, Zenon DEF Train
    <3> HIDE DEF m
    <3>2. QED
      BY <1>2, <3>1
  <2>4. cache'[w].model = m
    <3>1. cache' = [cache EXCEPT ![w] = [model |-> m, fresh |-> TRUE]]
      BY <2>1, Zenon DEF Train
    <3>2. \E S : cache \in [Workers -> S]
      BY <1>2, Zenon DEF ServedInv
    <3> HIDE DEF m, w
    <3>3. QED
      BY <2>2, <3>1, <3>2
  <2>5. ~cache[w].fresh /\ latest # NoModelFile => m = latest
    BY DEF CachedModel
  <2>6. QED
    BY <2>2, <2>3, <2>4, <2>5
<1>3. TypeInv /\ ServedInv /\ VersionNamesOneModel /\ BehindInv /\ [LearningNext]_learningVars
         => [\A msg \in topic' \ topic : restarts = 0 => Base(msg)]_learningVars
  BY <1>2
<1>4. TypeInv /\ LatestInv /\ ServedInv /\ VersionNamesOneModel /\ BehindInv /\ Alive
         /\ [LearningNext]_learningVars => BehindInv' /\ Alive'
  BY BehindStep
<1>5. LearningSpec => [](TypeInv /\ LatestInv /\ VersionNamesOneModel)
  BY LearningImplementsAggregator, TypeInvariant, LatestInvariant, VersionNaming, PTL
  DEF AggregatorSpec
<1> HIDE DEF Alive
<1>6. QED
  BY <1>1, <1>3, <1>4, <1>5, ServedInvariant, PTL DEF LearningSpec, TrainsFromNewestRead

=============================================================================
