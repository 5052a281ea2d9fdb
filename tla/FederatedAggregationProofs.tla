--------------------- MODULE FederatedAggregationProofs ---------------------
(***************************************************************************)
(* Theorems about the aggregator, for every number of devices, registry    *)
(* size, score set and bound.                                              *)
(***************************************************************************)
EXTENDS FederatedAggregation, FiniteSetTheorems, TLAPS

USE DEF historyVars

-----------------------------------------------------------------------------
(* Type correctness.  The version number needs its bound at every point of *)
(* a round: a round starts only where its rollback still fits.             *)

InRound == {"registering", "saving", "sending", "refreshing", "deciding"}
InRollback == {"registeringRollback", "savingRollback", "sendingRollback"}

VersionBound ==
    /\ globalModel.version <= MaxVersion
    /\ pc \in InRound => globalModel.version \in 1 .. MaxVersion - 1
    /\ pc \in InRollback => globalModel.version \in 1 .. MaxVersion

TypeInv == TypeOK /\ VersionBound

LEMMA TypeInvInit == Init => TypeInv
<1> SUFFICES ASSUME Init PROVE TypeInv
  OBVIOUS
<1>1. globalModel \in Model /\ latest \in Served /\ output \in Served /\ served \subseteq Served
  BY DEF Init, InitialModel, NoModelFile, ZeroParams, NoVersion, Model, Served
<1>2. pending \in [Devices -> Update \cup {NoUpdate}]
  BY DEF Init, EmptyBuffer
<1>3. evaluations \in [Versions -> Evaluation \cup {NoEvaluation}]
  BY DEF Init
<1>4. DOMAIN registry \subseteq Versions /\ registry \in [DOMAIN registry -> Entry]
  BY DEF Init, EmptyRegistry
<1>5. restarts \in 0 .. MaxRestarts /\ faults \in 0 .. MaxFaults
  BY BoundsAssumption DEF Init
<1>6. VersionBound
  BY BoundsAssumption DEF Init, VersionBound, InRound, InRollback, InitialModel
<1>7. QED
  BY <1>1, <1>2, <1>3, <1>4, <1>5, <1>6 DEF Init, TypeInv, TypeOK, PCs

LEMMA VersionBoundStep == TypeOK /\ VersionBound /\ [Next]_vars => VersionBound'
<1> SUFFICES ASSUME TypeOK, VersionBound, [Next]_vars PROVE VersionBound'
  OBVIOUS
<1>1. globalModel.version \in Nat
  BY DEF TypeOK, Model
<1> USE <1>1, BoundsAssumption DEF VersionBound, InRound, InRollback
<1>2. CASE NoRoundDue
  BY <1>2 DEF NoRoundDue, memoryVars
<1>3. ASSUME NEW out \in Outcomes, Aggregate(out) PROVE VersionBound'
  <2>1. /\ globalModel'.version = globalModel.version + 1
        /\ pc' = "registering"
        /\ WithinBound
    BY <1>3 DEF Aggregate, RoundDue
  <2>2. QED
    BY <2>1 DEF WithinBound
<1>4. CASE RegisterModel
  BY <1>4 DEF RegisterModel
<1>5. ASSUME NEW out \in Outcomes, SaveRound(out) PROVE VersionBound'
  BY <1>5 DEF SaveRound
<1>6. ASSUME NEW out \in Outcomes, SendRound(out) PROVE VersionBound'
  BY <1>6 DEF SendRound, memoryVars
<1>7. ASSUME NEW out \in Outcomes, RefreshEvaluations(out) PROVE VersionBound'
  BY <1>7 DEF RefreshEvaluations
<1>8. CASE KeepModel
  BY <1>8 DEF KeepModel, memoryVars
<1>9. ASSUME NEW out \in Outcomes, RollBack(out) PROVE VersionBound'
  <2>1. /\ globalModel'.version = globalModel.version + 1
        /\ pc = "deciding"
        /\ pc' = "registeringRollback"
    BY <1>9 DEF RollBack, RollbackTo
  <2>2. QED
    BY <2>1
<1>10. ASSUME NEW out \in Outcomes, SaveRollback(out) \/ SendRollback(out) PROVE VersionBound'
  BY <1>10 DEF SaveRollback, SendRollback, memoryVars
<1>11. CASE Restart
  BY <1>11 DEF Restart, memoryVars
<1>12. ASSUME NEW d \in Devices, NEW u, ReceiveUpdate(d, u) PROVE VersionBound'
  BY <1>12 DEF ReceiveUpdate
<1>13. CASE IntervalElapses
  BY <1>13 DEF IntervalElapses
<1>14. CASE Die
  BY <1>14 DEF Die, InitialModel
<1>15. ASSUME NEW m \in served, NEW f1 \in F1Scores, Evaluate(m, f1) PROVE VersionBound'
  BY <1>15 DEF Evaluate, memoryVars
<1>16. CASE UNCHANGED vars
  BY <1>16 DEF vars, memoryVars
<1>17. QED
  BY <1>2, <1>3, <1>4, <1>5, <1>6, <1>7, <1>8, <1>9, <1>10, <1>11, <1>12, <1>13, <1>14,
     <1>15, <1>16 DEF Next, Service, ServiceStep, Environment, OpenWorld

LEMMA SavedRowType ==
    ASSUME TypeOK, globalModel.version \in Versions, NEW out \in Outcomes, SaveRoundToDb(out)
    PROVE  rows' \subseteq Row /\ unsaved' \subseteq Versions
<1>1. RowOf(globalModel, dpRounds) \in Row
  BY BoundsAssumption DEF RowOf, Row, TypeOK, Model
<1>2. QED
  BY <1>1 DEF SaveRoundToDb, TypeOK

LEMMA TypeStep == TypeOK /\ VersionBound /\ [Next]_vars => TypeOK'
<1> SUFFICES ASSUME TypeOK, VersionBound, [Next]_vars PROVE TypeOK'
  OBVIOUS
<1> USE DEF TypeOK, PCs
<1>1. CASE NoRoundDue
  BY <1>1 DEF NoRoundDue, memoryVars, storeVars
<1>2. ASSUME NEW out \in Outcomes, Aggregate(out) PROVE TypeOK'
  <2>1. made' \in Nat /\ dpRounds' \in Nat /\ faults' \in 0 .. MaxFaults
    BY <1>2, BoundsAssumption DEF Aggregate, Fault
  <2>2. globalModel' \in Model
    BY <1>2 DEF Aggregate, NoVersion, Model
  <2>3. latest' \in Served /\ served' \subseteq Served
    BY <1>2, <2>2 DEF Aggregate, PublishModelFile, Model, Served
  <2>4. QED
    BY <1>2, <2>1, <2>2, <2>3 DEF Aggregate, storeVars
<1>3. CASE RegisterModel
  <2>1. globalModel.version \in Versions
    BY <1>3, BoundsAssumption DEF RegisterModel, VersionBound, InRound, InRollback, Versions
  <2>2. NewEntry \in Entry
    BY DEF NewEntry, Entry, Model
  <2> DEFINE kept == Newest(DOMAIN registry \cup {globalModel.version})
  <2>3. kept \subseteq DOMAIN registry \cup {globalModel.version}
    BY DEF Newest
  <2>4. registry' = [v \in kept |-> IF v = globalModel.version THEN NewEntry ELSE registry[v]]
    BY <1>3 DEF RegisterModel, Register
  <2>5. DOMAIN registry' \subseteq Versions /\ registry' \in [DOMAIN registry' -> Entry]
    <3> HIDE DEF kept
    <3> QED BY <2>1, <2>2, <2>3, <2>4
  <2>6. files' \subseteq Versions
    BY <1>3, <2>1 DEF RegisterModel, Register
  <2>7. QED
    BY <1>3, <2>5, <2>6 DEF RegisterModel
<1>4. ASSUME NEW out \in Outcomes, SaveRound(out) PROVE TypeOK'
  <2>1. rows' \subseteq Row /\ unsaved' \subseteq Versions
    <3>1. SaveRoundToDb(out) /\ globalModel.version \in Versions
      BY <1>4, BoundsAssumption DEF SaveRound, VersionBound, InRound, Versions
    <3>2. QED
      BY <3>1, SavedRowType
  <2>2. pending' \in [Devices -> Update \cup {NoUpdate}]
    BY <1>4 DEF SaveRound, EmptyBuffer
  <2>3. faults' \in 0 .. MaxFaults
    BY <1>4, BoundsAssumption DEF SaveRound, Fault
  <2>4. QED
    BY <1>4, <2>1, <2>2, <2>3 DEF SaveRound
<1>5. ASSUME NEW out \in Outcomes, SendRound(out) PROVE TypeOK'
  <2>1. output' \in Served
    BY <1>5 DEF SendRound, PublishGlobalUpdate, Served, Model
  <2>2. faults' \in 0 .. MaxFaults
    BY <1>5, BoundsAssumption DEF SendRound, Fault
  <2>3. QED
    BY <1>5, <2>1, <2>2 DEF SendRound, memoryVars
<1>6. ASSUME NEW out \in Outcomes, RefreshEvaluations(out) PROVE TypeOK'
  <2>1. DOMAIN registry' = DOMAIN registry /\ registry' \in [DOMAIN registry -> Entry]
    <3>1. CASE out = "done"
      <4>1. ASSUME NEW v \in DOMAIN registry, evaluations[v] # NoEvaluation
            PROVE  [registry[v] EXCEPT !.f1 = evaluations[v].f1] \in Entry
        BY <4>1 DEF Entry, Evaluation
      <4>2. QED
        BY <1>6, <3>1, <4>1 DEF RefreshEvaluations, RecordEvaluations
    <3>2. CASE out # "done"
      BY <1>6, <3>2 DEF RefreshEvaluations
    <3>3. QED
      BY <3>1, <3>2
  <2>2. faults' \in 0 .. MaxFaults
    BY <1>6, BoundsAssumption DEF RefreshEvaluations, Fault
  <2>3. QED
    BY <1>6, <2>1, <2>2 DEF RefreshEvaluations, storeVars
<1>7. CASE KeepModel
  BY <1>7 DEF KeepModel, memoryVars, storeVars
<1>8. ASSUME NEW out \in Outcomes, RollBack(out) PROVE TypeOK'
  <2>1. PICK degraded \in DOMAIN registry, best \in DOMAIN registry :
           /\ RollbackTo(best)
           /\ rollbackLog' = rollbackLog \cup {<<degraded, best>>}
    BY <1>8 DEF RollBack
  <2>2. registry[best].params \in Nat /\ best \in Nat
    BY DEF Entry, Versions
  <2>3. globalModel' \in Model
    BY <2>1, <2>2 DEF RollbackTo, Model
  <2>4. latest' \in Served /\ served' \subseteq Served
    BY <1>8, <2>3 DEF RollBack, PublishModelFile, Model, Served
  <2>5. rollbackLog' \subseteq Versions \X Versions
    BY <2>1
  <2>6. faults' \in 0 .. MaxFaults
    BY <1>8, BoundsAssumption DEF RollBack, Fault
  <2>7. QED
    BY <1>8, <2>3, <2>4, <2>5, <2>6 DEF RollBack
<1>9. ASSUME NEW out \in Outcomes, SaveRollback(out) \/ SendRollback(out) PROVE TypeOK'
  <2>1. faults' \in 0 .. MaxFaults
    BY <1>9, BoundsAssumption DEF SaveRollback, SendRollback, Fault
  <2>2. CASE SaveRollback(out)
    <3>1. SaveRoundToDb(out) /\ globalModel.version \in Versions
      BY <2>2, BoundsAssumption DEF SaveRollback, SendRollback, VersionBound, InRollback,
                                    Versions
    <3>2. rows' \subseteq Row /\ unsaved' \subseteq Versions
      BY <3>1, SavedRowType
    <3>3. QED
      BY <2>1, <2>2, <3>2 DEF SaveRollback, SendRollback, memoryVars
  <2>3. CASE SendRollback(out)
    <3>1. output' \in Served
      BY <2>3 DEF SendRollback, PublishGlobalUpdate, Served, Model
    <3>2. QED
      BY <2>1, <2>3, <3>1 DEF SendRollback, memoryVars
  <2>4. QED
    BY <1>9, <2>2, <2>3
<1>10. CASE Restart
  <2>1. latest' \in Served /\ files' \subseteq Versions
    BY <1>10 DEF Restart, NoModelFile, ZeroParams, Served
  <2>2. QED
    BY <1>10, <2>1 DEF Restart, memoryVars
<1>11. ASSUME NEW d \in Devices, NEW m \in served,
              ReceiveUpdate(d, [base |-> m.version, params |-> m.params])
       PROVE TypeOK'
  <2>1. [base |-> m.version, params |-> m.params] \in Update
    BY DEF Update, Served
  <2>2. pending' \in [Devices -> Update \cup {NoUpdate}]
    BY <1>11, <2>1 DEF ReceiveUpdate, BufferUpdate
  <2>3. QED
    BY <1>11, <2>2 DEF ReceiveUpdate, storeVars
<1>12. CASE IntervalElapses
  BY <1>12 DEF IntervalElapses, storeVars
<1>13. CASE Die
  <2>1. globalModel' \in Model
    BY <1>13 DEF Die, InitialModel, ZeroParams, NoVersion, Model
  <2>2. pending' \in [Devices -> Update \cup {NoUpdate}]
    BY <1>13 DEF Die, EmptyBuffer
  <2>3. DOMAIN registry' \subseteq Versions /\ registry' \in [DOMAIN registry' -> Entry]
    BY <1>13 DEF Die, EmptyRegistry
  <2>4. restarts' \in 0 .. MaxRestarts
    BY <1>13, BoundsAssumption DEF Die
  <2>5. QED
    BY <1>13, <2>1, <2>2, <2>3, <2>4 DEF Die, storeVars
<1>14. ASSUME NEW m \in served, NEW f1 \in F1Scores, Evaluate(m, f1) PROVE TypeOK'
  <2>1. evaluations' \in [Versions -> Evaluation \cup {NoEvaluation}]
    BY <1>14 DEF Evaluate, Evaluation, Served
  <2>2. QED
    BY <1>14, <2>1 DEF Evaluate, memoryVars
<1>15. CASE UNCHANGED vars
  BY <1>15 DEF vars, memoryVars, storeVars
<1>16. QED
  BY <1>1, <1>2, <1>3, <1>4, <1>5, <1>6, <1>7, <1>8, <1>9, <1>10, <1>11, <1>12, <1>13,
     <1>14, <1>15 DEF Next, Service, ServiceStep, Environment, OpenWorld

LEMMA TypeInvariant == Spec => []TypeInv
<1>1. TypeInv /\ [Next]_vars => TypeInv'
  BY TypeStep, VersionBoundStep DEF TypeInv
<1>2. QED
  BY <1>1, TypeInvInit, PTL DEF Spec

(* Every variable keeps its type, versions stay within their bound: a      *)
(* rollback always fits behind the round that decides on it.               *)
THEOREM TypeCorrect == Spec => []TypeOK
<1>1. TypeInv => TypeOK
  BY DEF TypeInv
<1>2. QED
  BY <1>1, TypeInvariant, PTL

-----------------------------------------------------------------------------
(* The registry's window.                                                  *)

WindowInv ==
    /\ RegistryIsWindow
    /\ pc = "down" => globalModel.version = 0

(* Keeping the newest MAX_MODEL_VERSIONS_KEPT of a window and the version  *)
(* after it is moving the window by one: eviction drops at most one.       *)
LEMMA NewestIsWindow ==
    ASSUME NEW n \in Versions
    PROVE  Newest(Window(n - 1) \cup {n}) = Window(n)
<1> DEFINE S == Window(n - 1) \cup {n}
<1>1. /\ n \in Nat /\ n >= 1 /\ n <= MaxVersion
      /\ MAX_MODEL_VERSIONS_KEPT \in Nat /\ MAX_MODEL_VERSIONS_KEPT >= 1
      /\ MaxVersion \in Nat
  BY PolicyAssumption, BoundsAssumption DEF Versions
<1>2. \A w : w \in S <=> /\ w \in Nat /\ w >= 1 /\ w <= n
                         /\ w > n - 1 - MAX_MODEL_VERSIONS_KEPT
  BY <1>1 DEF Window, Versions
<1> HIDE DEF S
<1>3. ASSUME NEW v \in S PROVE Cardinality({w \in S : w > v}) = n - v
  <2>1. v \in Nat /\ v <= n /\ v >= 1 /\ v > n - 1 - MAX_MODEL_VERSIONS_KEPT
    BY <1>2
  <2>2. {w \in S : w > v} = (v + 1) .. n
    BY <1>1, <1>2, <2>1
  <2>3. Cardinality((v + 1) .. n) = IF v + 1 > n THEN 0 ELSE n - (v + 1) + 1
    BY <1>1, <2>1, FS_Interval
  <2>4. Cardinality((v + 1) .. n) = n - v
    BY <1>1, <2>1, <2>3
  <2>5. QED
    BY <2>2, <2>4, Zenon
<1>4. Newest(S) = {v \in S : n - v < MAX_MODEL_VERSIONS_KEPT}
  BY <1>3 DEF Newest
<1>5. {v \in S : n - v < MAX_MODEL_VERSIONS_KEPT} = Window(n)
  BY <1>1, <1>2 DEF Window, Versions
<1>6. QED
  BY <1>4, <1>5 DEF S

LEMMA WindowStep == TypeInv /\ WindowInv /\ [Next]_vars => WindowInv'
<1> SUFFICES ASSUME TypeInv, WindowInv, [Next]_vars PROVE WindowInv'
  OBVIOUS
<1>1. globalModel.version \in Nat
  BY DEF TypeInv, TypeOK, Model
<1> USE DEF WindowInv, RegistryIsWindow, Registered
<1>2. CASE NoRoundDue
  BY <1>2 DEF NoRoundDue, memoryVars, storeVars, RoundCheckPoints
<1>3. ASSUME NEW out \in Outcomes, Aggregate(out) PROVE WindowInv'
  <2>1. globalModel'.version - 1 = globalModel.version
    BY <1>1, <1>3 DEF Aggregate
  <2>2. QED
    BY <1>3, <2>1 DEF Aggregate, RoundCheckPoints
<1>4. CASE RegisterModel
  <2> DEFINE n == globalModel.version
  <2>1. n \in Versions /\ DOMAIN registry = Window(n - 1) /\ files = DOMAIN registry
    BY <1>4, BoundsAssumption
    DEF RegisterModel, TypeInv, VersionBound, InRound, InRollback, Versions
  <2>2. Newest(DOMAIN registry \cup {n}) = Window(n)
    BY <2>1, NewestIsWindow
  <2>3. DOMAIN registry' = Window(n)
    BY <1>4, <2>2 DEF RegisterModel, Register
  <2>4. files' = Window(n)
    <3>1. Window(n) \subseteq DOMAIN registry \cup {n}
      BY <2>2 DEF Newest
    <3>2. QED
      BY <1>4, <2>1, <2>2, <3>1 DEF RegisterModel, Register
  <2>5. QED
    BY <1>4, <2>3, <2>4 DEF RegisterModel, Window
<1>5. ASSUME NEW out \in Outcomes, SaveRound(out) PROVE WindowInv'
  BY <1>5 DEF SaveRound
<1>6. ASSUME NEW out \in Outcomes, SendRound(out) PROVE WindowInv'
  BY <1>6 DEF SendRound, memoryVars
<1>7. ASSUME NEW out \in Outcomes, RefreshEvaluations(out) PROVE WindowInv'
  <2>1. DOMAIN registry' = DOMAIN registry
    BY <1>7 DEF RefreshEvaluations, RecordEvaluations
  <2>2. QED
    BY <1>7, <2>1 DEF RefreshEvaluations, storeVars
<1>8. CASE KeepModel
  BY <1>8 DEF KeepModel, memoryVars, storeVars
<1>9. ASSUME NEW out \in Outcomes, RollBack(out) PROVE WindowInv'
  <2>1. globalModel'.version - 1 = globalModel.version
    BY <1>1, <1>9 DEF RollBack, RollbackTo
  <2>2. QED
    BY <1>9, <2>1 DEF RollBack
<1>10. ASSUME NEW out \in Outcomes, SaveRollback(out) \/ SendRollback(out) PROVE WindowInv'
  BY <1>10 DEF SaveRollback, SendRollback, memoryVars
<1>11. CASE Restart
  <2>1. Window(0) = {}
    BY DEF Window, Versions
  <2>2. QED
    BY <1>11, <2>1 DEF Restart, memoryVars
<1>12. ASSUME NEW d \in Devices, NEW u, ReceiveUpdate(d, u) PROVE WindowInv'
  BY <1>12 DEF ReceiveUpdate, storeVars
<1>13. CASE IntervalElapses
  BY <1>13 DEF IntervalElapses, storeVars
<1>14. CASE Die
  <2>1. Window(0) = {}
    BY DEF Window, Versions
  <2>2. QED
    BY <1>14, <2>1 DEF Die, InitialModel, EmptyRegistry
<1>15. ASSUME NEW m \in served, NEW f1 \in F1Scores, Evaluate(m, f1) PROVE WindowInv'
  BY <1>15 DEF Evaluate, memoryVars
<1>16. CASE UNCHANGED vars
  BY <1>16 DEF vars, memoryVars, storeVars
<1>17. QED
  BY <1>2, <1>3, <1>4, <1>5, <1>6, <1>7, <1>8, <1>9, <1>10, <1>11, <1>12, <1>13, <1>14,
     <1>15, <1>16 DEF Next, Service, ServiceStep, Environment, OpenWorld

LEMMA WindowInvariant == Spec => []WindowInv
<1>1. Init => WindowInv
  BY DEF Init, WindowInv, RegistryIsWindow, Registered, Window, Versions, InitialModel,
         EmptyRegistry
<1>2. QED
  BY <1>1, TypeInvariant, WindowStep, PTL DEF Spec

(* For every size of the registry and any sequence of rounds, rollbacks,   *)
(* failed calls and restarts, the registry and the model directory hold    *)
(* exactly the last MAX_MODEL_VERSIONS_KEPT versions.                      *)
THEOREM RegistryWindow == Spec => []RegistryIsWindow
<1>1. WindowInv => RegistryIsWindow
  BY DEF WindowInv
<1>2. QED
  BY <1>1, WindowInvariant, PTL


-----------------------------------------------------------------------------
(* Version numbers.                                                        *)

(* Until the service first dies, the current model carries the highest     *)
(* number written anywhere, so the number a new model takes is unused.     *)
NamingInv ==
    restarts = 0 =>
        /\ VersionNamesOneModel
        /\ \A m \in Published : m.version <= globalModel.version

(* No step writes a model but the ones already written somewhere and the   *)
(* service's current one.                                                  *)
LEMMA PublishedGrows ==
    ASSUME TypeInv, [Next]_vars
    PROVE  Published' \subseteq Published \cup {CurrentModel'}
<1> USE DEF Published
<1>1. CASE NoRoundDue
  BY <1>1 DEF NoRoundDue, memoryVars, storeVars, RowModels, RegistryModels, Scored,
              ScoredModels
<1>2. ASSUME NEW out \in Outcomes, Aggregate(out)
      PROVE  Published' \subseteq Published \cup {CurrentModel'}
  <2>1. served' \subseteq served \cup {CurrentModel'}
    BY <1>2 DEF Aggregate, PublishModelFile, CurrentModel
  <2>2. /\ RowModels' = RowModels
        /\ RegistryModels' = RegistryModels
        /\ ScoredModels' = ScoredModels
        /\ output' = output
    BY <1>2 DEF Aggregate, RowModels, RegistryModels, Scored, ScoredModels
  <2>3. QED
    BY <2>1, <2>2
<1>3. CASE RegisterModel
  <2>1. RegistryModels' \subseteq RegistryModels \cup {CurrentModel}
    <3> DEFINE kept == Newest(DOMAIN registry \cup {globalModel.version})
    <3>1. kept \subseteq DOMAIN registry \cup {globalModel.version}
      BY DEF Newest
    <3>2. registry' = [v \in kept |-> IF v = globalModel.version THEN NewEntry
                                                                 ELSE registry[v]]
      BY <1>3 DEF RegisterModel, Register
    <3> HIDE DEF kept
    <3>3. QED
      BY <3>1, <3>2 DEF RegistryModels, CurrentModel, NewEntry
  <2>2. /\ RowModels' = RowModels
        /\ served' = served
        /\ ScoredModels' = ScoredModels
        /\ output' = output
        /\ CurrentModel' = CurrentModel
    BY <1>3 DEF RegisterModel, RowModels, Scored, ScoredModels, CurrentModel
  <2>3. QED
    BY <2>1, <2>2
<1>4. ASSUME NEW out \in Outcomes, SaveRound(out)
      PROVE  Published' \subseteq Published \cup {CurrentModel'}
  <2>1. RowModels' \subseteq RowModels \cup {CurrentModel}
    BY <1>4 DEF SaveRound, SaveRoundToDb, RowOf, RowModels, CurrentModel
  <2>2. /\ RegistryModels' = RegistryModels
        /\ served' = served
        /\ ScoredModels' = ScoredModels
        /\ output' = output
        /\ CurrentModel' = CurrentModel
    BY <1>4 DEF SaveRound, RegistryModels, Scored, ScoredModels, CurrentModel
  <2>3. QED
    BY <2>1, <2>2
<1>5. ASSUME NEW out \in Outcomes, SendRound(out)
      PROVE  Published' \subseteq Published \cup {CurrentModel'}
  <2>1. output' \in {output, CurrentModel}
    BY <1>5 DEF SendRound, PublishGlobalUpdate, CurrentModel
  <2>2. /\ RegistryModels' = RegistryModels
        /\ RowModels' = RowModels
        /\ served' = served
        /\ ScoredModels' = ScoredModels
        /\ CurrentModel' = CurrentModel
    BY <1>5 DEF SendRound, memoryVars, RowModels, RegistryModels, Scored, ScoredModels,
                CurrentModel
  <2>3. QED
    BY <2>1, <2>2
<1>6. ASSUME NEW out \in Outcomes, RefreshEvaluations(out)
      PROVE  Published' \subseteq Published \cup {CurrentModel'}
  <2>1. /\ DOMAIN registry' = DOMAIN registry
        /\ \A v \in DOMAIN registry : registry'[v].params = registry[v].params
    BY <1>6 DEF RefreshEvaluations, RecordEvaluations, TypeInv, TypeOK, Entry
  <2>2. RegistryModels' = RegistryModels
    BY <2>1 DEF RegistryModels
  <2>3. /\ RowModels' = RowModels
        /\ served' = served
        /\ ScoredModels' = ScoredModels
        /\ output' = output
        /\ CurrentModel' = CurrentModel
    BY <1>6 DEF RefreshEvaluations, storeVars, RowModels, Scored, ScoredModels, CurrentModel
  <2>4. QED
    BY <2>2, <2>3
<1>7. CASE KeepModel
  BY <1>7 DEF KeepModel, memoryVars, storeVars, RowModels, RegistryModels, Scored,
              ScoredModels
<1>8. ASSUME NEW out \in Outcomes, RollBack(out)
      PROVE  Published' \subseteq Published \cup {CurrentModel'}
  <2>1. served' \subseteq served \cup {CurrentModel'}
    BY <1>8 DEF RollBack, PublishModelFile, CurrentModel
  <2>2. /\ RowModels' = RowModels
        /\ RegistryModels' = RegistryModels
        /\ ScoredModels' = ScoredModels
        /\ output' = output
    BY <1>8 DEF RollBack, RowModels, RegistryModels, Scored, ScoredModels
  <2>3. QED
    BY <2>1, <2>2
<1>9. ASSUME NEW out \in Outcomes, SaveRollback(out) \/ SendRollback(out)
      PROVE  Published' \subseteq Published \cup {CurrentModel'}
  <2>1. RowModels' \subseteq RowModels \cup {CurrentModel}
    BY <1>9 DEF SaveRollback, SendRollback, SaveRoundToDb, RowOf, RowModels, CurrentModel
  <2>2. output' \in {output, CurrentModel}
    BY <1>9 DEF SaveRollback, SendRollback, PublishGlobalUpdate, CurrentModel
  <2>3. /\ RegistryModels' = RegistryModels
        /\ served' = served
        /\ ScoredModels' = ScoredModels
        /\ CurrentModel' = CurrentModel
    BY <1>9 DEF SaveRollback, SendRollback, memoryVars, RegistryModels, Scored,
                ScoredModels, CurrentModel
  <2>4. QED
    BY <2>1, <2>2, <2>3
<1>10. CASE Restart
  BY <1>10 DEF Restart, memoryVars, RowModels, RegistryModels, Scored, ScoredModels
<1>11. ASSUME NEW d \in Devices, NEW u, ReceiveUpdate(d, u)
       PROVE  Published' \subseteq Published \cup {CurrentModel'}
  BY <1>11 DEF ReceiveUpdate, storeVars, RowModels, RegistryModels, Scored, ScoredModels
<1>12. CASE IntervalElapses
  BY <1>12 DEF IntervalElapses, storeVars, RowModels, RegistryModels, Scored, ScoredModels
<1>13. ASSUME NEW m \in served, NEW f1 \in F1Scores, Evaluate(m, f1)
       PROVE  Published' \subseteq Published \cup {CurrentModel'}
  <2>1. m = [version |-> m.version, params |-> m.params]
    BY DEF TypeInv, TypeOK, Served
  <2>2. /\ \A v \in Versions : v # m.version => evaluations'[v] = evaluations[v]
        /\ m.version \in Versions => evaluations'[m.version] = [f1 |-> f1, params |-> m.params]
    BY <1>13 DEF Evaluate, TypeInv, TypeOK
  <2>3. ScoredModels' \subseteq ScoredModels \cup {m}
    BY <2>1, <2>2 DEF Scored, ScoredModels
  <2>4. /\ RegistryModels' = RegistryModels
        /\ RowModels' = RowModels
        /\ served' = served
        /\ output' = output
        /\ CurrentModel' = CurrentModel
    BY <1>13 DEF Evaluate, memoryVars, RowModels, RegistryModels, CurrentModel
  <2>5. QED
    BY <2>3, <2>4
<1>14. CASE UNCHANGED vars
  BY <1>14 DEF vars, memoryVars, storeVars, RowModels, RegistryModels, Scored, ScoredModels
<1>15. CASE Die
  <2>1. RegistryModels' = {}
    BY <1>15 DEF Die, EmptyRegistry, RegistryModels
  <2>2. /\ RowModels' = RowModels
        /\ served' = served
        /\ ScoredModels' = ScoredModels
        /\ output' = output
    BY <1>15 DEF Die, storeVars, RowModels, Scored, ScoredModels
  <2>3. QED
    BY <2>1, <2>2
<1>16. QED
  BY <1>1, <1>2, <1>3, <1>4, <1>5, <1>6, <1>7, <1>8, <1>9, <1>10, <1>11, <1>12, <1>13,
     <1>14, <1>15 DEF Next, Service, ServiceStep, Environment, OpenWorld

LEMMA VersionsAreInts ==
    ASSUME TypeInv, NEW m \in Published PROVE m.version \in Int
  BY DEF TypeInv, TypeOK, Published, RowModels, RegistryModels, ScoredModels, Scored,
         CurrentModel, Served, Row, Model, Versions

(* The current model changes only by taking the next number.               *)
LEMMA ModelSteps ==
    ASSUME TypeInv, [Next]_vars, ~Die
    PROVE  \/ globalModel' = globalModel
           \/ globalModel'.version = globalModel.version + 1
<1>1. ASSUME NEW out \in Outcomes, Aggregate(out)
      PROVE  globalModel'.version = globalModel.version + 1
  BY <1>1 DEF Aggregate
<1>2. ASSUME NEW out \in Outcomes, RollBack(out)
      PROVE  globalModel'.version = globalModel.version + 1
  BY <1>2 DEF RollBack, RollbackTo
<1>3. CASE UNCHANGED globalModel
  BY <1>3
<1>4. QED
  BY <1>1, <1>2, <1>3
  DEF Next, Service, ServiceStep, Environment, OpenWorld, NoRoundDue, RegisterModel,
      SaveRound, SendRound, RefreshEvaluations, KeepModel, SaveRollback, SendRollback,
      Restart, ReceiveUpdate, IntervalElapses, Evaluate, vars, memoryVars

(* In the service's first life no step is a death.                         *)
LEMMA FirstLife ==
    ASSUME TypeInv, [Next]_vars, (restarts = 0)'
    PROVE  ~Die /\ restarts = 0
<1>1. restarts \in Nat
  BY BoundsAssumption DEF TypeInv, TypeOK
<1>2. ~Die
  BY <1>1 DEF Die
<1>3. restarts' = restarts
  BY <1>2
  DEF Next, Service, ServiceStep, Environment, OpenWorld, NoRoundDue, Aggregate,
      RegisterModel, SaveRound, SendRound, RefreshEvaluations, KeepModel, RollBack,
      SaveRollback, SendRollback, Restart, ReceiveUpdate, IntervalElapses, Evaluate, vars
<1>4. QED
  BY <1>2, <1>3

LEMMA NamingInit == Init => NamingInv
  BY DEF Init, NamingInv, VersionNamesOneModel, Published, RowModels, RegistryModels,
         Scored, ScoredModels, CurrentModel, EmptyRegistry, InitialModel, NoModelFile

LEMMA NamingStep == TypeInv /\ NamingInv /\ [Next]_vars => NamingInv'
<1> SUFFICES ASSUME TypeInv, NamingInv, [Next]_vars, (restarts = 0)'
             PROVE  /\ VersionNamesOneModel'
                    /\ \A m \in Published' : m.version <= globalModel'.version
  BY DEF NamingInv
<1>1. ~Die /\ restarts = 0
  BY FirstLife
<1>2. /\ VersionNamesOneModel
      /\ \A m \in Published : m.version <= globalModel.version
      /\ CurrentModel \in Published
  BY <1>1 DEF NamingInv, Published
<1>3. Published' \subseteq Published \cup {CurrentModel'}
  BY <1>1, PublishedGrows
<1>4. /\ globalModel.version \in Nat
      /\ CurrentModel.version = globalModel.version
      /\ CurrentModel'.version = globalModel'.version
  BY DEF TypeInv, TypeOK, Model, CurrentModel
<1>5. CASE globalModel' = globalModel
  <2>1. CurrentModel' = CurrentModel
    BY <1>5 DEF CurrentModel
  <2>2. Published' \subseteq Published
    BY <1>2, <1>3, <2>1
  <2>3. QED
    BY <1>1, <1>2, <1>5, <2>2 DEF VersionNamesOneModel
<1>6. CASE globalModel'.version = globalModel.version + 1
  <2>1. \A m \in Published : m.version # CurrentModel'.version
    <3>1. ASSUME NEW m \in Published, m.version = CurrentModel'.version PROVE FALSE
      BY <1>2, <1>4, <1>6, <3>1
    <3>2. QED
      BY <3>1
  <2>2. VersionNamesOneModel'
    BY <1>1, <1>2, <1>3, <2>1 DEF VersionNamesOneModel
  <2>3. ASSUME NEW m \in Published' PROVE m.version <= globalModel'.version
    <3>1. CASE m \in Published
      <4>1. m.version <= globalModel.version /\ m.version \in Int
        BY <1>2, <3>1, VersionsAreInts
      <4>2. QED
        BY <1>4, <1>6, <4>1
    <3>2. CASE m = CurrentModel'
      BY <1>4, <1>6, <3>2
    <3>3. QED
      BY <1>3, <3>1, <3>2
  <2>4. QED
    BY <2>2, <2>3
<1>7. QED
  BY <1>1, <1>5, <1>6, ModelSteps

(* Until the service first dies, a version number names one model in every *)
(* place it is written to.                                                 *)
THEOREM VersionNaming == Spec => []VersionNamesOneModel
<1>1. NamingInv => VersionNamesOneModel
  BY DEF NamingInv, VersionNamesOneModel
<1>2. QED
  BY <1>1, NamingInit, NamingStep, TypeInvariant, PTL DEF Spec


-----------------------------------------------------------------------------
(* What the version numbers of updates and scores resolve to.              *)

(* A buffered update names a model some device could read, and a score is  *)
(* only held for a version that Spark's table still has a row for.         *)
ReferenceInv ==
    /\ NoModelFile \in served
    /\ \A d \in Buffered :
          [version |-> pending[d].base, params |-> pending[d].params] \in served
    /\ \A v \in DOMAIN registry : registry[v].f1 # NoScore => evaluations[v] # NoEvaluation

LEMMA ReferenceStep == TypeInv /\ ReferenceInv /\ [Next]_vars => ReferenceInv'
<1> SUFFICES ASSUME TypeInv, ReferenceInv, [Next]_vars PROVE ReferenceInv'
  OBVIOUS
<1> USE DEF ReferenceInv, Buffered
<1>1. CASE NoRoundDue
  BY <1>1 DEF NoRoundDue, memoryVars, storeVars
<1>2. ASSUME NEW out \in Outcomes, Aggregate(out) PROVE ReferenceInv'
  <2>1. served \subseteq served'
    BY <1>2 DEF Aggregate, PublishModelFile
  <2>2. QED
    BY <1>2, <2>1 DEF Aggregate
<1>3. CASE RegisterModel
  <2>1. \A v \in DOMAIN registry' :
           \/ registry'[v].f1 = NoScore
           \/ v \in DOMAIN registry /\ registry'[v] = registry[v]
    BY <1>3 DEF RegisterModel, Register, NewEntry, Newest
  <2>2. QED
    BY <1>3, <2>1 DEF RegisterModel
<1>4. ASSUME NEW out \in Outcomes, SaveRound(out) PROVE ReferenceInv'
  BY <1>4 DEF SaveRound, EmptyBuffer
<1>5. ASSUME NEW out \in Outcomes, SendRound(out) PROVE ReferenceInv'
  BY <1>5 DEF SendRound, memoryVars
<1>6. ASSUME NEW out \in Outcomes, RefreshEvaluations(out) PROVE ReferenceInv'
  <2>1. DOMAIN registry' = DOMAIN registry
    BY <1>6 DEF RefreshEvaluations, RecordEvaluations
  <2>2. \A v \in DOMAIN registry : registry'[v] = registry[v] \/ evaluations[v] # NoEvaluation
    BY <1>6 DEF RefreshEvaluations, RecordEvaluations
  <2>3. QED
    BY <1>6, <2>1, <2>2 DEF RefreshEvaluations, storeVars
<1>7. CASE KeepModel
  BY <1>7 DEF KeepModel, memoryVars, storeVars
<1>8. ASSUME NEW out \in Outcomes, RollBack(out) PROVE ReferenceInv'
  <2>1. served \subseteq served'
    BY <1>8 DEF RollBack, PublishModelFile
  <2>2. QED
    BY <1>8, <2>1 DEF RollBack
<1>9. ASSUME NEW out \in Outcomes, SaveRollback(out) \/ SendRollback(out) PROVE ReferenceInv'
  BY <1>9 DEF SaveRollback, SendRollback, memoryVars
<1>10. CASE Restart
  BY <1>10 DEF Restart, memoryVars
<1>11. ASSUME NEW d \in Devices, NEW m \in served,
              ReceiveUpdate(d, [base |-> m.version, params |-> m.params])
       PROVE ReferenceInv'
  <2>1. m = [version |-> m.version, params |-> m.params]
    BY DEF TypeInv, TypeOK, Served
  <2>2. \A e \in Devices :
           \/ pending'[e] = pending[e]
           \/ pending'[e] = [base |-> m.version, params |-> m.params]
    BY <1>11 DEF ReceiveUpdate, BufferUpdate, TypeInv, TypeOK
  <2>3. QED
    BY <1>11, <2>1, <2>2 DEF ReceiveUpdate, storeVars
<1>12. CASE IntervalElapses
  BY <1>12 DEF IntervalElapses, storeVars
<1>13. CASE Die
  BY <1>13 DEF Die, EmptyBuffer, EmptyRegistry, storeVars
<1>14. ASSUME NEW m \in served, NEW f1 \in F1Scores, Evaluate(m, f1) PROVE ReferenceInv'
  <2>1. f1 # NoScore
    BY PolicyAssumption DEF NoScore
  <2>2. \A v \in Versions : evaluations'[v] = evaluations[v] \/ evaluations'[v].f1 = f1
    BY <1>14 DEF Evaluate, TypeInv, TypeOK
  <2>3. \A v \in DOMAIN registry : evaluations[v] # NoEvaluation => evaluations'[v] # NoEvaluation
    BY <2>1, <2>2 DEF NoEvaluation, TypeInv, TypeOK
  <2>4. QED
    BY <1>14, <2>3 DEF Evaluate, memoryVars
<1>15. CASE UNCHANGED vars
  BY <1>15 DEF vars, memoryVars, storeVars
<1>16. QED
  BY <1>1, <1>2, <1>3, <1>4, <1>5, <1>6, <1>7, <1>8, <1>9, <1>10, <1>11, <1>12, <1>13,
     <1>14, <1>15 DEF Next, Service, ServiceStep, Environment, OpenWorld

LEMMA ReferenceInvariant == Spec => []ReferenceInv
<1>1. Init => ReferenceInv
  BY DEF Init, ReferenceInv, Buffered, EmptyBuffer, EmptyRegistry
<1>2. QED
  BY <1>1, ReferenceStep, TypeInvariant, PTL DEF Spec

(* Until the service first dies, every buffered update's delta is measured *)
(* from the parameters its device started from, unless they were evicted.  *)
THEOREM DeltasFromBase == Spec => []DeltasMeasuredFromBase
<1>1. ASSUME TypeInv, restarts = 0, VersionNamesOneModel, ReferenceInv,
             NEW d \in Buffered, BaseIsKept(pending[d].base)
      PROVE  BaseParams(pending[d].base) = pending[d].params
  <2> DEFINE u == [version |-> pending[d].base, params |-> pending[d].params]
  <2>1. u \in Published /\ NoModelFile \in Published /\ CurrentModel \in Published
    BY <1>1 DEF ReferenceInv, Published
  <2>2. CASE u.version = globalModel.version
    <3>1. CurrentModel.version = u.version
      BY <2>2 DEF CurrentModel
    <3>2. CurrentModel.params = u.params
      BY <1>1, <2>1, <3>1 DEF VersionNamesOneModel
    <3>3. QED
      BY <2>2, <3>2 DEF BaseParams, CurrentModel
  <2>3. CASE u.version # globalModel.version /\ u.version \in DOMAIN registry
    <3>1. [version |-> u.version, params |-> registry[u.version].params] \in Published
      BY <2>3 DEF Published, RegistryModels
    <3>2. registry[u.version].params = u.params
      BY <1>1, <2>1, <3>1 DEF VersionNamesOneModel
    <3>3. QED
      BY <2>3, <3>2 DEF BaseParams
  <2>4. CASE u.version # globalModel.version /\ u.version \notin DOMAIN registry
    <3>1. u.version = 0
      BY <1>1, <2>4 DEF BaseIsKept
    <3>2. u.params = ZeroParams
      BY <1>1, <2>1, <3>1 DEF VersionNamesOneModel, NoModelFile
    <3>3. QED
      BY <2>4, <3>1, <3>2 DEF BaseParams
  <2>5. QED
    BY <2>2, <2>3, <2>4
<1>2. TypeInv /\ NamingInv /\ ReferenceInv => DeltasMeasuredFromBase
  BY <1>1 DEF NamingInv, DeltasMeasuredFromBase
<1>3. QED
  BY <1>2, NamingInit, NamingStep, ReferenceInvariant, TypeInvariant, PTL DEF Spec

(* Until the service first dies, the registry's score of a version is a    *)
(* score of that version's own parameters.                                 *)
THEOREM ScoresOfOwnModel == Spec => []ScoresBelongToModel
<1>1. ASSUME TypeInv, restarts = 0, VersionNamesOneModel, ReferenceInv,
             NEW v \in DOMAIN registry, registry[v].f1 # NoScore
      PROVE  evaluations[v].params = registry[v].params
  <2>1. v \in Scored
    BY <1>1 DEF ReferenceInv, Scored, TypeInv, TypeOK
  <2>2. /\ [version |-> v, params |-> evaluations[v].params] \in Published
        /\ [version |-> v, params |-> registry[v].params] \in Published
    BY <2>1 DEF Published, ScoredModels, RegistryModels
  <2>3. QED
    BY <1>1, <2>2 DEF VersionNamesOneModel
<1>2. TypeInv /\ NamingInv /\ ReferenceInv => ScoresBelongToModel
  BY <1>1 DEF NamingInv, ScoresBelongToModel
<1>3. QED
  BY <1>2, NamingInit, NamingStep, ReferenceInvariant, TypeInvariant, PTL DEF Spec


-----------------------------------------------------------------------------
(* The privacy budget.                                                     *)

BudgetInv ==
    /\ \A m \in Published : m.params <= made
    /\ restarts = 0 => dpRounds = made
    /\ BudgetCoversReleases

(* Parameters are numbered in the order they are made.                     *)
LEMMA MadeStep ==
    ASSUME TypeInv, [Next]_vars, \A m \in Published : m.params <= made
    PROVE  \A m \in Published' : m.params <= made'
<1>1. CurrentModel \in Published /\ globalModel.params \in Nat /\ made \in Nat
  BY DEF Published, TypeInv, TypeOK, Model
<1>2. globalModel.params <= made
  BY <1>1 DEF CurrentModel
<1>3. made' \in Nat /\ made <= made' /\ globalModel'.params <= made'
  <2>1. ASSUME NEW out \in Outcomes, Aggregate(out)
        PROVE  made' = made + 1 /\ globalModel'.params = made + 1
    BY <2>1 DEF Aggregate
  <2>2. ASSUME NEW out \in Outcomes, RollBack(out)
        PROVE  made' = made /\ globalModel'.params <= made
    <3>1. PICK best \in DOMAIN registry : RollbackTo(best)
      BY <2>2 DEF RollBack
    <3>2. [version |-> best, params |-> registry[best].params] \in Published
      BY DEF Published, RegistryModels
    <3>3. registry[best].params <= made
      BY <3>2
    <3>4. QED
      BY <2>2, <3>1, <3>3 DEF RollbackTo, RollBack
  <2>3. CASE Die
    BY <1>1, <2>3 DEF Die, InitialModel, ZeroParams
  <2>4. CASE UNCHANGED <<globalModel, made>>
    BY <1>1, <1>2, <2>4
  <2>5. \/ UNCHANGED <<globalModel, made>>
        \/ Die
        \/ \E out \in Outcomes : Aggregate(out) \/ RollBack(out)
    BY DEF Next, Service, ServiceStep, Environment, OpenWorld, NoRoundDue, RegisterModel,
           SaveRound, SendRound, RefreshEvaluations, KeepModel, SaveRollback,
           SendRollback, Restart, ReceiveUpdate, IntervalElapses, Evaluate, vars,
           memoryVars
  <2>6. QED
    BY <1>1, <2>1, <2>2, <2>3, <2>4, <2>5
<1>4. ASSUME NEW m \in Published' PROVE m.params <= made'
  <2>1. CASE m \in Published
    <3>1. m.params <= made /\ m.params \in Nat
      BY <2>1
      DEF TypeInv, TypeOK, Published, RowModels, RegistryModels, ScoredModels, Scored,
          CurrentModel, Served, Row, Model, Entry, Evaluation
    <3>2. QED
      BY <1>1, <1>3, <3>1
  <2>2. CASE m = CurrentModel'
    BY <1>3, <2>2 DEF CurrentModel
  <2>3. QED
    BY <2>1, <2>2, PublishedGrows
<1>5. QED
  BY <1>4

LEMMA BudgetStep == TypeInv /\ BudgetInv /\ [Next]_vars => BudgetInv'
<1> SUFFICES ASSUME TypeInv, BudgetInv, [Next]_vars PROVE BudgetInv'
  OBVIOUS
<1>1. (\A m \in Published : m.params <= made)'
  BY MadeStep DEF BudgetInv
<1>2. ASSUME (restarts = 0)' PROVE (dpRounds = made)'
  <2>1. ~Die /\ restarts = 0
    BY <1>2, FirstLife
  <2>2. dpRounds = made
    BY <2>1 DEF BudgetInv
  <2>3. ASSUME NEW out \in Outcomes, Aggregate(out) PROVE (dpRounds = made)'
    BY <2>2, <2>3 DEF Aggregate
  <2>4. CASE UNCHANGED <<dpRounds, made>>
    BY <2>2, <2>4
  <2>5. QED
    BY <2>1, <2>3, <2>4
    DEF Next, Service, ServiceStep, Environment, OpenWorld, NoRoundDue, RegisterModel,
        SaveRound, SendRound, RefreshEvaluations, KeepModel, RollBack, SaveRollback,
        SendRollback, Restart, ReceiveUpdate, IntervalElapses, Evaluate, vars, memoryVars
<1>3. BudgetCoversReleases'
  <2>1. ASSUME NEW out \in Outcomes, SaveRoundToDb(out) PROVE BudgetCoversReleases'
    <3>1. restarts = 0 => dpRounds >= made
      BY DEF BudgetInv, TypeInv, TypeOK
    <3>2. \A r \in rows' : r \in rows \/ r = RowOf(globalModel, dpRounds)
      BY <2>1 DEF SaveRoundToDb
    <3>3. QED
      BY <3>1, <3>2 DEF BudgetInv, BudgetCoversReleases, RowOf
  <2>2. CASE UNCHANGED rows
    BY <2>2 DEF BudgetInv, BudgetCoversReleases
  <2>3. QED
    BY <2>1, <2>2
    DEF Next, Service, ServiceStep, Environment, OpenWorld, NoRoundDue, Aggregate,
        RegisterModel, SaveRound, SendRound, RefreshEvaluations, KeepModel, RollBack,
        SaveRollback, SendRollback, Restart, Die, ReceiveUpdate, IntervalElapses, Evaluate,
        vars, storeVars
<1>4. QED
  BY <1>1, <1>2, <1>3 DEF BudgetInv

(* The budget in a row that the first life of the service wrote, for a     *)
(* round or a rollback, covers every noised aggregate computed until then. *)
THEOREM BudgetCovers == Spec => []BudgetCoversReleases
<1>1. Init => BudgetInv
  BY DEF Init, BudgetInv, BudgetCoversReleases, Published, RowModels, RegistryModels,
         Scored, ScoredModels, CurrentModel, EmptyRegistry, InitialModel, NoModelFile,
         ZeroParams
<1>2. BudgetInv => BudgetCoversReleases
  BY DEF BudgetInv
<1>3. QED
  BY <1>1, <1>2, BudgetStep, TypeInvariant, PTL DEF Spec

-----------------------------------------------------------------------------
(* The model file.                                                         *)

LatestInv == pc # "down" => latest.version <= globalModel.version

LEMMA LatestStep ==
    ASSUME TypeInv, LatestInv, [Next]_vars
    PROVE  LatestInv' /\ (pc # "down" => latest'.version >= latest.version)
<1>1. latest.version \in Nat /\ globalModel.version \in Nat
  BY DEF TypeInv, TypeOK, Served, Model
<1> USE <1>1 DEF LatestInv
<1>2. ASSUME NEW out \in Outcomes, Aggregate(out)
      PROVE  LatestInv' /\ (pc # "down" => latest'.version >= latest.version)
  <2>1. globalModel'.version = globalModel.version + 1 /\ pc # "down"
    BY <1>2 DEF Aggregate, RoundCheckPoints
  <2>2. latest' = latest \/ latest'.version = globalModel'.version
    BY <1>2 DEF Aggregate, PublishModelFile
  <2>3. QED
    BY <2>1, <2>2
<1>3. ASSUME NEW out \in Outcomes, RollBack(out)
      PROVE  LatestInv' /\ (pc # "down" => latest'.version >= latest.version)
  <2>1. globalModel'.version = globalModel.version + 1 /\ pc # "down"
    BY <1>3 DEF RollBack, RollbackTo
  <2>2. latest' = latest \/ latest'.version = globalModel'.version
    BY <1>3 DEF RollBack, PublishModelFile
  <2>3. QED
    BY <2>1, <2>2
<1>4. CASE Restart
  BY <1>4 DEF Restart, NoModelFile, memoryVars
<1>5. CASE Die
  BY <1>5 DEF Die, storeVars
<1>6. CASE UNCHANGED <<latest, globalModel>> /\ (pc = "down" <=> pc' = "down")
  BY <1>6
<1>7. CASE Service
  BY <1>2, <1>3, <1>4, <1>6, <1>7
  DEF Service, ServiceStep, NoRoundDue, RegisterModel, SaveRound, SendRound,
      RefreshEvaluations, KeepModel, SaveRollback, SendRollback, memoryVars, storeVars
<1>8. CASE Environment
  BY <1>5, <1>6, <1>8
  DEF Environment, OpenWorld, ReceiveUpdate, IntervalElapses, Evaluate, memoryVars,
      storeVars
<1>9. CASE UNCHANGED vars
  BY <1>6, <1>9 DEF vars, memoryVars, storeVars
<1>10. QED
  BY <1>7, <1>8, <1>9 DEF Next

LEMMA LatestInvariant == Spec => []LatestInv
<1>1. Init => LatestInv
  BY DEF Init, LatestInv, NoModelFile, InitialModel
<1>2. TypeInv /\ LatestInv /\ [Next]_vars => LatestInv'
  BY LatestStep
<1>3. QED
  BY <1>1, <1>2, TypeInvariant, PTL DEF Spec

(* While the service lives, the version in the file that devices and Spark *)
(* read never goes down.                                                   *)
THEOREM ModelFileMonotone == Spec => LatestNeverRegresses
<1>1. TypeInv /\ LatestInv /\ [Next]_vars
         => [pc # "down" => latest'.version >= latest.version]_vars
  BY LatestStep
<1>2. QED
  BY <1>1, TypeInvariant, LatestInvariant, PTL DEF Spec, LatestNeverRegresses


-----------------------------------------------------------------------------
(* Rollbacks.                                                              *)

(* The trace an earlier rollback to t for the degraded version d leaves:   *)
(* t is evicted, or a version newer than d is still known to come from it. *)
(* Such a version is newer than t, so the registry evicts t first.         *)
Remembered(d, t) ==
    \/ t \notin DOMAIN registry
    \/ \E v \in DOMAIN registry : registry[v].rolledBackFrom = t /\ v > d
    \/ /\ pc = "registeringRollback"
       /\ globalModel.rolledBackFrom = t
       /\ globalModel.version > d

RollbackInv ==
    /\ \A p \in rollbackLog : p[2] < globalModel.version /\ Remembered(p[1], p[2])
    /\ \A v \in DOMAIN registry : registry[v].rolledBackFrom < v
    /\ globalModel.rolledBackFrom <= globalModel.version
    /\ globalModel.version > 0 => globalModel.rolledBackFrom < globalModel.version

(* Registering moves the registry's window by one version.                 *)
LEMMA RegisterMovesWindow ==
    ASSUME TypeInv, WindowInv, RegisterModel
    PROVE  LET n == globalModel.version
           IN  /\ n \in Versions /\ n \in Nat /\ n > 0
               /\ DOMAIN registry = Window(n - 1)
               /\ registry' = [v \in Window(n) |-> IF v = n THEN NewEntry ELSE registry[v]]
<1> DEFINE n == globalModel.version
<1>1. /\ n \in Versions /\ DOMAIN registry = Window(n - 1)
      /\ n \in Nat /\ n > 0
  BY BoundsAssumption
  DEF RegisterModel, TypeInv, TypeOK, VersionBound, InRound, InRollback, Versions,
      WindowInv, RegistryIsWindow, Registered
<1>2. registry' = [v \in Window(n) |-> IF v = n THEN NewEntry ELSE registry[v]]
  BY <1>1, NewestIsWindow DEF RegisterModel, Register
<1>3. QED
  BY <1>1, <1>2

LEMMA RememberedStep ==
    ASSUME TypeInv, WindowInv, RollbackInv, RegisterModel, NEW p \in rollbackLog
    PROVE  Remembered(p[1], p[2])'
<1> DEFINE n == globalModel.version
<1> DEFINE d == p[1]
<1> DEFINE t == p[2]
<1>1. /\ n \in Versions /\ DOMAIN registry = Window(n - 1)
      /\ n \in Nat /\ n > 0 /\ d \in Nat /\ t \in Nat
  BY RegisterMovesWindow DEF TypeInv, TypeOK, Versions
<1>2. /\ DOMAIN registry' = Window(n)
      /\ registry' = [v \in Window(n) |-> IF v = n THEN NewEntry ELSE registry[v]]
  BY RegisterMovesWindow
<1>3. t < n /\ Remembered(d, t)
  BY DEF RollbackInv
<1> HIDE DEF d, t
<1>4. CASE t \notin Window(n)
  BY <1>2, <1>4 DEF Remembered, t
<1>5. ASSUME t \in Window(n),
             NEW v \in DOMAIN registry, registry[v].rolledBackFrom = t, v > d
      PROVE  v \in DOMAIN registry' /\ registry'[v].rolledBackFrom = t
  <2>1. t < v
    BY <1>5 DEF RollbackInv
  <2>2. v \in Versions /\ v <= n - 1 /\ v \in Nat
    BY <1>1 DEF Window, Versions
  <2>3. v \in Window(n)
    BY <1>1, <1>5, <2>1, <2>2, PolicyAssumption DEF Window
  <2>4. QED
    BY <1>1, <1>2, <1>5, <2>2, <2>3
<1>6. CASE /\ t \in Window(n)
           /\ \E v \in DOMAIN registry : registry[v].rolledBackFrom = t /\ v > d
  BY <1>5, <1>6 DEF Remembered, d, t
<1>7. CASE /\ t \in Window(n)
           /\ pc = "registeringRollback"
           /\ globalModel.rolledBackFrom = t
           /\ n > d
  <2>1. n \in Window(n)
    BY <1>1, PolicyAssumption DEF Window
  <2>2. registry'[n].rolledBackFrom = t
    BY <1>2, <1>7, <2>1 DEF NewEntry
  <2>3. QED
    BY <1>2, <1>7, <2>1, <2>2 DEF Remembered, d, t
<1>8. ASSUME t \in Window(n) PROVE t \in DOMAIN registry
  <2>1. t \in Versions /\ t > n - MAX_MODEL_VERSIONS_KEPT
    BY <1>8 DEF Window
  <2>2. t <= n - 1 /\ t > (n - 1) - MAX_MODEL_VERSIONS_KEPT
    BY <1>1, <1>3, <2>1, PolicyAssumption
  <2>3. QED
    BY <1>1, <2>1, <2>2 DEF Window
<1>9. QED
  BY <1>3, <1>4, <1>6, <1>7, <1>8 DEF Remembered

LEMMA RollbackStep ==
    ASSUME TypeInv, WindowInv, RollbackInv, [Next]_vars
    PROVE  RollbackInv'
<1>1. /\ globalModel.version \in Nat /\ globalModel.rolledBackFrom \in Nat
      /\ \A p \in rollbackLog : p[1] \in Nat /\ p[2] \in Nat
  BY DEF TypeInv, TypeOK, Model, Versions
<1>2. CASE UNCHANGED <<globalModel, registry, rollbackLog>> /\ pc # "registeringRollback"
  BY <1>2 DEF RollbackInv, Remembered
<1>3. CASE UNCHANGED <<pc, globalModel, registry, rollbackLog>>
  BY <1>3 DEF RollbackInv, Remembered
<1>4. ASSUME NEW out \in Outcomes, Aggregate(out) PROVE RollbackInv'
  <2>1. /\ UNCHANGED <<registry, rollbackLog>> /\ pc # "registeringRollback"
        /\ globalModel'.version = globalModel.version + 1
        /\ globalModel'.rolledBackFrom = 0
    BY <1>4 DEF Aggregate, RoundCheckPoints, NoVersion
  <2>2. \A p \in rollbackLog : p[2] < globalModel'.version
    BY <1>1, <2>1 DEF RollbackInv
  <2>3. QED
    BY <1>1, <2>1, <2>2 DEF RollbackInv, Remembered
<1>5. CASE RegisterModel
  <2>1. UNCHANGED <<globalModel, rollbackLog>>
    BY <1>5 DEF RegisterModel
  <2>2. globalModel.version > 0
    BY <1>5, BoundsAssumption DEF RegisterModel, TypeInv, VersionBound, InRound, InRollback
  <2>3. \A v \in DOMAIN registry' :
           \/ v = globalModel.version /\ registry'[v] = NewEntry
           \/ v \in DOMAIN registry /\ registry'[v] = registry[v]
    BY <1>5 DEF RegisterModel, Register, Newest
  <2>4. \A v \in DOMAIN registry' : registry'[v].rolledBackFrom < v
    BY <2>2, <2>3 DEF RollbackInv, NewEntry
  <2>5. \A p \in rollbackLog : Remembered(p[1], p[2])'
    BY <1>5, RememberedStep
  <2>6. QED
    BY <2>1, <2>2, <2>4, <2>5 DEF RollbackInv
<1>6. ASSUME NEW out \in Outcomes, RefreshEvaluations(out) PROVE RollbackInv'
  <2>1. /\ DOMAIN registry' = DOMAIN registry
        /\ \A v \in DOMAIN registry : registry'[v].rolledBackFrom = registry[v].rolledBackFrom
    BY <1>6 DEF RefreshEvaluations, RecordEvaluations, TypeInv, TypeOK, Entry
  <2>2. UNCHANGED <<globalModel, rollbackLog>> /\ pc # "registeringRollback"
    BY <1>6 DEF RefreshEvaluations
  <2>3. QED
    BY <2>1, <2>2 DEF RollbackInv, Remembered
<1>7. ASSUME NEW out \in Outcomes, RollBack(out) PROVE RollbackInv'
  <2>1. PICK degraded \in DOMAIN registry, best \in DOMAIN registry :
           /\ RollbackTo(best)
           /\ rollbackLog' = rollbackLog \cup {<<degraded, best>>}
    BY <1>7 DEF RollBack
  <2>2. UNCHANGED registry /\ pc = "deciding" /\ pc' = "registeringRollback"
    BY <1>7 DEF RollBack
  <2>3. /\ globalModel'.version = globalModel.version + 1
        /\ globalModel'.rolledBackFrom = best
    BY <2>1 DEF RollbackTo
  <2>4. /\ degraded <= globalModel.version /\ best <= globalModel.version
        /\ degraded \in Nat /\ best \in Nat
    BY <2>2 DEF WindowInv, RegistryIsWindow, Registered, Window, Versions
  <2>5. \A p \in rollbackLog : p[2] < globalModel'.version /\ Remembered(p[1], p[2])'
    BY <1>1, <2>2, <2>3 DEF RollbackInv, Remembered
  <2>6. best < globalModel'.version /\ Remembered(degraded, best)'
    BY <1>1, <2>2, <2>3, <2>4 DEF Remembered
  <2>7. QED
    BY <1>1, <2>1, <2>2, <2>3, <2>4, <2>5, <2>6 DEF RollbackInv
<1>8. CASE Die
  BY <1>8 DEF Die, RollbackInv, InitialModel, NoVersion, EmptyRegistry
<1>9. CASE Service
  BY <1>2, <1>4, <1>5, <1>6, <1>7, <1>9
  DEF Service, ServiceStep, NoRoundDue, SaveRound, SendRound, KeepModel, SaveRollback,
      SendRollback, Restart, memoryVars
<1>10. CASE Environment
  BY <1>2, <1>3, <1>8, <1>10
  DEF Environment, OpenWorld, ReceiveUpdate, IntervalElapses, Evaluate, memoryVars
<1>11. CASE UNCHANGED vars
  BY <1>3, <1>11 DEF vars, memoryVars
<1>12. QED
  BY <1>9, <1>10, <1>11 DEF Next

LEMMA RollbackInvariant == Spec => []RollbackInv
<1>1. Init => RollbackInv
  BY DEF Init, RollbackInv, InitialModel, NoVersion, EmptyRegistry
<1>2. QED
  BY <1>1, RollbackStep, TypeInvariant, WindowInvariant, PTL DEF Spec

(* For every registry size and every order in which scores arrive: no      *)
(* version is rolled back to twice for the same degraded version.          *)
THEOREM RollbackNotRepeated == Spec => RollbackIsNew
<1>1. ASSUME TypeInv, RollbackInv, [Next]_vars, pc = "deciding", pc' = "registeringRollback"
      PROVE  rollbackLog' # rollbackLog
  <2>1. \E out \in Outcomes : RollBack(out)
    BY <1>1
    DEF Next, Service, ServiceStep, Environment, OpenWorld, NoRoundDue, Aggregate,
        RoundCheckPoints, RegisterModel, SaveRound, SendRound, RefreshEvaluations,
        KeepModel, SaveRollback, SendRollback, Restart, ReceiveUpdate, IntervalElapses,
        Die, Evaluate, vars
  <2>2. PICK degraded \in DOMAIN registry, best \in DOMAIN registry :
           /\ CheckRollback(degraded, best)
           /\ rollbackLog' = rollbackLog \cup {<<degraded, best>>}
    BY <2>1 DEF RollBack
  <2>3. ASSUME <<degraded, best>> \in rollbackLog PROVE FALSE
    <3>1. Remembered(degraded, best)
      <4>1. Remembered(<<degraded, best>>[1], <<degraded, best>>[2])
        BY <1>1, <2>3 DEF RollbackInv
      <4>2. QED
        BY <4>1
    <3>2. \E v \in DOMAIN registry : registry[v].rolledBackFrom = best /\ v > degraded
      BY <1>1, <2>2, <3>1 DEF Remembered
    <3>3. QED
      BY <2>2, <3>2 DEF CheckRollback, AlreadyRolledBack
  <2>4. QED
    BY <2>2, <2>3
<1>2. TypeInv /\ RollbackInv /\ [Next]_vars
         => [pc = "deciding" /\ pc' = "registeringRollback" => rollbackLog' # rollbackLog]_vars
  BY <1>1
<1>3. QED
  BY <1>2, TypeInvariant, RollbackInvariant, PTL DEF Spec, RollbackIsNew

(* A decision is made about the model of a round: a rollback is followed   *)
(* by none before the next round, so the test of rolled_back_from on the   *)
(* model in memory never decides anything, and the one on the registry     *)
(* has to.                                                                 *)
DecidesOnRound ==
    pc \in {"registering", "saving", "sending", "refreshing", "deciding"} =>
        globalModel.rolledBackFrom = NoVersion

OneRollbackChoice ==
    \A degraded, best, other, target \in DOMAIN registry :
        CheckRollback(degraded, best) /\ CheckRollback(other, target)
            => degraded = other /\ best = target

LEMMA DecidesStep == DecidesOnRound /\ [Next]_vars => DecidesOnRound'
<1> SUFFICES ASSUME DecidesOnRound, [Next]_vars PROVE DecidesOnRound'
  OBVIOUS
<1> USE DEF DecidesOnRound, memoryVars, storeVars
<1>1. CASE ServiceStep
  <2>1. ASSUME NEW out \in Outcomes, Aggregate(out) PROVE DecidesOnRound'
    BY <2>1 DEF Aggregate
  <2>2. ASSUME NEW out \in Outcomes,
               RollBack(out) \/ SaveRound(out) \/ SendRound(out) \/ RefreshEvaluations(out)
        PROVE  DecidesOnRound'
    BY <2>2 DEF RollBack, SaveRound, SendRound, RefreshEvaluations
  <2>3. CASE NoRoundDue \/ RegisterModel \/ KeepModel
    BY <2>3 DEF NoRoundDue, RegisterModel, KeepModel
  <2>4. CASE \E out \in Outcomes : SaveRollback(out) \/ SendRollback(out)
    BY <2>4 DEF SaveRollback, SendRollback
  <2>5. QED
    BY <1>1, <2>1, <2>2, <2>3, <2>4 DEF ServiceStep
<1>2. CASE Restart \/ Environment
  BY <1>2 DEF Restart, Environment, OpenWorld, Die, ReceiveUpdate, IntervalElapses, Evaluate
<1>3. CASE UNCHANGED vars
  BY <1>3 DEF vars
<1>4. QED
  BY <1>1, <1>2, <1>3 DEF Next, Service

(* Whatever the registry holds, check_rollback has at most one version to  *)
(* call degraded and one to restore: ties in F1 go to the oldest version.  *)
THEOREM RollbackDetermined == Spec => [](DecidesOnRound /\ OneRollbackChoice)
<1>1. Init => DecidesOnRound
  BY DEF Init, DecidesOnRound
<1>2. TypeInv => OneRollbackChoice
  <2> SUFFICES ASSUME TypeInv,
                      NEW degraded \in DOMAIN registry, NEW best \in DOMAIN registry,
                      NEW other \in DOMAIN registry, NEW target \in DOMAIN registry,
                      CheckRollback(degraded, best), CheckRollback(other, target)
               PROVE  degraded = other /\ best = target
    BY DEF OneRollbackChoice
  <2>1. degraded \in Nat /\ other \in Nat /\ best \in Nat /\ target \in Nat
    BY BoundsAssumption DEF TypeInv, TypeOK, Versions
  <2>2. ASSUME NEW v \in Evaluated PROVE registry[v].f1 \in Nat
    <3>1. registry[v] \in Entry /\ registry[v].f1 # NoScore
      BY DEF TypeInv, TypeOK, Evaluated
    <3>2. registry[v].f1 \in F1Scores
      BY <3>1 DEF Entry
    <3>3. QED
      BY <3>2, PolicyAssumption
  <2>3. degraded \in Evaluated /\ other \in Evaluated /\ degraded <= other /\ other <= degraded
    BY DEF CheckRollback, IsLatestEvaluated
  <2>4. IsBest(best) /\ IsBest(target)
    BY DEF CheckRollback
  <2>5. /\ best \in Evaluated /\ target \in Evaluated
        /\ registry[best].f1 \in Nat /\ registry[target].f1 \in Nat
    BY <2>2, <2>4 DEF IsBest
  <2>6. \/ registry[target].f1 < registry[best].f1
        \/ registry[target].f1 = registry[best].f1 /\ best <= target
    BY <2>4, <2>5, Zenon DEF IsBest
  <2>7. \/ registry[best].f1 < registry[target].f1
        \/ registry[best].f1 = registry[target].f1 /\ target <= best
    BY <2>4, <2>5, Zenon DEF IsBest
  <2>8. best = target
    BY <2>1, <2>5, <2>6, <2>7
  <2>9. QED
    BY <2>1, <2>3, <2>8
<1>3. QED
  BY <1>1, <1>2, DecidesStep, TypeInvariant, PTL DEF Spec

-----------------------------------------------------------------------------
(* A rollback restores what Spark scored.                                  *)

RestoredInv ==
    /\ RolledBackModelWasScored
    /\ globalModel.rolledBackFrom # NoVersion => globalModel.rolledBackFrom \in Scored

(* A rollback takes its target from the versions the registry has a score  *)
(* of, and that score is of the target's own parameters.                   *)
LEMMA RollbackRestores ==
    ASSUME TypeInv, WindowInv, ReferenceInv, restarts = 0, ScoresBelongToModel,
           NEW out \in Outcomes, RollBack(out)
    PROVE  RestoredInv'
<1>1. PICK degraded \in DOMAIN registry, best \in DOMAIN registry :
         CheckRollback(degraded, best) /\ RollbackTo(best)
  BY DEF RollBack
<1>2. registry[best].f1 # NoScore
  BY <1>1 DEF CheckRollback, IsBest, Evaluated
<1>3. best \in Scored /\ evaluations[best].params = registry[best].params
  BY <1>2 DEF ReferenceInv, ScoresBelongToModel, Scored, TypeInv, TypeOK
<1>4. best <= globalModel.version /\ best \in Nat /\ globalModel.version \in Nat
  BY DEF RollBack, WindowInv, RegistryIsWindow, Registered, Window, Versions, TypeInv,
         TypeOK, Model
<1>5. /\ globalModel'.version = globalModel.version + 1
      /\ globalModel'.params = registry[best].params
      /\ globalModel'.rolledBackFrom = best
  BY <1>1 DEF RollbackTo
<1>6. evaluations' = evaluations
  BY DEF RollBack
<1>7. QED
  BY <1>3, <1>4, <1>5, <1>6 DEF RestoredInv, RolledBackModelWasScored, Scored

(* A later score of the same version is a score of the same parameters.    *)
LEMMA ScoringKeepsRestored ==
    ASSUME TypeInv, restarts = 0, RestoredInv, VersionNamesOneModel,
           NEW m \in served, NEW f1 \in F1Scores, Evaluate(m, f1)
    PROVE  RestoredInv'
<1> DEFINE target == globalModel.rolledBackFrom
<1>1. globalModel' = globalModel /\ f1 # NoScore
  BY PolicyAssumption DEF Evaluate, memoryVars, NoScore
<1>2. /\ evaluations' = [evaluations EXCEPT ![m.version] = [f1 |-> f1, params |-> m.params]]
      /\ evaluations \in [Versions -> Evaluation \cup {NoEvaluation}]
  BY DEF Evaluate, TypeInv, TypeOK
<1>3. CASE target = NoVersion
  BY <1>1, <1>3 DEF RestoredInv, RolledBackModelWasScored
<1>4. CASE target # NoVersion /\ target # m.version
  BY <1>1, <1>2, <1>4 DEF RestoredInv, RolledBackModelWasScored, Scored
<1>5. CASE target # NoVersion /\ target = m.version
  <2>1. target \in Versions /\ evaluations[target].params = globalModel.params
    BY <1>5 DEF RestoredInv, RolledBackModelWasScored, Scored
  <2>2. /\ [version |-> target, params |-> evaluations[target].params] \in Published
        /\ m \in Published
    BY <1>5 DEF RestoredInv, Published, ScoredModels
  <2>3. m.params = globalModel.params
    BY <1>5, <2>1, <2>2 DEF VersionNamesOneModel
  <2>4. evaluations'[target] = [f1 |-> f1, params |-> globalModel.params]
    BY <1>2, <1>5, <2>1, <2>3
  <2>5. evaluations'[target] # NoEvaluation
    BY <1>1, <2>4 DEF NoEvaluation
  <2>6. QED
    BY <1>1, <1>5, <2>1, <2>4, <2>5 DEF RestoredInv, RolledBackModelWasScored, Scored
<1>6. QED
  BY <1>3, <1>4, <1>5

LEMMA RestoredStep ==
    ASSUME TypeInv, WindowInv, ReferenceInv, restarts = 0, RestoredInv,
           VersionNamesOneModel, ScoresBelongToModel, [Next]_vars
    PROVE  RestoredInv'
<1>1. CASE globalModel'.rolledBackFrom = NoVersion
  BY <1>1 DEF RestoredInv, RolledBackModelWasScored
<1>2. CASE UNCHANGED <<globalModel, evaluations>>
  BY <1>2 DEF RestoredInv, RolledBackModelWasScored, Scored
<1>3. \/ globalModel'.rolledBackFrom = NoVersion
      \/ UNCHANGED <<globalModel, evaluations>>
      \/ \E out \in Outcomes : RollBack(out)
      \/ \E m \in served, f1 \in F1Scores : Evaluate(m, f1)
  <2>1. ASSUME NEW out \in Outcomes, Aggregate(out)
        PROVE  globalModel'.rolledBackFrom = NoVersion
    BY <2>1 DEF Aggregate
  <2>2. CASE Die
    BY <2>2 DEF Die, InitialModel
  <2>3. CASE Service
    BY <2>1, <2>3
    DEF Service, ServiceStep, NoRoundDue, RegisterModel, SaveRound, SendRound,
        RefreshEvaluations, KeepModel, SaveRollback, SendRollback, Restart, memoryVars,
        storeVars
  <2>4. CASE Environment
    BY <2>2, <2>4 DEF Environment, OpenWorld, ReceiveUpdate, IntervalElapses, storeVars
  <2>5. CASE UNCHANGED vars
    BY <2>5 DEF vars, memoryVars, storeVars
  <2>6. QED
    BY <2>3, <2>4, <2>5 DEF Next
<1>4. ASSUME NEW out \in Outcomes, RollBack(out) PROVE RestoredInv'
  BY <1>4, RollbackRestores
<1>5. ASSUME NEW m \in served, NEW f1 \in F1Scores, Evaluate(m, f1) PROVE RestoredInv'
  BY <1>5, ScoringKeepsRestored
<1>6. QED
  BY <1>1, <1>2, <1>3, <1>4, <1>5

(* Until the service first dies, a rollback in force has exactly the       *)
(* parameters Spark scored under the version it names.                     *)
THEOREM RollbackRestoresScored == Spec => []RolledBackModelWasScored
<1> DEFINE Inv == restarts = 0 => RestoredInv
<1>1. Init => Inv
  BY DEF Init, RestoredInv, RolledBackModelWasScored, InitialModel
<1>2. ASSUME TypeInv, WindowInv, NamingInv, ReferenceInv, Inv,
             ScoresBelongToModel, [Next]_vars
      PROVE  Inv'
  <2>1. CASE restarts' # 0
    BY <2>1
  <2>2. CASE restarts' = 0
    <3>1. restarts = 0
      BY <1>2, <2>2, FirstLife
    <3>2. QED
      BY <1>2, <3>1, RestoredStep DEF NamingInv
  <2>3. QED
    BY <2>1, <2>2
<1>3. Inv => RolledBackModelWasScored
  BY DEF RestoredInv, RolledBackModelWasScored
<1>4. QED
  BY <1>1, <1>2, <1>3, TypeInvariant, WindowInvariant, NamingInit, NamingStep,
     ReferenceInvariant, ScoresOfOwnModel, PTL DEF Spec

-----------------------------------------------------------------------------
(* The rows of federated_models.                                           *)

(* The newest version whose row was due.                                   *)
RowsDue ==
    IF pc \in {"registering", "saving", "registeringRollback", "savingRollback"}
    THEN globalModel.version - 1 ELSE globalModel.version

RowsInv == \A v \in 1 .. RowsDue : HasRow(v) \/ v \in unsaved

(* The statement for a version writes its row or is recorded as failed.    *)
LEMMA SavedOrRecorded ==
    ASSUME TypeInv, RowsInv, NEW out \in Outcomes, SaveRoundToDb(out),
           pc \in {"saving", "savingRollback"}, pc' \in {"sending", "sendingRollback"},
           UNCHANGED <<globalModel, restarts>>
    PROVE  RowsInv'
<1>1. globalModel.version \in Nat
  BY DEF TypeInv, TypeOK, Model
<1>2. RowsDue = globalModel.version - 1 /\ RowsDue' = globalModel.version
  BY DEF RowsDue
<1>3. rows \subseteq rows' /\ unsaved \subseteq unsaved'
  BY DEF SaveRoundToDb
<1>4. \/ RowOf(globalModel, dpRounds) \in rows'
      \/ globalModel.version \in unsaved'
  BY DEF SaveRoundToDb
<1>5. (HasRow(globalModel.version) \/ globalModel.version \in unsaved)'
  BY <1>4 DEF HasRow, RowOf
<1>6. ASSUME NEW v \in 1 .. globalModel.version, v # globalModel.version
      PROVE  (HasRow(v) \/ v \in unsaved)'
  <2>1. v \in 1 .. RowsDue
    BY <1>1, <1>2, <1>6
  <2>2. QED
    BY <1>3, <2>1 DEF RowsInv, HasRow
<1>7. QED
  BY <1>2, <1>5, <1>6 DEF RowsInv

LEMMA RowsStep ==
    ASSUME TypeInv, RowsInv, [Next]_vars
    PROVE  RowsInv'
<1>1. globalModel.version \in Nat
  BY DEF TypeInv, TypeOK, Model
<1>2. CASE UNCHANGED <<rows, unsaved, restarts>> /\ RowsDue' = RowsDue
  BY <1>2 DEF RowsInv, HasRow
<1>3. ASSUME NEW out \in Outcomes, Aggregate(out) PROVE RowsInv'
  BY <1>1, <1>2, <1>3 DEF Aggregate, RoundCheckPoints, RowsDue
<1>4. CASE RegisterModel
  BY <1>2, <1>4 DEF RegisterModel, RowsDue
<1>5. ASSUME NEW out \in Outcomes, SaveRound(out) \/ SaveRollback(out) PROVE RowsInv'
  BY <1>5, SavedOrRecorded DEF SaveRound, SaveRollback, SendRollback, memoryVars
<1>6. ASSUME NEW out \in Outcomes, RollBack(out) PROVE RowsInv'
  BY <1>1, <1>2, <1>6 DEF RollBack, RollbackTo, RowsDue
<1>7. CASE Die
  BY <1>7 DEF Die, RowsDue, RowsInv, InitialModel
<1>8. CASE UNCHANGED <<rows, unsaved, restarts, pc, globalModel>>
  BY <1>2, <1>8 DEF RowsDue
<1>9. ASSUME UNCHANGED <<rows, unsaved, restarts, globalModel>>,
             {pc, pc'} \cap {"registering", "saving", "registeringRollback",
                             "savingRollback"} = {}
      PROVE  RowsInv'
  BY <1>2, <1>9 DEF RowsDue
<1>10. CASE Service
  BY <1>3, <1>4, <1>5, <1>6, <1>9, <1>10
  DEF Service, ServiceStep, NoRoundDue, SendRound, RefreshEvaluations, KeepModel,
      SendRollback, Restart, memoryVars, storeVars
<1>11. CASE Environment
  BY <1>7, <1>8, <1>9, <1>11
  DEF Environment, OpenWorld, ReceiveUpdate, IntervalElapses, Evaluate, memoryVars,
      storeVars
<1>12. CASE UNCHANGED vars
  BY <1>8, <1>12 DEF vars, memoryVars, storeVars
<1>13. QED
  BY <1>10, <1>11, <1>12 DEF Next

(* Once its round is over every version of this life, a rollback too, has  *)
(* a row written by this life, or its own insert failed: no failed file,   *)
(* message or query costs a row, and no row of an earlier life stands in.  *)
THEOREM RowsOnlyMissByFailure == Spec => []RowsMissingByFailure
<1>1. Init => RowsInv
  BY DEF Init, RowsInv, RowsDue, InitialModel
<1>2. RowsInv => RowsMissingByFailure
  BY DEF RowsInv, RowsDue, RowsMissingByFailure
<1>3. QED
  BY <1>1, <1>2, RowsStep, TypeInvariant, PTL DEF Spec

-----------------------------------------------------------------------------
(* The service its readers see.                                            *)

(* A version is never the zero model: what a rollback copies is an         *)
(* aggregate.                                                              *)
AggregateInv ==
    /\ globalModel.version > 0 => globalModel.params > 0
    /\ \A v \in DOMAIN registry : registry[v].params > 0

LEMMA AggregateStep ==
    ASSUME TypeInv, AggregateInv, [Next]_vars
    PROVE  AggregateInv'
<1>1. /\ globalModel.version \in Nat /\ globalModel.params \in Nat /\ made \in Nat
      /\ \A v \in DOMAIN registry : registry[v].params \in Nat
  BY DEF TypeInv, TypeOK, Model, Entry
<1> USE <1>1 DEF AggregateInv
<1>2. CASE UNCHANGED <<globalModel, registry>>
  BY <1>2
<1>3. ASSUME NEW out \in Outcomes, Aggregate(out) PROVE AggregateInv'
  BY <1>3 DEF Aggregate
<1>4. CASE RegisterModel
  <2>1. globalModel.params > 0
    BY <1>4 DEF RegisterModel, TypeInv, VersionBound, InRound, InRollback
  <2>2. \A v \in DOMAIN registry' : registry'[v].params > 0
    BY <1>4, <2>1 DEF RegisterModel, Register, Newest, NewEntry
  <2>3. QED
    BY <1>4, <2>1, <2>2 DEF RegisterModel
<1>5. ASSUME NEW out \in Outcomes, RefreshEvaluations(out) PROVE AggregateInv'
  <2>1. DOMAIN registry' = DOMAIN registry
    BY <1>5 DEF RefreshEvaluations, RecordEvaluations
  <2>2. \A v \in DOMAIN registry : registry'[v].params = registry[v].params
    BY <1>5 DEF RefreshEvaluations, RecordEvaluations, TypeInv, TypeOK, Entry
  <2>3. QED
    BY <1>5, <2>1, <2>2 DEF RefreshEvaluations
<1>6. ASSUME NEW out \in Outcomes, RollBack(out) PROVE AggregateInv'
  BY <1>6 DEF RollBack, RollbackTo
<1>7. CASE Die
  BY <1>7 DEF Die, InitialModel, EmptyRegistry
<1>8. CASE Service
  BY <1>2, <1>3, <1>4, <1>5, <1>6, <1>8
  DEF Service, ServiceStep, NoRoundDue, SaveRound, SendRound, KeepModel, SaveRollback,
      SendRollback, Restart, memoryVars
<1>9. CASE Environment
  BY <1>2, <1>7, <1>9
  DEF Environment, OpenWorld, ReceiveUpdate, IntervalElapses, Evaluate, memoryVars
<1>10. CASE UNCHANGED vars
  BY <1>2, <1>10 DEF vars, memoryVars
<1>11. QED
  BY <1>8, <1>9, <1>10 DEF Next

(* A rollback's parameters are those of an aggregate made before.          *)
LEMMA TargetIsAggregate ==
    ASSUME TypeInv, AggregateInv, BudgetInv, NEW v \in DOMAIN registry
    PROVE  registry[v].params \in 1 .. made
<1>1. [version |-> v, params |-> registry[v].params] \in Published
  BY DEF Published, RegistryModels
<1>2. registry[v].params <= made
  BY <1>1 DEF BudgetInv
<1>3. registry[v].params \in Nat /\ made \in Nat
  BY DEF TypeInv, TypeOK, Entry
<1>4. QED
  BY <1>2, <1>3 DEF AggregateInv

LEMMA ServiceSimulation ==
    ASSUME TypeInv, AggregateInv, BudgetInv, [Next]_vars
    PROVE  [ForReaders!Next]_(ForReaders!vars)
<1> USE DEF ForReaders!Next, ForReaders!vars, CurrentModel
<1>1. CASE UNCHANGED <<globalModel, made, latest>> /\ (pc = "down" <=> pc' = "down")
  BY <1>1
<1>2. ASSUME NEW out \in Outcomes, Aggregate(out) PROVE ForReaders!Round
  BY <1>2
  DEF Aggregate, PublishModelFile, RoundCheckPoints, ForReaders!Round, ForReaders!Hand
<1>3. ASSUME NEW out \in Outcomes, RollBack(out) PROVE ForReaders!Rollback
  <2>1. PICK best \in DOMAIN registry : RollbackTo(best)
    BY <1>3 DEF RollBack
  <2>2. registry[best].params \in 1 .. made
    BY TargetIsAggregate
  <2>3. ForReaders!Hand(registry[best].params)
    BY <1>3, <2>1 DEF RollBack, RollbackTo, PublishModelFile, ForReaders!Hand
  <2>4. QED
    BY <1>3, <2>2, <2>3 DEF RollBack, ForReaders!Rollback
<1>4. CASE Die
  BY <1>4 DEF Die, storeVars, InitialModel, ZeroParams, ForReaders!Crash, ForReaders!NoModel
<1>5. CASE Restart
  BY <1>5
  DEF Restart, memoryVars, NoModelFile, ZeroParams, ForReaders!Recover, ForReaders!NoModel
<1>6. CASE Service
  BY <1>1, <1>2, <1>3, <1>5, <1>6
  DEF Service, ServiceStep, NoRoundDue, RegisterModel, SaveRound, SendRound,
      RefreshEvaluations, KeepModel, SaveRollback, SendRollback, memoryVars, storeVars
<1>7. CASE Environment
  BY <1>1, <1>4, <1>7
  DEF Environment, OpenWorld, ReceiveUpdate, IntervalElapses, Evaluate, memoryVars,
      storeVars
<1>8. CASE UNCHANGED vars
  BY <1>1, <1>8 DEF vars, memoryVars, storeVars
<1>9. QED
  BY <1>6, <1>7, <1>8 DEF Next

(* For any number of devices, versions, failures and restarts: to a reader *)
(* of the model file the aggregator is the simple service of ModelService. *)
THEOREM AggregatorImplementsService == Spec => ImplementsModelService
<1>1. Init => ForReaders!Init
  BY DEF Init, InitialModel, NoModelFile, ZeroParams, CurrentModel, ForReaders!Init,
         ForReaders!NoModel
<1>2. Init => BudgetInv /\ AggregateInv
  BY DEF Init, BudgetInv, BudgetCoversReleases, Published, RowModels, RegistryModels,
         Scored, ScoredModels, CurrentModel, EmptyRegistry, InitialModel, NoModelFile,
         ZeroParams, AggregateInv
<1>3. QED
  BY <1>1, <1>2, BudgetStep, AggregateStep, ServiceSimulation, TypeInvariant, PTL
  DEF Spec, ImplementsModelService, ForReaders!Spec

=============================================================================
