--------------------------- MODULE AnalyticsProofs ---------------------------
(***************************************************************************)
(* Theorems about what watches the learning, for any number of windows,    *)
(* models, submissions and faults.                                         *)
(***************************************************************************)
EXTENDS Analytics, TLAPS

(* Values every action keeps to, and the order of the counters.            *)
Typed ==
    /\ published \in Models /\ made \in 0 .. MaxModels /\ published.version <= made
    /\ driver \in {"off", "batch", "watching", "scoring"}
    /\ query \in {"none", "active", "failed"}
    /\ model \in Models /\ evaluated \in Models
    /\ closed \in 0 .. MaxWindows
    /\ planned \in 0 .. closed /\ acked \in 0 .. planned
    /\ windowRows \in [Windows -> Nat]
    /\ scores \in [Serials -> [Jobs -> Nat]]
    /\ submissions \in 0 .. MaxSubmissions
    /\ lost \subseteq Windows /\ replayed \subseteq Windows

(* What the driver has evaluated was made before what it has read, and     *)
(* that before what is published, whatever their versions; the published   *)
(* model is the newest, and no other has its serial number.  A query runs  *)
(* only in a driver.                                                       *)
JobInv ==
    /\ driver = "off" => query = "none" /\ model = NoModel /\ evaluated = NoModel /\ ~written
    /\ driver # "off" => submissions > 0
    /\ published # NoModel => published.serial = made
    /\ evaluated.serial <= model.serial /\ model.serial <= made
    /\ \A m \in {model, evaluated} :
          m.serial = made /\ published # NoModel => m = published
    /\ driver = "scoring" => evaluated.serial < model.serial

LEMMA BoundsAreNat ==
    MaxWindows \in Nat /\ MaxModels \in Nat /\ MaxSubmissions \in Nat /\ MaxFaults \in Nat
  BY AnalyticsAssumption

LEMMA ModelFacts ==
    /\ NoModel \in Models /\ NoModel.version = 0 /\ NoModel.serial = 0
    /\ \A m \in Models : m.version \in Nat /\ m.serial \in Nat
    /\ \A m \in Models : m.serial = 0 <=> m = NoModel
    /\ \A m \in Models : m.serial # 0 => m.serial \in Serials
    /\ \A v \in Serials, n \in Serials : [version |-> v, serial |-> n] \in Models
  BY BoundsAreNat DEF Models, NoModel, Serials

LEMMA OneMore ==
    ASSUME NEW S, NEW f \in [S -> Nat], NEW k
    PROVE  [f EXCEPT ![k] = @ + 1] \in [S -> Nat]
<1>1. CASE k \in S
  BY <1>1
<1>2. CASE k \notin S
  <2>1. [f EXCEPT ![k] = @ + 1] = [x \in S |-> f[x]]
    BY <1>2
  <2>2. QED
    BY <2>1
<1>3. QED
  BY <1>1, <1>2

LEMMA TypedInit == Init => Typed
  BY BoundsAreNat, ModelFacts DEF Init, Typed, Windows, Serials, Jobs

LEMMA TypedStep == Typed /\ [Next]_vars => Typed'
<1> SUFFICES ASSUME Typed, [Next]_vars PROVE Typed'
  OBVIOUS
<1> USE BoundsAreNat, ModelFacts
    DEF Typed, Windows, aggregatorVars, sparkVars, streamVars, rowVars, historyVars
<1>1. CASE Submit
  BY <1>1 DEF Submit, Fault
<1>2. CASE AnalyseBatch
  BY <1>2 DEF AnalyseBatch, Fault
<1>3. CASE LoadModel
  BY <1>3 DEF LoadModel
<1>4. CASE StoreScore
  <2> DEFINE p == model.serial
             more == [scores[p] EXCEPT ![submissions] = @ + 1]
  <2>1. scores' = [scores EXCEPT ![p] = more]
    BY <1>4 DEF StoreScore
  <2>2. p \in Serials => more \in [Jobs -> Nat]
    BY OneMore
  <2> HIDE DEF p, more
  <2>3. scores' \in [Serials -> [Jobs -> Nat]]
    BY <2>1, <2>2
  <2>4. UNCHANGED <<published, made, query, model, closed, planned, acked, windowRows,
                    submissions, lost, replayed>>
        /\ driver' = "watching" /\ evaluated' = model
    BY <1>4 DEF StoreScore, Scores, Scored
  <2>5. QED
    BY <2>3, <2>4
<1>5. CASE ScoreRefused
  BY <1>5 DEF ScoreRefused, Scores, Scored, Fault
<1>6. CASE SkipScore
  BY <1>6 DEF SkipScore, Scores, Scored
<1>7. CASE JobEnds
  <2>1. replayed' \subseteq Windows
    BY <1>7 DEF JobEnds, DriverEnds, Batch
  <2>2. QED
    BY <1>7, <2>1 DEF JobEnds, DriverEnds, Fault
<1>8. CASE DriverDies
  <2>1. replayed' \subseteq Windows
    BY <1>8 DEF DriverDies, DriverEnds, Batch
  <2>2. QED
    BY <1>8, <2>1 DEF DriverDies, DriverEnds, Fault
<1>9. CASE PlanBatch
  BY <1>9 DEF PlanBatch
<1>10. CASE StoreBatch
  <2>1. windowRows' = [w \in Windows |-> windowRows[w] + (IF w \in Batch THEN 1 ELSE 0)]
    BY <1>10 DEF StoreBatch
  <2> HIDE DEF Windows
  <2>2. windowRows' \in [Windows -> Nat]
    BY <2>1
  <2>3. UNCHANGED <<published, made, driver, query, model, evaluated, closed, planned, acked,
                    scores, submissions, lost, replayed>>
    BY <1>10 DEF StoreBatch, WritesBatch
  <2>4. QED
    BY <2>2, <2>3
<1>11. CASE LoseBatch
  <2>1. lost' \subseteq Windows
    BY <1>11 DEF LoseBatch, Batch
  <2>2. QED
    BY <1>11, <2>1 DEF LoseBatch, WritesBatch
<1>12. CASE AckBatch
  BY <1>12 DEF AckBatch
<1>13. CASE QueryFails
  BY <1>13 DEF QueryFails, Fault
<1>14. CASE UpdaterConnects
  BY <1>14 DEF UpdaterConnects, UpdaterUnchanged
<1>15. CASE Snapshot
  BY <1>15 DEF Snapshot, UpdaterUnchanged, Fault
<1>16. CASE UpdaterFails
  BY <1>16 DEF UpdaterFails, UpdaterUnchanged
<1>17. CASE Overview
  BY <1>17 DEF Overview, Fault
<1>18. CASE DatabaseGoesDown
  BY <1>18 DEF DatabaseGoesDown, Fault
<1>19. CASE DatabaseComesBack
  BY <1>19 DEF DatabaseComesBack
<1>20. CASE Publish
  <2>1. /\ made' \in Serials /\ published.version + 1 \in Serials
        /\ published' = [version |-> published.version + 1, serial |-> made']
    BY <1>20 DEF Publish, Serials
  <2>2. published' \in Models /\ published'.version <= made'
    BY <1>20, <2>1 DEF Publish
  <2>3. QED
    BY <1>20, <2>2 DEF Publish
<1>21. CASE CloseWindow
  BY <1>21 DEF CloseWindow
<1>22. CASE AggregatorRestarts
  BY <1>22 DEF AggregatorRestarts, Fault
<1>23. ASSUME NEW stage \in Stages, GoesStale(stage) PROVE Typed'
  BY <1>23 DEF GoesStale
<1>24. ASSUME NEW stage \in FreshnessChecks, IsForgotten(stage) PROVE Typed'
  BY <1>24 DEF IsForgotten
<1>25. CASE UNCHANGED vars
  BY <1>25 DEF vars
<1>26. QED
  BY <1>1, <1>2, <1>3, <1>4, <1>5, <1>6, <1>7, <1>8, <1>9, <1>10, <1>11, <1>12,
     <1>13, <1>14, <1>15, <1>16, <1>17, <1>18, <1>19, <1>20, <1>21, <1>22, <1>23, <1>24, <1>25
  DEF Next, MainStep, StreamStep, ScoreModel, Environment

LEMMA JobInit == Init => JobInv
  BY ModelFacts DEF Init, JobInv

LEMMA JobStep == Typed /\ JobInv /\ [Next]_vars => JobInv'
<1> SUFFICES ASSUME Typed, JobInv, [Next]_vars PROVE JobInv'
  OBVIOUS
<1> USE BoundsAreNat, ModelFacts
    DEF Typed, JobInv, aggregatorVars, sparkVars, streamVars, rowVars, historyVars
<1>1. CASE Submit
  BY <1>1 DEF Submit
<1>2. CASE AnalyseBatch
  BY <1>2 DEF AnalyseBatch
<1>3. CASE LoadModel
  <2>1. /\ published # NoModel /\ published.version # evaluated.version
        /\ model' = published /\ driver' = "scoring"
        /\ UNCHANGED <<published, made, query, evaluated, written, submissions>>
    BY <1>3 DEF LoadModel
  <2>2. /\ published.serial = made /\ evaluated.serial \in Nat /\ made \in Nat
        /\ evaluated.serial <= made
    BY <2>1
  <2>3. evaluated.serial # made
    BY <2>1
  <2>4. evaluated.serial < made
    <3>1. \A a \in Nat, b \in Nat : a <= b /\ a # b => a < b
      OBVIOUS
    <3>2. QED
      BY <2>2, <2>3, <3>1, Zenon
  <2>5. driver # "off"
    BY <1>3 DEF LoadModel
  <2>6. QED
    BY <2>1, <2>2, <2>4, <2>5
<1>4. CASE StoreScore
  BY <1>4 DEF StoreScore, Scores, Scored
<1>5. CASE ScoreRefused
  BY <1>5 DEF ScoreRefused, Scores, Scored
<1>6. CASE SkipScore
  BY <1>6 DEF SkipScore, Scores, Scored
<1>7. CASE JobEnds
  BY <1>7 DEF JobEnds, DriverEnds
<1>8. CASE DriverDies
  BY <1>8 DEF DriverDies, DriverEnds
<1>9. CASE PlanBatch
  BY <1>9 DEF PlanBatch
<1>10. CASE StoreBatch
  BY <1>10 DEF StoreBatch, WritesBatch
<1>11. CASE LoseBatch
  BY <1>11 DEF LoseBatch, WritesBatch
<1>12. CASE AckBatch
  BY <1>12 DEF AckBatch, Done
<1>13. CASE QueryFails
  BY <1>13 DEF QueryFails
<1>14. CASE UpdaterConnects
  BY <1>14 DEF UpdaterConnects, UpdaterUnchanged
<1>15. CASE Snapshot
  BY <1>15 DEF Snapshot, UpdaterUnchanged
<1>16. CASE UpdaterFails
  BY <1>16 DEF UpdaterFails, UpdaterUnchanged
<1>17. CASE Overview
  BY <1>17 DEF Overview
<1>18. CASE DatabaseGoesDown
  BY <1>18 DEF DatabaseGoesDown
<1>19. CASE DatabaseComesBack
  BY <1>19 DEF DatabaseComesBack
<1>20. CASE Publish
  BY <1>20 DEF Publish
<1>21. CASE CloseWindow
  BY <1>21 DEF CloseWindow
<1>22. CASE AggregatorRestarts
  BY <1>22 DEF AggregatorRestarts, Fault
<1>23. ASSUME NEW stage \in Stages, GoesStale(stage) PROVE JobInv'
  BY <1>23 DEF GoesStale
<1>24. ASSUME NEW stage \in FreshnessChecks, IsForgotten(stage) PROVE JobInv'
  BY <1>24 DEF IsForgotten
<1>25. CASE UNCHANGED vars
  BY <1>25 DEF vars
<1>26. QED
  BY <1>1, <1>2, <1>3, <1>4, <1>5, <1>6, <1>7, <1>8, <1>9, <1>10, <1>11, <1>12,
     <1>13, <1>14, <1>15, <1>16, <1>17, <1>18, <1>19, <1>20, <1>21, <1>22, <1>23, <1>24, <1>25
  DEF Next, MainStep, StreamStep, ScoreModel, Environment

(* A job scores only models made after the one it evaluated last, and      *)
(* nothing is stored for a job before it is submitted.                     *)
ScoreInv ==
    \A m \in Serials, j \in Jobs :
        /\ scores[m][j] <= 1
        /\ j > submissions => scores[m][j] = 0
        /\ driver # "off" /\ j = submissions /\ m > evaluated.serial => scores[m][j] = 0

LEMMA ScoreInit == Init => ScoreInv
  BY DEF Init, ScoreInv, Serials, Jobs

LEMMA ScoreStep == Typed /\ JobInv /\ ScoreInv /\ [Next]_vars => ScoreInv'
<1> SUFFICES ASSUME Typed, JobInv, ScoreInv, [Next]_vars PROVE ScoreInv'
  OBVIOUS
<1> USE BoundsAreNat, ModelFacts
    DEF Typed, JobInv, ScoreInv, Serials, Jobs, aggregatorVars, sparkVars, streamVars,
        rowVars, historyVars
<1>1. CASE Submit
  BY <1>1 DEF Submit
<1>2. CASE AnalyseBatch
  BY <1>2 DEF AnalyseBatch
<1>3. CASE LoadModel
  BY <1>3 DEF LoadModel
<1>4. CASE StoreScore
  <2> DEFINE p == model.serial
  <2>1. /\ p \in Serials /\ evaluated.serial \in Nat /\ evaluated.serial < p
        /\ evaluated' = model /\ driver # "off" /\ UNCHANGED submissions
    BY <1>4 DEF StoreScore, Scores, Scored
  <2>2. scores' = [scores EXCEPT ![p] = [scores[p] EXCEPT ![submissions] = @ + 1]]
    BY <1>4 DEF StoreScore
  <2>3. \A m \in Serials, j \in Jobs :
           scores'[m][j] = IF m = p /\ j = submissions THEN scores[m][j] + 1 ELSE scores[m][j]
    BY <2>2
  <2>4. submissions \in Jobs => scores[p][submissions] = 0
    BY <2>1
  <2>5. \A m \in Serials, j \in Jobs : scores[m][j] \in Nat
    OBVIOUS
  <2>6. ASSUME NEW m \in Serials, NEW j \in Jobs
        PROVE  /\ scores'[m][j] <= 1
               /\ j > submissions => scores'[m][j] = 0
               /\ j = submissions /\ m > p => scores'[m][j] = 0
    <3>1. CASE m = p /\ j = submissions
      <4>1. scores'[m][j] = 1
        BY <2>3, <2>4, <3>1
      <4>2. QED
        BY <2>1, <3>1, <4>1
    <3>2. CASE ~(m = p /\ j = submissions)
      <4>1. scores'[m][j] = scores[m][j]
        BY <2>3, <3>2
      <4>2. QED
        BY <2>1, <4>1
    <3>3. QED
      BY <3>1, <3>2
  <2>7. QED
    BY <2>1, <2>6
<1>5. CASE ScoreRefused \/ SkipScore
  <2>1. /\ evaluated' = model /\ UNCHANGED <<scores, submissions>>
        /\ driver = "scoring" /\ evaluated.serial < model.serial
    BY <1>5 DEF ScoreRefused, SkipScore, Scores, Scored
  <2>2. model.serial \in Nat /\ evaluated.serial \in Nat
    OBVIOUS
  <2>3. \A m \in Serials : m > model.serial => m > evaluated.serial
    BY <2>1, <2>2
  <2>4. QED
    BY <2>1, <2>3
<1>7. CASE JobEnds
  BY <1>7 DEF JobEnds, DriverEnds
<1>8. CASE DriverDies
  BY <1>8 DEF DriverDies, DriverEnds
<1>9. CASE PlanBatch
  BY <1>9 DEF PlanBatch
<1>10. CASE StoreBatch
  BY <1>10 DEF StoreBatch, WritesBatch
<1>11. CASE LoseBatch
  BY <1>11 DEF LoseBatch, WritesBatch
<1>12. CASE AckBatch
  BY <1>12 DEF AckBatch, Done
<1>13. CASE QueryFails
  BY <1>13 DEF QueryFails
<1>14. CASE UpdaterConnects
  BY <1>14 DEF UpdaterConnects, UpdaterUnchanged
<1>15. CASE Snapshot
  BY <1>15 DEF Snapshot, UpdaterUnchanged
<1>16. CASE UpdaterFails
  BY <1>16 DEF UpdaterFails, UpdaterUnchanged
<1>17. CASE Overview
  BY <1>17 DEF Overview
<1>18. CASE DatabaseGoesDown
  BY <1>18 DEF DatabaseGoesDown
<1>19. CASE DatabaseComesBack
  BY <1>19 DEF DatabaseComesBack
<1>20. CASE Publish
  BY <1>20 DEF Publish
<1>21. CASE CloseWindow
  BY <1>21 DEF CloseWindow
<1>22. CASE AggregatorRestarts
  BY <1>22 DEF AggregatorRestarts, Fault
<1>23. ASSUME NEW stage \in Stages, GoesStale(stage) PROVE ScoreInv'
  BY <1>23 DEF GoesStale
<1>24. ASSUME NEW stage \in FreshnessChecks, IsForgotten(stage) PROVE ScoreInv'
  BY <1>24 DEF IsForgotten
<1>25. CASE UNCHANGED vars
  BY <1>25 DEF vars
<1>26. QED
  BY <1>1, <1>2, <1>3, <1>4, <1>5, <1>7, <1>8, <1>9, <1>10, <1>11, <1>12,
     <1>13, <1>14, <1>15, <1>16, <1>17, <1>18, <1>19, <1>20, <1>21, <1>22, <1>23, <1>24, <1>25
  DEF Next, MainStep, StreamStep, ScoreModel, Environment

(* A window beyond the checkpoint has no rows, one in a batch that is not  *)
(* written has rows only of a driver that died, and one that is written    *)
(* has its row.                                                            *)
WindowInv ==
    /\ written => acked < planned
    /\ \A w \in Windows :
        /\ w > planned => windowRows[w] = 0
        /\ w \in Batch /\ ~written /\ windowRows[w] > 0 => w \in replayed
        /\ w <= acked \/ (w \in Batch /\ written) =>
              /\ windowRows[w] = 0 => w \in lost
              /\ windowRows[w] > 1 => w \in replayed

LEMMA WindowInit == Init => WindowInv
  BY DEF Init, WindowInv, Windows, Batch

LEMMA WindowStep == Typed /\ JobInv /\ WindowInv /\ [Next]_vars => WindowInv'
<1> SUFFICES ASSUME Typed, JobInv, WindowInv, [Next]_vars PROVE WindowInv'
  OBVIOUS
<1> USE BoundsAreNat
    DEF Typed, JobInv, WindowInv, Windows, Batch,
        aggregatorVars, sparkVars, streamVars, rowVars, historyVars
<1>1. CASE Submit
  BY <1>1 DEF Submit
<1>2. CASE AnalyseBatch
  BY <1>2 DEF AnalyseBatch
<1>3. CASE LoadModel
  BY <1>3 DEF LoadModel
<1>4. CASE StoreScore
  BY <1>4 DEF StoreScore, Scores, Scored
<1>5. CASE ScoreRefused
  BY <1>5 DEF ScoreRefused, Scores, Scored
<1>6. CASE SkipScore
  BY <1>6 DEF SkipScore, Scores, Scored
<1>7. CASE JobEnds
  BY <1>7 DEF JobEnds, DriverEnds
<1>8. CASE DriverDies
  BY <1>8 DEF DriverDies, DriverEnds
<1>9. CASE PlanBatch
  BY <1>9 DEF PlanBatch
<1>10. CASE StoreBatch
  BY <1>10 DEF StoreBatch, WritesBatch
<1>11. CASE LoseBatch
  BY <1>11 DEF LoseBatch, WritesBatch
<1>12. CASE AckBatch
  BY <1>12 DEF AckBatch, Done
<1>13. CASE QueryFails
  BY <1>13 DEF QueryFails
<1>14. CASE UpdaterConnects
  BY <1>14 DEF UpdaterConnects, UpdaterUnchanged
<1>15. CASE Snapshot
  BY <1>15 DEF Snapshot, UpdaterUnchanged
<1>16. CASE UpdaterFails
  BY <1>16 DEF UpdaterFails, UpdaterUnchanged
<1>17. CASE Overview
  BY <1>17 DEF Overview
<1>18. CASE DatabaseGoesDown
  BY <1>18 DEF DatabaseGoesDown
<1>19. CASE DatabaseComesBack
  BY <1>19 DEF DatabaseComesBack
<1>20. CASE Publish
  BY <1>20 DEF Publish
<1>21. CASE CloseWindow
  BY <1>21 DEF CloseWindow
<1>22. CASE AggregatorRestarts
  BY <1>22 DEF AggregatorRestarts, Fault
<1>23. ASSUME NEW stage \in Stages, GoesStale(stage) PROVE WindowInv'
  BY <1>23 DEF GoesStale
<1>24. ASSUME NEW stage \in FreshnessChecks, IsForgotten(stage) PROVE WindowInv'
  BY <1>24 DEF IsForgotten
<1>25. CASE UNCHANGED vars
  BY <1>25 DEF vars
<1>26. QED
  BY <1>1, <1>2, <1>3, <1>4, <1>5, <1>6, <1>7, <1>8, <1>9, <1>10, <1>11, <1>12,
     <1>13, <1>14, <1>15, <1>16, <1>17, <1>18, <1>19, <1>20, <1>21, <1>22, <1>23, <1>24, <1>25
  DEF Next, MainStep, StreamStep, ScoreModel, Environment

JobTyped == Typed /\ JobInv

LEMMA JobAlways == Spec => []JobTyped
<1>1. Init => JobTyped
  BY TypedInit, JobInit DEF JobTyped
<1>2. JobTyped /\ [Next]_vars => JobTyped'
  BY TypedStep, JobStep DEF JobTyped
<1>3. QED
  BY <1>1, <1>2, PTL DEF Spec

(* Every window the checkpoint is past has one row, unless its insert      *)
(* failed or the driver died between the insert and the commit.            *)
THEOREM StoredOnce == Spec => []WindowsStoredOnce
<1>1. Typed /\ WindowInv => WindowsStoredOnce
  BY BoundsAreNat DEF Typed, WindowInv, WindowsStoredOnce, Windows
<1>2. JobTyped /\ WindowInv /\ [Next]_vars => WindowInv'
  BY WindowStep DEF JobTyped
<1>3. JobTyped => Typed
  BY DEF JobTyped
<1>4. QED
  BY <1>1, <1>2, <1>3, WindowInit, JobAlways, PTL DEF Spec

(* A model is scored at most once by each job, although the loop looks at  *)
(* a file that changes while it scores, and compares versions that come    *)
(* again when the aggregator is restarted.                                 *)
THEOREM ScoredOncePerJob == Spec => []ModelsScoredOncePerJob
<1>1. ScoreInv => ModelsScoredOncePerJob
  BY DEF ScoreInv, ModelsScoredOncePerJob
<1>2. JobTyped /\ ScoreInv /\ [Next]_vars => ScoreInv'
  BY ScoreStep DEF JobTyped
<1>3. QED
  BY <1>1, <1>2, ScoreInit, JobAlways, PTL DEF Spec

-----------------------------------------------------------------------------
(* Types.  A submission stores a window at most once: its driver ends      *)
(* before the batch is written again.                                      *)

RowInv ==
    \A w \in Windows :
        /\ windowRows[w] <= submissions
        /\ driver # "off" /\ w > acked /\ ~(w <= planned /\ written) => windowRows[w] < submissions

LEMMA RowStep == Typed /\ JobInv /\ WindowInv /\ RowInv /\ [Next]_vars => RowInv'
<1> SUFFICES ASSUME Typed, JobInv, WindowInv, RowInv, [Next]_vars PROVE RowInv'
  OBVIOUS
<1> USE BoundsAreNat
    DEF Typed, RowInv, Windows, Batch, aggregatorVars, sparkVars, streamVars, rowVars,
        historyVars
<1>1. CASE Submit
  BY <1>1 DEF Submit, JobInv
<1>2. CASE AnalyseBatch \/ LoadModel
  BY <1>2 DEF AnalyseBatch, LoadModel
<1>3. CASE StoreScore \/ ScoreRefused \/ SkipScore
  BY <1>3 DEF StoreScore, ScoreRefused, SkipScore, Scores
<1>4. CASE JobEnds \/ DriverDies
  BY <1>4 DEF JobEnds, DriverDies, DriverEnds
<1>5. CASE PlanBatch
  BY <1>5 DEF PlanBatch, WindowInv
<1>6. CASE StoreBatch
  <2>1. windowRows' = [w \in Windows |-> windowRows[w] + (IF w \in Batch THEN 1 ELSE 0)]
    BY <1>6 DEF StoreBatch
  <2>2. query = "active" /\ ~written /\ written' /\ UNCHANGED <<driver, acked, planned, submissions>>
    BY <1>6 DEF StoreBatch, WritesBatch
  <2>3. driver # "off"
    BY <2>2 DEF JobInv
  <2>4. ASSUME NEW w \in Windows
        PROVE  /\ windowRows'[w] <= submissions'
               /\ driver' # "off" /\ w > acked' /\ ~(w <= planned' /\ written')
                    => windowRows'[w] < submissions'
    <3>1. /\ windowRows[w] \in Nat /\ submissions \in Nat
          /\ acked \in Nat /\ planned \in Nat /\ w \in Nat
      OBVIOUS
    <3>2. CASE w \in acked + 1 .. planned
      <4>1. windowRows'[w] = windowRows[w] + 1 /\ w <= planned' /\ windowRows[w] < submissions
        BY <2>1, <2>2, <2>3, <3>1, <3>2
      <4>2. QED
        BY <2>2, <3>1, <4>1
    <3>3. CASE w \notin acked + 1 .. planned
      <4>1. windowRows'[w] = windowRows[w]
        BY <2>1, <3>1, <3>3
      <4>2. QED
        BY <2>2, <2>3, <3>1, <3>3, <4>1
    <3>4. QED
      BY <3>2, <3>3
  <2>5. QED
    BY <2>4
<1>7. CASE LoseBatch
  BY <1>7 DEF LoseBatch, WritesBatch
<1>8. CASE AckBatch
  BY <1>8 DEF AckBatch, Done
<1>9. CASE QueryFails
  BY <1>9 DEF QueryFails
<1>10. CASE UpdaterConnects \/ Snapshot \/ UpdaterFails
  BY <1>10 DEF UpdaterConnects, Snapshot, UpdaterFails, UpdaterUnchanged
<1>11. CASE Overview \/ DatabaseGoesDown \/ DatabaseComesBack
  BY <1>11 DEF Overview, DatabaseGoesDown, DatabaseComesBack
<1>12. CASE Publish \/ AggregatorRestarts \/ CloseWindow
  BY <1>12 DEF Publish, AggregatorRestarts, CloseWindow
<1>13. CASE \E stage \in Stages : GoesStale(stage)
  BY <1>13 DEF GoesStale
<1>14. CASE \E stage \in FreshnessChecks : IsForgotten(stage)
  BY <1>14 DEF IsForgotten
<1>15. CASE UNCHANGED vars
  BY <1>15 DEF vars
<1>16. QED
  BY <1>1, <1>2, <1>3, <1>4, <1>5, <1>6, <1>7, <1>8, <1>9, <1>10, <1>11, <1>12, <1>13, <1>14, <1>15
  DEF Next, MainStep, StreamStep, ScoreModel, Environment

Flags == dbUp \in BOOLEAN /\ evalData \in BOOLEAN /\ written \in BOOLEAN

LEMMA FlagsStep == Flags /\ [Next]_vars => Flags'
<1> SUFFICES ASSUME Flags, [Next]_vars PROVE Flags'
  OBVIOUS
<1> USE DEF Flags, aggregatorVars, sparkVars, streamVars
<1>1. CASE Submit
  BY <1>1 DEF Submit
<1>2. CASE AnalyseBatch
  <2>1. dbUp' = dbUp /\ written' = written /\ (evalData' = TRUE \/ evalData' = FALSE)
    BY <1>2 DEF AnalyseBatch
  <2>2. QED
    BY <2>1, Zenon
<1>3. CASE LoadModel \/ ScoreModel
  BY <1>3 DEF LoadModel, ScoreModel, StoreScore, ScoreRefused, SkipScore, Scores
<1>4. CASE JobEnds \/ DriverDies
  <2>1. dbUp' = dbUp /\ written' = FALSE /\ evalData' = FALSE
    BY <1>4 DEF JobEnds, DriverDies, DriverEnds
  <2>2. QED
    BY <2>1, Zenon
<1>5. CASE PlanBatch
  BY <1>5 DEF PlanBatch
<1>6. CASE StoreBatch \/ LoseBatch
  <2>1. dbUp' = dbUp /\ written' = TRUE /\ evalData' = evalData
    BY <1>6 DEF StoreBatch, LoseBatch, WritesBatch
  <2>2. QED
    BY <2>1, Zenon
<1>7. CASE AckBatch
  <2>1. dbUp' = dbUp /\ written' = FALSE /\ evalData' = evalData
    BY <1>7 DEF AckBatch
  <2>2. QED
    BY <2>1, Zenon
<1>8. CASE QueryFails
  BY <1>8 DEF QueryFails
<1>9. CASE UpdaterConnects \/ Snapshot \/ UpdaterFails
  BY <1>9 DEF UpdaterConnects, Snapshot, UpdaterFails, UpdaterUnchanged
<1>10. CASE Overview
  BY <1>10 DEF Overview
<1>11. CASE DatabaseGoesDown \/ DatabaseComesBack
  <2>1. dbUp' \in {TRUE, FALSE} /\ UNCHANGED <<written, evalData>>
    BY <1>11, Zenon DEF DatabaseGoesDown, DatabaseComesBack
  <2>2. QED
    BY <2>1, Zenon
<1>12. CASE Publish \/ AggregatorRestarts \/ CloseWindow
  BY <1>12 DEF Publish, AggregatorRestarts, CloseWindow
<1>13. CASE \E stage \in Stages : GoesStale(stage)
  BY <1>13 DEF GoesStale
<1>14. CASE \E stage \in FreshnessChecks : IsForgotten(stage)
  BY <1>14 DEF IsForgotten
<1>15. CASE UNCHANGED vars
  BY <1>15 DEF vars
<1>16. QED
  BY <1>1, <1>2, <1>3, <1>4, <1>5, <1>6, <1>7, <1>8, <1>9, <1>10, <1>11, <1>12, <1>13, <1>14, <1>15
  DEF Next, MainStep, StreamStep, Environment

RestTyped ==
    /\ conn \in Connections /\ streamConn \in Connections /\ updaterConn \in Connections
    /\ age \in [Stages -> Ages]
    /\ reported \subseteq FreshnessChecks \cup {"database"}
    /\ unscored \subseteq Serials
    /\ faults \in 0 .. MaxFaults

LEMMA RestStep == Typed /\ JobInv /\ RestTyped /\ [Next]_vars => RestTyped'
<1> SUFFICES ASSUME Typed, JobInv, RestTyped, [Next]_vars PROVE RestTyped'
  OBVIOUS
<1>0. /\ MaxFaults \in Nat
      /\ Fault => faults' \in 0 .. MaxFaults
      /\ \A stage \in Stages : Freshened(stage) \in [Stages -> Ages]
      /\ Opened \in Connections
      /\ \A c \in Connections : Lost(c) \in Connections
  BY BoundsAreNat DEF RestTyped, Fault, Freshened, Ages, Opened, Lost, Connections
<1> USE <1>0 DEF RestTyped, aggregatorVars, sparkVars, streamVars, rowVars, historyVars
<1>1. CASE Submit
  BY <1>1 DEF Submit, Connections
<1>2. CASE AnalyseBatch \/ LoadModel
  BY <1>2 DEF AnalyseBatch, LoadModel
<1>3. CASE StoreScore \/ SkipScore
  BY <1>3 DEF StoreScore, SkipScore, Scores
<1>4. CASE ScoreRefused
  <2>1. model.serial \in Serials
    BY <1>4, BoundsAreNat, ModelFacts DEF ScoreRefused, Scores, JobInv, Typed
  <2>2. QED
    BY <1>4, <2>1 DEF ScoreRefused, Scores
<1>5. CASE JobEnds \/ DriverDies
  BY <1>5 DEF JobEnds, DriverDies, DriverEnds, Connections
<1>6. CASE PlanBatch \/ AckBatch
  BY <1>6 DEF PlanBatch, AckBatch
<1>7. CASE StoreBatch
  BY <1>7 DEF StoreBatch, WritesBatch, Stages, FreshnessChecks, Connections
<1>8. CASE LoseBatch
  BY <1>8 DEF LoseBatch, WritesBatch
<1>9. CASE QueryFails
  BY <1>9 DEF QueryFails
<1>10. CASE UpdaterConnects \/ UpdaterFails
  BY <1>10 DEF UpdaterConnects, UpdaterFails, UpdaterUnchanged, AfterLoss, Connections
<1>11. CASE Snapshot
  BY <1>11 DEF Snapshot, UpdaterUnchanged, Stages
<1>12. CASE Overview
  <2>1. reported' \subseteq FreshnessChecks \cup {"database"} /\ faults' \in 0 .. MaxFaults
    BY <1>12 DEF Overview
  <2>2. QED
    BY <1>12, <2>1 DEF Overview
<1>13. CASE DatabaseGoesDown \/ DatabaseComesBack
  BY <1>13 DEF DatabaseGoesDown, DatabaseComesBack
<1>14. CASE Publish \/ AggregatorRestarts \/ CloseWindow
  BY <1>14 DEF Publish, AggregatorRestarts, CloseWindow
<1>15. CASE \E stage \in Stages : GoesStale(stage)
  BY <1>15 DEF GoesStale, Ages
<1>16. CASE \E stage \in FreshnessChecks : IsForgotten(stage)
  BY <1>16 DEF IsForgotten, Ages, Stages
<1>17. CASE UNCHANGED vars
  BY <1>17 DEF vars
<1>18. QED
  BY <1>1, <1>2, <1>3, <1>4, <1>5, <1>6, <1>7, <1>8, <1>9, <1>10, <1>11, <1>12, <1>13, <1>14, <1>15,
     <1>16, <1>17
  DEF Next, MainStep, StreamStep, ScoreModel, Environment

(* Every variable keeps its type; in particular a window never has more     *)
(* rows than there were submissions of the job.                            *)
THEOREM TypeCorrect == Spec => []AnalyticsTypeOK
<1> DEFINE Inv == WindowInv /\ RowInv /\ ScoreInv /\ Flags /\ RestTyped
<1>1. Init => Inv
  <2>1. Init => RowInv
    BY BoundsAreNat DEF Init, RowInv
  <2>2. Init => Flags
    BY Zenon DEF Init, Flags
  <2>3. Init => RestTyped
    BY BoundsAreNat DEF Init, RestTyped, Connections, Ages
  <2>4. QED
    BY <2>1, <2>2, <2>3, WindowInit, ScoreInit
<1>2. JobTyped /\ Inv /\ [Next]_vars => Inv'
  BY WindowStep, RowStep, ScoreStep, FlagsStep, RestStep DEF JobTyped
<1>3. JobTyped /\ Inv => AnalyticsTypeOK
  <2> SUFFICES ASSUME JobTyped, Inv PROVE AnalyticsTypeOK
    OBVIOUS
  <2>1. windowRows \in [Windows -> 0 .. MaxSubmissions]
    BY BoundsAreNat DEF JobTyped, Typed, RowInv
  <2>2. scores \in [Serials -> [Jobs -> 0 .. 1]]
    <3>1. scores \in [Serials -> [Jobs -> Nat]]
      BY DEF JobTyped, Typed
    <3>2. \A m \in Serials, j \in Jobs : scores[m][j] \in 0 .. 1
      BY <3>1 DEF ScoreInv
    <3>3. \A m \in Serials : scores[m] \in [Jobs -> 0 .. 1]
      BY <3>1, <3>2
    <3>4. QED
      BY <3>1, <3>3
  <2>3. QED
    BY <2>1, <2>2 DEF JobTyped, Typed, Flags, RestTyped, AnalyticsTypeOK
<1> HIDE DEF Inv
<1>4. QED
  BY <1>1, <1>2, <1>3, JobAlways, PTL DEF Spec

=============================================================================
