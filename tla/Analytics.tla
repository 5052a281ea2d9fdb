------------------------------ MODULE Analytics ------------------------------
(***************************************************************************)
(* What watches the learning: the Spark job of 05_spark_analytics.py,      *)
(* which stores the fleet's 30-second windows and scores every published   *)
(* global model, dashboard_metrics_updater.py, which stores KPI snapshots, *)
(* and the monitor of pipeline_monitor.py, which tells a user, from the    *)
(* age of the newest rows, whether all this still goes on.                 *)
(*                                                                         *)
(* They share TimescaleDB.  A connection is opened once and is lost when   *)
(* the database goes away: a statement on it fails then, and so does the   *)
(* rollback in the handler of that failure, whose exception goes up to the *)
(* caller.  Windows are numbered in the order the watermark closes them.   *)
(* A model has the version the code knows it by and a serial number for    *)
(* the properties, which tells the models of the aggregator's lives apart. *)
(***************************************************************************)
EXTENDS Naturals

CONSTANTS
    MaxWindows,       \* bound: windows that close
    MaxModels,        \* bound: models the aggregator publishes in all its lives
    MaxSubmissions,   \* bound: times the Spark job is submitted
    MaxFaults         \* bound: outages, restarts, refused statements, failed Spark jobs

ASSUME AnalyticsAssumption ==
    {MaxWindows, MaxModels, MaxSubmissions, MaxFaults} \subseteq Nat

VARIABLES
    dbUp,
    published,       \* the model of global_model_latest.json
    made,            \* models the aggregator has made, for their serial numbers
    \* the Spark driver
    driver,          \* what its main thread does, "off" if it does not run
    query,           \* the streaming query: "none", "active" or "failed"
    conn,            \* self.db
    evalData,        \* eval_df is not None
    model,           \* model_eval.model
    evaluated,       \* the model evaluated_version is the version of
    \* the streaming query
    streamConn,      \* self.stream_db
    closed,          \* windows the watermark has closed
    planned, acked,  \* the checkpoint: windows of batches begun and done
    written,         \* foreachBatch has returned for the current batch
    \* the updater
    updaterConn,
    \* TimescaleDB
    windowRows,      \* rows of a window in stream_analysis_results
    scores,          \* rows of a model's score in model_evaluations, by job
    age,             \* of the newest row of a stage
    \* the monitor
    reported,        \* what the last overview complained about
    \* history
    lost,            \* windows whose insert failed
    replayed,        \* windows stored before the driver died in their batch
    unscored,        \* models whose insert failed
    submissions, faults

aggregatorVars == <<published, made>>
sparkVars == <<driver, query, conn, evalData, model, evaluated>>
streamVars == <<streamConn, planned, acked, written>>
rowVars == <<windowRows, scores, age>>
historyVars == <<lost, replayed, unscored, submissions, faults>>
vars == <<dbUp, aggregatorVars, closed, sparkVars, streamVars, updaterConn, rowVars,
          reported, historyVars>>

Connections == {"none", "open", "lost"}
Windows == 1 .. MaxWindows
Serials == 1 .. MaxModels
Jobs == 1 .. MaxSubmissions

NoModel == [version |-> 0, serial |-> 0]
Models == {NoModel} \cup [version : Serials, serial : Serials]

(* The stages whose newest row is looked at; that of windows stands for    *)
(* the monitor's other checks, which are computed in the same way.         *)
FreshnessChecks == {"windows"}
Stages == FreshnessChecks \cup {"snapshots"}

(* A row is stale past its stage's limit, and forgotten past the day that  *)
(* the monitor's queries look back.                                        *)
Ages == {"none", "fresh", "stale", "forgotten"}

AnalyticsTypeOK ==
    /\ dbUp \in BOOLEAN
    /\ published \in Models /\ made \in 0 .. MaxModels
    /\ driver \in {"off", "batch", "watching", "scoring"}
    /\ query \in {"none", "active", "failed"}
    /\ {conn, streamConn, updaterConn} \subseteq Connections
    /\ evalData \in BOOLEAN
    /\ model \in Models /\ evaluated \in Models
    /\ closed \in 0 .. MaxWindows
    /\ planned \in 0 .. closed /\ acked \in 0 .. planned
    /\ written \in BOOLEAN
    /\ windowRows \in [Windows -> 0 .. MaxSubmissions]
    /\ scores \in [Serials -> [Jobs -> 0 .. 1]]
    /\ age \in [Stages -> Ages]
    /\ reported \subseteq FreshnessChecks \cup {"database"}
    /\ lost \subseteq Windows /\ replayed \subseteq Windows
    /\ unscored \subseteq Serials
    /\ submissions \in 0 .. MaxSubmissions /\ faults \in 0 .. MaxFaults

Init ==
    /\ dbUp = TRUE
    /\ published = NoModel /\ made = 0
    /\ driver = "off" /\ query = "none" /\ conn = "none"
    /\ evalData = FALSE /\ model = NoModel /\ evaluated = NoModel
    /\ streamConn = "none"
    /\ closed = 0 /\ planned = 0 /\ acked = 0 /\ written = FALSE
    /\ updaterConn = "none"
    /\ windowRows = [w \in Windows |-> 0]
    /\ scores = [m \in Serials |-> [j \in Jobs |-> 0]]
    /\ age = [s \in Stages |-> "none"]
    /\ reported = {}
    /\ lost = {} /\ replayed = {} /\ unscored = {}
    /\ submissions = 0 /\ faults = 0

Fault == faults < MaxFaults /\ faults' = faults + 1

Opened == IF dbUp THEN "open" ELSE "none"

Freshened(stage) == [age EXCEPT ![stage] = "fresh"]

-----------------------------------------------------------------------------
(* The driver's main thread: run_full_pipeline.                            *)

(* The windows of the batch in the checkpoint that is not done.            *)
Batch == acked + 1 .. planned

(* The process ends, normally or by an exception, and the query with it.   *)
(* What foreachBatch stored before its batch was done will be stored again. *)
DriverEnds ==
    /\ driver' = "off" /\ query' = "none" /\ conn' = "none"
    /\ evalData' = FALSE /\ model' = NoModel /\ evaluated' = NoModel
    /\ streamConn' = "none"
    /\ written' = FALSE
    /\ replayed' = IF written THEN replayed \cup Batch ELSE replayed
    /\ UNCHANGED <<planned, acked>>

(* The orchestrator submits the job: without a database it ends at once.   *)
(* A query that cannot start is None; the batch analysis is done still.    *)
Submit ==
    /\ driver = "off"
    /\ submissions < MaxSubmissions
    /\ submissions' = submissions + 1
    /\ IF dbUp
       THEN /\ driver' = "batch"
            /\ conn' = "open"
            /\ model' = published
            /\ \/ query' = "active" /\ UNCHANGED faults
               \/ query' = "none" /\ Fault
       ELSE UNCHANGED <<driver, query, conn, model, faults>>
    /\ UNCHANGED <<dbUp, aggregatorVars, closed, evalData, evaluated, streamVars,
                   updaterConn, rowVars, reported, lost, replayed, unscored>>

(* The batch analysis logs its errors.  One before the held-out rows are   *)
(* sampled leaves the job without them for good.                           *)
AnalyseBatch ==
    /\ driver = "batch"
    /\ driver' = "watching"
    /\ \/ evalData' = TRUE /\ UNCHANGED faults
       \/ evalData' = FALSE /\ Fault
    /\ UNCHANGED <<dbUp, aggregatorVars, closed, query, conn, model, evaluated, streamVars,
                   updaterConn, rowVars, reported, lost, replayed, unscored, submissions>>

(* _load_latest_model, at the top of the loop, which compares versions.    *)
LoadModel ==
    /\ driver = "watching"
    /\ query = "active"
    /\ published # NoModel
    /\ model' = published
    /\ published.version # evaluated.version
    /\ driver' = "scoring"
    /\ UNCHANGED <<dbUp, aggregatorVars, closed, query, conn, evalData, evaluated,
                   streamVars, updaterConn, rowVars, reported, historyVars>>

(* Slips of Scored: the file is read again for the version to remember;    *)
(* the version is not remembered.                                          *)
ScoredByFile == published
ScoredForgotten == evaluated

(* The version remembered as evaluated after evaluate_global_model.        *)
Scored == model

Scores ==
    /\ driver = "scoring"
    /\ driver' = "watching"
    /\ evaluated' = Scored
    /\ UNCHANGED <<dbUp, aggregatorVars, closed, query, conn, evalData, model, streamVars,
                   updaterConn, windowRows, age, reported, lost, replayed, submissions>>

StoreScore ==
    /\ Scores
    /\ evalData /\ conn = "open"
    /\ scores' = [scores EXCEPT ![model.serial][submissions] = @ + 1]
    /\ UNCHANGED <<unscored, faults>>

(* The insert is refused and rolled back; the version counts as evaluated. *)
ScoreRefused ==
    /\ Scores
    /\ evalData /\ conn = "open"
    /\ Fault
    /\ unscored' = unscored \cup {model.serial}
    /\ UNCHANGED scores

(* Without held-out rows the version counts as evaluated, too.             *)
SkipScore ==
    /\ Scores
    /\ ~evalData
    /\ UNCHANGED <<scores, unscored, faults>>

(* The loop is left when the query has failed, or by the exception of a    *)
(* lost connection or of a failed Spark job.  main() logs it and the       *)
(* process exits with 0: nobody submits the job again.                     *)
JobEnds ==
    /\ \/ driver = "watching" /\ query # "active" /\ UNCHANGED faults
       \/ driver = "scoring" /\ evalData /\ conn = "lost" /\ UNCHANGED faults
       \/ driver = "scoring" /\ evalData /\ Fault
    /\ DriverEnds
    /\ UNCHANGED <<dbUp, aggregatorVars, closed, updaterConn, rowVars, reported, lost,
                   unscored, submissions>>

DriverDies ==
    /\ driver # "off"
    /\ Fault
    /\ DriverEnds
    /\ UNCHANGED <<dbUp, aggregatorVars, closed, updaterConn, rowVars, reported, lost,
                   unscored, submissions>>

-----------------------------------------------------------------------------
(* The streaming thread.                                                   *)

PlanBatch ==
    /\ query = "active"
    /\ planned = acked /\ closed > acked
    /\ planned' = closed
    /\ UNCHANGED <<dbUp, aggregatorVars, closed, sparkVars, streamConn, acked, written,
                   updaterConn, rowVars, reported, historyVars>>

WritesBatch ==
    /\ query = "active"
    /\ Batch # {} /\ ~written
    /\ written' = TRUE
    /\ streamConn' = IF streamConn = "none" THEN Opened ELSE streamConn
    /\ UNCHANGED <<dbUp, aggregatorVars, closed, sparkVars, planned, acked, updaterConn,
                   scores, reported, replayed, unscored, submissions>>

StoreBatch ==
    /\ WritesBatch
    /\ streamConn' = "open"
    /\ windowRows' = [w \in Windows |-> windowRows[w] + (IF w \in Batch THEN 1 ELSE 0)]
    /\ age' = Freshened("windows")
    /\ UNCHANGED <<lost, faults>>

(* _write_stream_batch logs every exception and returns.                   *)
LoseBatch ==
    /\ WritesBatch
    /\ IF streamConn' = "open" THEN Fault ELSE UNCHANGED faults
    /\ lost' = lost \cup Batch
    /\ UNCHANGED <<windowRows, age>>

(* A slip of Done: Spark takes a batch as done when it has been planned.   *)
DoneWhenPlanned == Batch # {}

Done == Batch # {} /\ written

AckBatch ==
    /\ query = "active"
    /\ Done
    /\ acked' = planned
    /\ written' = FALSE
    /\ UNCHANGED <<dbUp, aggregatorVars, closed, sparkVars, streamConn, planned,
                   updaterConn, rowVars, reported, historyVars>>

QueryFails ==
    /\ query = "active"
    /\ Fault
    /\ query' = "failed"
    /\ UNCHANGED <<dbUp, aggregatorVars, closed, driver, conn, evalData, model, evaluated,
                   streamVars, updaterConn, rowVars, reported, lost, replayed, unscored,
                   submissions>>

-----------------------------------------------------------------------------
(* DashboardMetricsUpdater.                                                *)

UpdaterUnchanged ==
    UNCHANGED <<dbUp, aggregatorVars, closed, sparkVars, streamVars, windowRows, scores,
                reported, lost, replayed, unscored, submissions>>

(* connect_db, by this process or, after ten attempts, by the next one.    *)
UpdaterConnects ==
    /\ updaterConn = "none"
    /\ dbUp
    /\ updaterConn' = "open"
    /\ UpdaterUnchanged /\ UNCHANGED <<age, faults>>

Snapshot ==
    /\ updaterConn = "open"
    /\ \/ age' = Freshened("snapshots") /\ UNCHANGED faults
       \/ Fault /\ UNCHANGED age      \* refused and rolled back
    /\ UNCHANGED updaterConn /\ UpdaterUnchanged

(* A slip of AfterLoss: the failed rollback is caught, too.                *)
AfterLossCaught == "lost"

(* The updater's connection when its rollback has failed: the process ends *)
(* and docker starts another.                                              *)
AfterLoss == "none"

UpdaterFails ==
    /\ updaterConn = "lost"
    /\ updaterConn' = AfterLoss
    /\ UpdaterUnchanged /\ UNCHANGED <<age, faults>>

-----------------------------------------------------------------------------
(* The monitor.                                                            *)

(* A slip of Overdue: a limit given in minutes is compared as seconds, so  *)
(* the row is out of sight before it is over the limit.                    *)
OverdueByDays(stage) == age[stage] = "forgotten"

(* No row in sight counts as not overdue.                                  *)
Overdue(stage) == age[stage] = "stale"

(* build_overview and _overall_status, behind a cache of three seconds;    *)
(* the query of one stage may fail, which counts as no row in sight.       *)
Overview ==
    /\ \E failed \in SUBSET FreshnessChecks :
          /\ IF failed = {} THEN UNCHANGED faults ELSE dbUp /\ Fault
          /\ reported' = IF dbUp
                         THEN {s \in FreshnessChecks \ failed : Overdue(s)}
                         ELSE {"database"}
    /\ UNCHANGED <<dbUp, aggregatorVars, closed, sparkVars, streamVars, updaterConn,
                   rowVars, lost, replayed, unscored, submissions>>

-----------------------------------------------------------------------------
(* The environment.                                                        *)

Lost(connection) == IF connection = "open" THEN "lost" ELSE connection

DatabaseGoesDown ==
    /\ dbUp
    /\ Fault
    /\ dbUp' = FALSE
    /\ conn' = Lost(conn) /\ streamConn' = Lost(streamConn) /\ updaterConn' = Lost(updaterConn)
    /\ UNCHANGED <<aggregatorVars, closed, driver, query, evalData, model, evaluated,
                   planned, acked, written, rowVars, reported, lost, replayed, unscored,
                   submissions>>

DatabaseComesBack ==
    /\ ~dbUp
    /\ dbUp' = TRUE
    /\ UNCHANGED <<aggregatorVars, closed, sparkVars, streamVars, updaterConn, rowVars,
                   reported, historyVars>>

(* A round or a rollback publishes the next version.                       *)
Publish ==
    /\ made < MaxModels
    /\ made' = made + 1
    /\ published' = [version |-> published.version + 1, serial |-> made']
    /\ UNCHANGED <<dbUp, closed, sparkVars, streamVars, updaterConn, rowVars, reported,
                   historyVars>>

(* Its first act is to remove the file, and its versions start at 1 again. *)
AggregatorRestarts ==
    /\ published # NoModel
    /\ Fault
    /\ published' = NoModel
    /\ UNCHANGED <<dbUp, made, closed, sparkVars, streamVars, updaterConn, rowVars,
                   reported, lost, replayed, unscored, submissions>>

CloseWindow ==
    /\ closed < MaxWindows
    /\ closed' = closed + 1
    /\ UNCHANGED <<dbUp, aggregatorVars, sparkVars, streamVars, updaterConn, rowVars,
                   reported, historyVars>>

(* Time goes by without a row; someone looks at the page once a day.       *)
GoesStale(stage) ==
    /\ age[stage] = "fresh"
    /\ age' = [age EXCEPT ![stage] = "stale"]
    /\ UNCHANGED <<dbUp, aggregatorVars, closed, sparkVars, streamVars, updaterConn,
                   windowRows, scores, reported, historyVars>>

IsForgotten(stage) ==
    /\ age[stage] = "stale"
    /\ stage \in reported
    /\ age' = [age EXCEPT ![stage] = "forgotten"]
    /\ UNCHANGED <<dbUp, aggregatorVars, closed, sparkVars, streamVars, updaterConn,
                   windowRows, scores, reported, historyVars>>

-----------------------------------------------------------------------------
ScoreModel == StoreScore \/ ScoreRefused \/ SkipScore
MainStep == AnalyseBatch \/ LoadModel \/ ScoreModel \/ JobEnds
StreamStep == PlanBatch \/ StoreBatch \/ LoseBatch \/ AckBatch

Environment ==
    \/ Submit \/ DriverDies \/ QueryFails
    \/ DatabaseGoesDown \/ DatabaseComesBack
    \/ Publish \/ AggregatorRestarts \/ CloseWindow
    \/ \E stage \in Stages : GoesStale(stage)
    \/ \E stage \in FreshnessChecks : IsForgotten(stage)

Next ==
    \/ MainStep \/ StreamStep
    \/ UpdaterConnects \/ Snapshot \/ UpdaterFails
    \/ Overview
    \/ Environment

Spec == Init /\ [][Next]_vars

(* Threads that can run do, docker starts the updater again, the page is   *)
(* open and polls, and time goes by.  Nobody has to bring the database     *)
(* back or to submit the job again.                                        *)
FairSpec ==
    /\ Spec
    /\ WF_vars(MainStep) /\ WF_vars(StreamStep)
    /\ WF_vars(UpdaterConnects) /\ WF_vars(Snapshot /\ age' # age) /\ WF_vars(UpdaterFails)
    /\ WF_vars(Overview /\ faults' = faults)
    /\ \A stage \in Stages : WF_vars(GoesStale(stage))

-----------------------------------------------------------------------------
(* Properties.                                                             *)

(* Every window Spark is done with has exactly one row per device in the   *)
(* database, but for those whose insert failed and those that were stored  *)
(* again because the driver died between storing and committing a batch.   *)
WindowsStoredOnce ==
    \A w \in 1 .. acked :
        /\ windowRows[w] = 0 => w \in lost
        /\ windowRows[w] > 1 => w \in replayed

(* No job scores a model twice, however often the file is looked at and    *)
(* whatever is published while it scores.  A job may score a version       *)
(* twice: it is another model after the aggregator has been restarted.     *)
ModelsScoredOncePerJob == \A m \in Serials, j \in Jobs : scores[m][j] <= 1

(* The version evaluated last is that of a model of an earlier life of the *)
(* aggregator, and the loop takes the published model for it.              *)
TakenForAnother ==
    published.version = evaluated.version /\ published.serial # evaluated.serial

(* A published model that is not replaced is scored, as long as the job,   *)
(* its held-out rows and its connection last and the insert is taken, and  *)
(* unless its version is, after a restart of the aggregator, the very one  *)
(* the job has evaluated last.                                             *)
NewestModelIsScored ==
    \A m \in Serials :
        published.serial = m /\ driver # "off" /\ query = "active" /\ evalData /\ conn = "open"
            ~> \/ \E j \in Jobs : scores[m][j] > 0
               \/ m \in unscored \/ published.serial # m \/ TakenForAnother
               \/ driver = "off" \/ query # "active" \/ conn # "open"

(* When the Spark job has ended, or its stream has lost the connection it  *)
(* never opens again, a user of the monitor is told so, if windows were    *)
(* stored on the last day and nobody has submitted the job again.          *)
SilentStreamIsReported ==
    (driver = "off" \/ streamConn = "lost") /\ age["windows"] \in {"fresh", "stale"}
        ~> \/ {"windows", "database"} \cap reported # {}
           \/ driver # "off" /\ streamConn # "lost"

(* After an outage KPI snapshots go on when the database is back.          *)
SnapshotsGoOn ==
    age["snapshots"] # "fresh" /\ dbUp ~> age["snapshots"] = "fresh" \/ ~dbUp

=============================================================================
