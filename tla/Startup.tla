------------------------------ MODULE Startup -------------------------------
(***************************************************************************)
(* Starting the platform: the script start, the containers it brings up    *)
(* with docker compose, and scripts/pipeline_orchestrator.py, which sets   *)
(* up the Kafka topics and submits the Flink and the Spark job.  The       *)
(* volumes of Kafka and TimescaleDB and the device files outlive a start;  *)
(* jobs live in their containers.                                          *)
(*                                                                         *)
(* Every wait of the orchestrator ends, ready or not, and the next step is *)
(* tried either way, so a wait is no state of its own here.                *)
(***************************************************************************)
EXTENDS DataPreparation

CONSTANTS
    TOPICS,
    PARTITIONS,
    MAX_RETRIES,     \* submissions of a job
    MAX_ATTEMPTS,    \* polls of Kafka's command line
    MaxStarts,       \* bound: runs of start
    MaxFaults        \* bound: containers that die, reboots

ASSUME StartupAssumption ==
    /\ {PARTITIONS, MAX_RETRIES, MAX_ATTEMPTS} \subseteq Nat \ {0}
    /\ {MaxStarts, MaxFaults} \subseteq Nat

VARIABLES
    at,            \* the step start is at, "off" if it does not run
    containers,    \* the long-running containers that are up
    init,          \* the container database-init
    partitions,    \* partitions of each topic, 0 if it does not exist
    ensured,       \* topics this start has seen to
    unraised,      \* history: topics it could not raise to PARTITIONS
    attempt,       \* of the current step
    jobs,          \* Flink jobs running
    misreported,   \* history: those whose submission was answered with an error
    spark,         \* the Spark analytics job, "none" also when it has ended
    starts, faults

platform == <<containers, init, jobs, misreported, spark>>
progress == <<at, attempt, ensured, unraised>>
startVars == <<progress, platform, partitions, starts, faults>>
vars == <<dataVars, startVars>>

(* The containers that write to the tables database-init creates; all but  *)
(* Spark's driver, in spark-master, wait for it.                           *)
DatabaseWriters == {"timescaledb-collector", "federated-aggregator", "dashboard-metrics-updater"}

Services == DatabaseWriters \cup
    {"kafka-broker-1", "timescaledb", "flink-jobmanager", "spark-master", "kafka-producer"}

KafkaClients == {"timescaledb-collector", "federated-aggregator", "kafka-producer"}

(* The containers docker starts again by itself: restart: unless-stopped.  *)
Restarted == DatabaseWriters \cup {"kafka-producer"}

StartupTypeOK ==
    /\ DataTypeOK
    /\ at \in {"off", "check", "preparing", "down", "remove", "up", "topics",
               "ensure", "flink", "spark"}
    /\ containers \subseteq Services
    /\ init \in {"absent", "waiting", "completed", "failed"}
    /\ partitions \in [TOPICS -> 0 .. PARTITIONS]
    /\ ensured \subseteq TOPICS /\ unraised \subseteq TOPICS
    /\ attempt \in 1 .. MAX_ATTEMPTS + MAX_RETRIES
    /\ jobs \in 0 .. MAX_RETRIES /\ misreported \in 0 .. MAX_RETRIES
    /\ spark \in {"none", "running"}
    /\ starts \in 0 .. MaxStarts /\ faults \in 0 .. MaxFaults

(* An older run may have left topics with a single partition.              *)
Init ==
    /\ DataInit
    /\ at = "off"
    /\ containers = {} /\ init = "absent"
    /\ partitions \in [TOPICS -> {0, 1}]
    /\ ensured = {} /\ unraised = {}
    /\ attempt = 1
    /\ jobs = 0 /\ misreported = 0 /\ spark = "none"
    /\ starts = 0 /\ faults = 0

Goto(where) == at' = where /\ attempt' = 1 /\ UNCHANGED <<ensured, unraised>>

(* A slip of Retry: the attempts are not counted.                          *)
RetryUncounted == UNCHANGED progress

Retry == attempt' = attempt + 1 /\ UNCHANGED <<at, ensured, unraised>>

(* The script ends, with or without an error.                              *)
Exit == at' = "off" /\ attempt' = 1 /\ ensured' = {} /\ unraised' = {}

-----------------------------------------------------------------------------
(* start: the device files.                                                *)

Start ==
    /\ at = "off"
    /\ step = "idle"
    /\ starts < MaxStarts
    /\ starts' = starts + 1
    /\ Goto("check")
    /\ UNCHANGED <<dataVars, platform, partitions, faults>>

HasData == 0 \in DOMAIN files \/ xChunks \cup yChunks # {}

(* A slip of NeedsData: the preprocessor runs with every start.            *)
NeedsDataAlways == TRUE

NeedsData == ~HasData

RunPreprocessor ==
    /\ at = "check"
    /\ NeedsData
    /\ RunContainer
    /\ Goto("preparing")
    /\ UNCHANGED <<platform, partitions, starts, faults>>

SkipPreprocessor ==
    /\ at = "check"
    /\ ~NeedsData
    /\ Goto("down")
    /\ UNCHANGED <<dataVars, platform, partitions, starts, faults>>

(* A failed run is as good as another if it left chunks or a device file.  *)
Prepared ==
    /\ at = "preparing"
    /\ step = "idle"
    /\ IF result = "completed" \/ HasData THEN Goto("down") ELSE Exit
    /\ UNCHANGED <<dataVars, platform, partitions, starts, faults>>

-----------------------------------------------------------------------------
(* start: the containers.                                                  *)

(* A container takes the job running in it along.                          *)
Remaining(left) ==
    /\ containers' = left
    /\ IF "flink-jobmanager" \in left
       THEN UNCHANGED <<jobs, misreported>>
       ELSE jobs' = 0 /\ misreported' = 0
    /\ spark' = IF "spark-master" \in left THEN spark ELSE "none"

(* docker compose down, which may fail (|| true).                          *)
Down ==
    /\ at = "down"
    /\ Goto("remove")
    /\ \/ Remaining({}) /\ init' = "absent"
       \/ UNCHANGED <<containers, jobs, misreported, spark, init>>
    /\ UNCHANGED <<dataVars, partitions, starts, faults>>

(* A slip of Listed: the aggregator is not removed by name.                *)
ListedWithoutAggregator == Services \ {"kafka-producer", "federated-aggregator"}

(* The names given to docker container rm -f.                              *)
Listed == Services \ {"kafka-producer"}

(* Names of containers that are not there are an error of the command and  *)
(* the reason for its || true; those that are there are removed all the    *)
(* same.  Assumed: docker, which has just answered, removes what it has.   *)
RemoveContainers ==
    /\ at = "remove"
    /\ Remaining(containers \ Listed)
    /\ init' = "absent"
    /\ Goto("up")
    /\ UNCHANGED <<dataVars, partitions, starts, faults>>

(* depends_on in docker-compose.yml.                                       *)
DependenciesMet(service) ==
    /\ service \in DatabaseWriters => init = "completed"
    /\ service \in DatabaseWriters \cup {"spark-master"} => "timescaledb" \in containers
    /\ service \notin {"timescaledb", "kafka-broker-1"} => "kafka-broker-1" \in containers

(* Compose starts what can be started; kafka and the database come first.  *)
Startable == {service \in Services : DependenciesMet(service)}

StartServices ==
    /\ at = "up"
    /\ ~(Startable \subseteq containers)
    /\ containers' = containers \cup Startable
    /\ UNCHANGED <<dataVars, init, jobs, misreported, spark, progress, partitions, starts, faults>>

StartDatabaseInit ==
    /\ at = "up"
    /\ "timescaledb" \in containers
    /\ init = "absent"
    /\ init' = "waiting"
    /\ UNCHANGED <<dataVars, containers, jobs, misreported, spark, progress, partitions, starts, faults>>

(* 00_init_database.py drops and creates all tables in one statement.      *)
InitDatabase ==
    /\ init = "waiting"
    /\ "timescaledb" \in containers
    /\ init' = "completed"
    /\ UNCHANGED <<dataVars, containers, jobs, misreported, spark, progress, partitions, starts, faults>>

(* No connection in 60 attempts, or the statement fails, or a query after  *)
(* it does.                                                                *)
InitDatabaseFails ==
    /\ init = "waiting"
    /\ init' = "failed"
    /\ UNCHANGED <<dataVars, containers, jobs, misreported, spark, progress, partitions, starts, faults>>

(* set -e: without its dependencies up fails and start ends.               *)
Up ==
    /\ at = "up"
    /\ \/ containers = Services /\ Goto("topics")
       \/ init = "failed" /\ Exit
    /\ UNCHANGED <<dataVars, platform, partitions, starts, faults>>

-----------------------------------------------------------------------------
(* The orchestrator: 01_setup_kafka_topics.py.                             *)

KafkaReachable ==
    /\ at = "topics"
    /\ "kafka-broker-1" \in containers
    /\ Goto("ensure")
    /\ UNCHANGED <<dataVars, platform, partitions, starts, faults>>

(* The script gives up with an error, and the orchestrator with it.        *)
KafkaNotReady ==
    /\ at = "topics"
    /\ IF attempt < MAX_ATTEMPTS THEN Retry ELSE Exit
    /\ UNCHANGED <<dataVars, platform, partitions, starts, faults>>

(* A slip of AfterEnsuring: a topic that exists is left as it is.          *)
AfterEnsuringExisting(topic) ==
    IF partitions[topic] = 0 THEN {PARTITIONS} ELSE {partitions[topic]}

(* --create --if-not-exists, then ensure_partition_count: reading or       *)
(* raising the partitions of a topic that was there may fail.              *)
AfterEnsuring(topic) ==
    IF partitions[topic] = 0 THEN {PARTITIONS} ELSE {PARTITIONS, partitions[topic]}

EnsureTopic(topic) ==
    /\ at = "ensure"
    /\ topic \notin ensured
    /\ "kafka-broker-1" \in containers
    /\ \E count \in AfterEnsuring(topic) :
          /\ partitions' = [partitions EXCEPT ![topic] = count]
          /\ unraised' = IF count < PARTITIONS /\ PARTITIONS \in AfterEnsuring(topic)
                         THEN unraised \cup {topic} ELSE unraised
    /\ ensured' = ensured \cup {topic}
    /\ UNCHANGED <<dataVars, at, platform, attempt, starts, faults>>

EnsureFails ==
    /\ at = "ensure"
    /\ ensured # TOPICS
    /\ Exit
    /\ UNCHANGED <<dataVars, platform, partitions, starts, faults>>

TopicsReady ==
    /\ at = "ensure"
    /\ ensured = TOPICS
    /\ Goto("flink")
    /\ UNCHANGED <<dataVars, platform, partitions, starts, faults>>

(* A client may use a topic before the setup; the broker then creates it,  *)
(* with KAFKA_NUM_PARTITIONS.                                              *)
AutoCreate(topic) ==
    /\ partitions[topic] = 0
    /\ "kafka-broker-1" \in containers
    /\ containers \cap KafkaClients # {}
    /\ partitions' = [partitions EXCEPT ![topic] = PARTITIONS]
    /\ UNCHANGED <<dataVars, platform, progress, starts, faults>>

-----------------------------------------------------------------------------
(* The orchestrator: the Flink job.                                        *)

(* A slip of AfterSubmission: the loop goes on after a success.            *)
AfterSubmissionNoBreak ==
    IF attempt < MAX_RETRIES THEN Retry ELSE Goto("spark")

AfterSubmission == Goto("spark")

SubmitFlinkJob ==
    /\ at = "flink"
    /\ "flink-jobmanager" \in containers
    /\ jobs' = jobs + 1
    /\ AfterSubmission
    /\ UNCHANGED <<dataVars, containers, init, misreported, spark, partitions, starts, faults>>

RetryOrExit == IF attempt < MAX_RETRIES THEN Retry ELSE Exit

(* The command fails, before or after the job manager has taken the job.   *)
SubmissionFails ==
    /\ at = "flink"
    /\ RetryOrExit
    /\ \/ UNCHANGED <<jobs, misreported>>
       \/ /\ "flink-jobmanager" \in containers
          /\ jobs' = jobs + 1
          /\ misreported' = misreported + 1
    /\ UNCHANGED <<dataVars, containers, init, spark, partitions, starts, faults>>

-----------------------------------------------------------------------------
(* The orchestrator: the Spark job.  Whatever comes of it, the start goes  *)
(* on to Grafana, whose setup script on the host does not exist, and ends. *)

(* Still running after 45 s.                                               *)
SparkRuns ==
    /\ at = "spark"
    /\ "spark-master" \in containers
    /\ spark' = "running"
    /\ Exit
    /\ UNCHANGED <<dataVars, containers, init, jobs, misreported, partitions, starts, faults>>

(* The job ended early but with exit code 0, which its main function gives *)
(* after every error: taken for completed.                                 *)
SparkCompletes ==
    /\ at = "spark"
    /\ "spark-master" \in containers
    /\ spark' = "none"
    /\ Exit
    /\ UNCHANGED <<dataVars, containers, init, jobs, misreported, partitions, starts, faults>>

SparkSubmissionFails ==
    /\ at = "spark"
    /\ RetryOrExit
    /\ UNCHANGED <<dataVars, platform, partitions, starts, faults>>

-----------------------------------------------------------------------------
(* What happens around the script.                                         *)

(* The user breaks it off; the preprocessor's container goes with it.      *)
Interrupt ==
    /\ at # "off"
    /\ Exit
    /\ IF step = "idle" THEN UNCHANGED dataVars ELSE BreaksOff
    /\ UNCHANGED <<platform, partitions, starts, faults>>

(* The data is prepared again by hand while nothing runs.                  *)
PrepareByHand ==
    /\ at = "off"
    /\ containers = {}
    /\ RunContainer
    /\ UNCHANGED startVars

PreprocessorStep ==
    /\ ContainerStep
    /\ UNCHANGED startVars

Fault ==
    /\ faults < MaxFaults
    /\ faults' = faults + 1

(* A container without a restart policy dies; not while they are started.  *)
ContainerDies(service) ==
    /\ Fault
    /\ service \in containers \ Restarted
    /\ at # "up"
    /\ Remaining(containers \ {service})
    /\ UNCHANGED <<dataVars, init, progress, partitions, starts>>

(* The machine goes down and up again, with what docker restarts.          *)
Reboot ==
    /\ Fault
    /\ step = "idle"
    /\ Remaining(containers \cap Restarted)
    /\ init' = IF init = "waiting" THEN "failed" ELSE init
    /\ Exit
    /\ UNCHANGED <<dataVars, partitions, starts>>

SparkEnds ==
    /\ spark = "running"
    /\ spark' = "none"
    /\ UNCHANGED <<dataVars, containers, init, jobs, misreported, progress, partitions, starts, faults>>

(* What start does once it has been called.                                *)
StartStep ==
    \/ RunPreprocessor \/ SkipPreprocessor \/ Prepared
    \/ Down \/ RemoveContainers \/ StartServices \/ StartDatabaseInit \/ Up
    \/ KafkaReachable \/ KafkaNotReady
    \/ \E topic \in TOPICS : EnsureTopic(topic)
    \/ EnsureFails \/ TopicsReady
    \/ SubmitFlinkJob \/ SubmissionFails
    \/ SparkRuns \/ SparkCompletes \/ SparkSubmissionFails

Environment ==
    \/ Start \/ Interrupt \/ PrepareByHand
    \/ \E topic \in TOPICS : AutoCreate(topic)
    \/ \E service \in Services : ContainerDies(service)
    \/ Reboot \/ SparkEnds

Next ==
    \/ StartStep \/ PreprocessorStep
    \/ InitDatabase \/ InitDatabaseFails
    \/ Environment

Spec == Init /\ [][Next]_vars

(* Every command the scripts call returns, and so do the containers that   *)
(* start waits for.                                                        *)
FairSpec ==
    /\ Spec
    /\ WF_vars(StartStep)
    /\ WF_vars(PreprocessorStep)
    /\ WF_vars(InitDatabase \/ InitDatabaseFails)

-----------------------------------------------------------------------------
(* Properties.                                                             *)

(* The tables are dropped under nobody who writes to them: while           *)
(* database-init is at it none of the writers is up, whatever was running  *)
(* when start was called and whether docker compose down worked.           *)
NoDropUnderWriters ==
    init = "waiting" => containers \cap DatabaseWriters = {} /\ spark # "running"

(* The device files never change under the producer and Spark, which read  *)
(* them: no conversion runs while either is up.                            *)
NoConversionUnderReaders ==
    [][files' # files =>
          containers \cap {"kafka-producer", "spark-master"} = {}]_vars

(* Flink runs one training job, and another only for a submission that was *)
(* answered with an error although the job had been taken.                 *)
OneFlinkJob ==
    /\ jobs <= 1 + misreported
    /\ (at = "spark" /\ faults = 0) => jobs > misreported

(* When a job is submitted every topic is there and can feed all its       *)
(* tasks, but for one whose partitions could not be read or raised.        *)
JobsFindTopics ==
    at \in {"flink", "spark"} =>
        \A topic \in TOPICS : /\ partitions[topic] > 0
                               /\ partitions[topic] < PARTITIONS => topic \in unraised

(* A start ends, whatever is missing.                                      *)
StartEnds == at # "off" ~> at = "off"

=============================================================================
