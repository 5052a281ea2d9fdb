------------------------------ MODULE Collector ------------------------------
(***************************************************************************)
(* The Kafka to TimescaleDB collector                                      *)
(* (scripts/kafka_to_timescaledb_collector.py): it consumes three topics,  *)
(* buffers their messages in one batch per table and inserts all batches   *)
(* in one transaction when they are large or old enough.                   *)
(*                                                                         *)
(* Nothing but the transaction's commit is visible outside the process, so *)
(* a message is handled in one action, the flush it triggers included.     *)
(* Kafka and the database are environment: Kafka delivers each topic in    *)
(* order from the position kept by the consumer and commits positions on   *)
(* its own schedule; any statement may fail, and may take the connection   *)
(* with it.                                                                *)
(***************************************************************************)
EXTENDS Integers, FiniteSets

CONSTANTS
    BATCH_SIZE,
    Unattributed,    \* offsets of the readings without a device_id
    MaxOffset,       \* bound: messages of a topic
    MaxFaults,       \* bound: statements that fail
    MaxRestarts      \* bound: how often the process ends

ASSUME SizeAssumption == BATCH_SIZE \in Nat \ {0}

ASSUME CollectorBounds ==
    /\ MaxOffset \in Nat /\ MaxFaults \in Nat /\ MaxRestarts \in Nat
    /\ Unattributed \subseteq 1 .. MaxOffset

VARIABLES
    pc,          \* "running" or "stopped"
    published,   \* messages in each topic
    position,    \* messages of each topic the consumer has handed out
    committed,   \* the positions Kafka holds for the consumer group
    batch,       \* iot_batch, anomaly_batch and model_batch
    due,         \* time.time() - last_insert_time >= INSERT_INTERVAL_SECONDS
    connected,   \* db_conn is usable
    rows,        \* how many rows of its table a message has become
    failed,      \* history: statements that ever failed
    faults,      \* statements that failed, counted
    restarts     \* times the process ended

kafkaVars == <<published, committed>>
dbVars    == <<connected, rows, failed, faults>>
vars == <<pc, kafkaVars, position, batch, due, dbVars, restarts>>

-----------------------------------------------------------------------------
(* A message's topic decides its batch, and the batches are inserted in    *)
(* this order.                                                             *)
Statement == [topic \in {"edge-iiot-stream", "anomalies", "local-model-updates"} |->
                 CASE topic = "edge-iiot-stream"    -> 1
                   [] topic = "anomalies"           -> 2
                   [] topic = "local-model-updates" -> 3]

Topics  == DOMAIN Statement
Offsets == 1 .. MaxOffset
Message == [topic : Topics, offset : Offsets]

Connect  == 0     \* asking a closed connection for a cursor
Commit   == 4
Nowhere  == 5     \* insert_batches fails nowhere

TypeOK ==
    /\ pc \in {"running", "stopped"}
    /\ published \in [Topics -> 0 .. MaxOffset]
    /\ position \in [Topics -> 0 .. MaxOffset]
    /\ committed \in [Topics -> 0 .. MaxOffset]
    /\ batch \subseteq Message
    /\ due \in BOOLEAN
    /\ connected \in BOOLEAN
    /\ rows \in [Message -> Nat]
    /\ failed \subseteq 1 .. Commit
    /\ faults \in 0 .. MaxFaults
    /\ restarts \in 0 .. MaxRestarts

Init ==
    /\ pc = "running"
    /\ published = [t \in Topics |-> 0]
    /\ position = [t \in Topics |-> 0]
    /\ committed = [t \in Topics |-> 0]
    /\ batch = {}
    /\ due = FALSE
    /\ connected = TRUE
    /\ rows = [m \in Message |-> 0]
    /\ failed = {}
    /\ faults = 0
    /\ restarts = 0

-----------------------------------------------------------------------------
(* insert_batches.                                                         *)

(* Where an insertion of the messages b can fail: a closed connection      *)
(* fails at once, an open one at the statement of a batch that is not      *)
(* empty or at the commit.                                                 *)
FailurePoints(b) ==
    IF ~connected THEN {Connect}
    ELSE {Nowhere} \cup IF faults < MaxFaults
                        THEN {Commit} \cup {Statement[m.topic] : m \in b} ELSE {}

(* A slip of Remaining: the batches are emptied before they are inserted.  *)
RemainingNone(b, at) == IF at = Connect THEN b ELSE {}

(* A slip of Remaining: a batch is not emptied after its statement.        *)
RemainingAll(b, at) == b

(* Each batch is emptied right after its statement, before the commit.     *)
Remaining(b, at) == {m \in b : Statement[m.topic] >= at}

AddRows(b) == rows' = [m \in Message |-> IF m \in b THEN rows[m] + 1 ELSE rows[m]]

(* The transaction is rolled back unless it reached its commit; whether a  *)
(* commit that failed was carried out is unknown.                          *)
InsertBatches(b, at) ==
    /\ at \in FailurePoints(b)
    /\ \/ at \in {Nowhere, Commit} /\ AddRows(b)
       \/ at # Nowhere /\ UNCHANGED rows
    /\ IF at \in 1 .. Commit
       THEN /\ faults' = faults + 1
            /\ failed' = failed \cup {at}
            /\ connected' \in BOOLEAN
       ELSE UNCHANGED <<faults, failed, connected>>

-----------------------------------------------------------------------------
(* run: one message.                                                       *)

(* A slip of NextMessage: the message before the next one.                 *)
NextMessageOffByOne(t) == [topic |-> t, offset |-> position[t]]

NextMessage(t) == [topic |-> t, offset |-> position[t] + 1]

Deliver(t) ==
    /\ pc = "running"
    /\ position[t] < published[t]
    /\ position' = [position EXCEPT ![t] = @ + 1]
    /\ UNCHANGED <<pc, kafkaVars, restarts>>

IsUnattributed(m) == m.topic = "edge-iiot-stream" /\ m.offset \in Unattributed

SkipReading(t) ==
    /\ Deliver(t)
    /\ IsUnattributed(NextMessage(t))
    /\ UNCHANGED <<batch, due, dbVars>>

(* A slip of FlushDue: one message too late.                               *)
FlushDueLate(b) == Cardinality(b) > BATCH_SIZE \/ due

FlushDue(b) == Cardinality(b) >= BATCH_SIZE \/ due

BufferMessage(t) ==
    /\ Deliver(t)
    /\ ~IsUnattributed(NextMessage(t))
    /\ ~FlushDue(batch \cup {NextMessage(t)})
    /\ batch' = batch \cup {NextMessage(t)}
    /\ UNCHANGED <<due, dbVars>>

(* An error of insert_batches is logged; last_insert_time stays, so the    *)
(* next message tries again.                                               *)
BufferAndFlush(t, at) ==
    LET b == batch \cup {NextMessage(t)}
    IN  /\ Deliver(t)
        /\ ~IsUnattributed(NextMessage(t))
        /\ FlushDue(b)
        /\ InsertBatches(b, at)
        /\ batch' = Remaining(b, at)
        /\ due' = (at # Nowhere /\ due)

-----------------------------------------------------------------------------
(* The end of the process.                                                 *)

EndProcess ==
    /\ pc = "running"
    /\ restarts < MaxRestarts
    /\ pc' = "stopped"
    /\ batch' = {}
    /\ restarts' = restarts + 1
    /\ UNCHANGED <<published, position, due>>

(* The loop ends with an error or an interrupt: one more flush, and        *)
(* closing the consumer commits its positions.  On a closed connection the *)
(* flush raises, from its rollback, before the consumer is closed.         *)
StopCollector(at) ==
    /\ EndProcess
    /\ IF batch = {} THEN at = Nowhere /\ UNCHANGED dbVars ELSE InsertBatches(batch, at)
    /\ committed' = IF batch = {} \/ connected' THEN position ELSE committed

(* The process is killed.                                                  *)
KillCollector == EndProcess /\ UNCHANGED <<committed, dbVars>>

(* The container is restarted: empty batches, a new connection, and Kafka  *)
(* delivers from the committed positions.                                  *)
StartCollector ==
    /\ pc = "stopped"
    /\ pc' = "running"
    /\ position' = committed
    /\ due' = FALSE
    /\ connected' = TRUE
    /\ UNCHANGED <<kafkaVars, batch, rows, failed, faults, restarts>>

-----------------------------------------------------------------------------
(* The environment.                                                        *)

Publish(t) ==
    /\ published[t] < MaxOffset
    /\ published' = [published EXCEPT ![t] = @ + 1]
    /\ UNCHANGED <<pc, committed, position, batch, due, dbVars, restarts>>

(* The Kafka client commits the consumer's positions by itself.            *)
AutoCommit ==
    /\ pc = "running"
    /\ committed # position
    /\ committed' = position
    /\ UNCHANGED <<pc, published, position, batch, due, dbVars, restarts>>

IntervalElapses ==
    /\ pc = "running"
    /\ ~due
    /\ due' = TRUE
    /\ UNCHANGED <<pc, kafkaVars, position, batch, dbVars, restarts>>

-----------------------------------------------------------------------------
HandleMessage(t) ==
    \/ SkipReading(t)
    \/ BufferMessage(t)
    \/ \E at \in 0 .. Nowhere : BufferAndFlush(t, at)

Next ==
    \/ \E t \in Topics : HandleMessage(t) \/ Publish(t)
    \/ \E at \in 0 .. Nowhere : StopCollector(at)
    \/ KillCollector
    \/ StartCollector
    \/ AutoCommit
    \/ IntervalElapses

Spec == Init /\ [][Next]_vars

-----------------------------------------------------------------------------
(* Properties.                                                             *)

Consumed == {m \in Message : m.offset <= position[m.topic] /\ ~IsUnattributed(m)}

(* However often inserts fail and are tried again, a message becomes at    *)
(* most one row in each life of the process; only a redelivery after a     *)
(* restart stores it again.                                                *)
StoredOncePerLife == \A m \in Message : rows[m] <= restarts + 1

(* In the first life a consumed message is in its batch or in its table,   *)
(* unless a statement after its own has failed: the transaction took back  *)
(* the rows of batches that were emptied already.                          *)
LossNeedsLaterFailure ==
    restarts = 0 =>
        \A m \in Consumed :
            \/ m \in batch
            \/ rows[m] = 1
            \/ \E s \in failed : s > Statement[m.topic]

(* Until an insert fails the collector never holds BATCH_SIZE messages     *)
(* between two messages, also across restarts.                             *)
BatchesStaySmall == failed = {} => Cardinality(batch) < BATCH_SIZE

(* What documents and comments say, and the code does not do.              *)

(* SYSTEM.md on iot_data: every streamed reading.                          *)
EveryReadingStored ==
    restarts = 0 => \A m \in Consumed :
        m.topic = "edge-iiot-stream" => m \in batch \/ rows[m] = 1

=============================================================================
