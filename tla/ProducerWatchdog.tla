-------------------------- MODULE ProducerWatchdog --------------------------
(***************************************************************************)
(* The delivery watchdog of the producer (scripts/02_kafka_producer.py,    *)
(* class SingleBrokerProducer): the streaming loop hands readings to a     *)
(* Kafka client, whose I/O thread confirms or expires them, and replaces   *)
(* the client when nothing has been confirmed for stall_seconds.  What the *)
(* readings say does not matter here.  The Kafka client, the broker and    *)
(* the restart of the container are modelled as the code uses them: a      *)
(* client may lose its session for good, the broker may be away a while.   *)
(***************************************************************************)
EXTENDS Integers

CONSTANTS
    STALL,           \* stall_seconds, in ticks of the clock
    MaxRetries,      \* max_retries of connect
    BUFFER,          \* bound: readings a client holds unconfirmed
    MaxOutages       \* bound: outages of the broker and lost sessions

ASSUME WatchdogAssumption ==
    /\ STALL \in Nat
    /\ MaxRetries \in Nat \ {0}
    /\ BUFFER \in Nat
    /\ MaxOutages \in Nat

VARIABLES
    pc,          \* what the main thread does
    attempt,     \* attempt of connect
    sent,        \* messages_sent > _sent_at_connect
    silence,     \* ticks since last_delivery_at, up to STALL + 1
    unconfirmed, \* readings the client holds
    healthy,     \* the client still has its session
    brokerUp,
    outages,
    age          \* history: ticks since the client connected, up to STALL + 1

vars == <<pc, attempt, sent, silence, unconfirmed, healthy, brokerUp, outages, age>>

TypeOK ==
    /\ pc \in {"connecting", "streaming", "ended"}
    /\ attempt \in 1 .. MaxRetries
    /\ sent \in BOOLEAN
    /\ silence \in 0 .. STALL + 1
    /\ unconfirmed \in 0 .. BUFFER
    /\ healthy \in BOOLEAN
    /\ brokerUp \in BOOLEAN
    /\ outages \in 0 .. MaxOutages
    /\ age \in 0 .. STALL + 1

Init ==
    /\ pc = "connecting"
    /\ attempt = 1
    /\ sent = FALSE
    /\ silence = 0
    /\ unconfirmed = 0
    /\ healthy = FALSE
    /\ brokerUp \in BOOLEAN
    /\ outages = 0
    /\ age = 0

-----------------------------------------------------------------------------
(* The main thread.                                                        *)

(* A slip of MarkConnected: the silence of the old client goes on.         *)
MarkConnectedSentOnly == sent' = FALSE /\ UNCHANGED silence

MarkConnected == sent' = FALSE /\ silence' = 0

ConnectSucceeds ==
    /\ pc = "connecting" /\ brokerUp
    /\ pc' = "streaming"
    /\ healthy' = TRUE
    /\ age' = 0
    /\ MarkConnected
    /\ UNCHANGED <<attempt, unconfirmed, brokerUp, outages>>

RetriesLeft == attempt < MaxRetries

(* The last failing attempt raises, and run ends the program.              *)
ConnectFails ==
    /\ pc = "connecting" /\ ~brokerUp
    /\ IF RetriesLeft
       THEN attempt' = attempt + 1 /\ UNCHANGED pc
       ELSE pc' = "ended" /\ UNCHANGED attempt
    /\ UNCHANGED <<sent, silence, unconfirmed, healthy, brokerUp, outages, age>>

(* The container starts the program again.                                 *)
Restart ==
    /\ pc = "ended"
    /\ pc' = "connecting"
    /\ attempt' = 1
    /\ sent' = FALSE
    /\ silence' = 0
    /\ unconfirmed' = 0
    /\ healthy' = FALSE
    /\ UNCHANGED <<brokerUp, outages, age>>

delivery_stalled(queued) == queued /\ silence > STALL

(* One reading: send, counted also if it fails, then the watchdog.  A      *)
(* stalled client is closed, which drops what it still holds.              *)
SendReading ==
    /\ pc = "streaming"
    /\ sent' = TRUE
    /\ IF delivery_stalled(sent')
       THEN /\ pc' = "connecting"
            /\ attempt' = 1
            /\ unconfirmed' = 0
            /\ healthy' = FALSE
       ELSE /\ unconfirmed' = IF unconfirmed < BUFFER THEN unconfirmed + 1 ELSE unconfirmed
            /\ UNCHANGED <<pc, attempt, healthy>>
    /\ UNCHANGED <<silence, brokerUp, outages, age>>

(* Any other error of the loop, say of a device file, ends the program;    *)
(* its client is flushed, which may take what it still holds, and closed.  *)
LoopFails ==
    /\ pc = "streaming"
    /\ pc' = "ended"
    /\ unconfirmed' = 0
    /\ healthy' = FALSE
    /\ UNCHANGED <<attempt, sent, silence, brokerUp, outages, age>>

-----------------------------------------------------------------------------
(* The client's I/O thread.                                                *)

_on_delivered ==
    /\ pc = "streaming" /\ unconfirmed > 0 /\ brokerUp /\ healthy
    /\ unconfirmed' = unconfirmed - 1
    /\ silence' = 0
    /\ UNCHANGED <<pc, attempt, sent, healthy, brokerUp, outages, age>>

(* A slip of AfterFailure: a failed reading is taken for a sign of life.   *)
AfterFailureAlive == 0

AfterFailure == silence

_on_failed ==
    /\ pc = "streaming" /\ unconfirmed > 0
    /\ unconfirmed' = unconfirmed - 1
    /\ silence' = AfterFailure
    /\ UNCHANGED <<pc, attempt, sent, healthy, brokerUp, outages, age>>

-----------------------------------------------------------------------------
(* The environment.                                                        *)

Tick ==
    /\ silence <= STALL \/ age <= STALL
    /\ silence' = IF silence <= STALL THEN silence + 1 ELSE silence
    /\ age' = IF age <= STALL THEN age + 1 ELSE age
    /\ UNCHANGED <<pc, attempt, sent, unconfirmed, healthy, brokerUp, outages>>

BrokerGoes ==
    /\ brokerUp /\ outages < MaxOutages
    /\ brokerUp' = FALSE
    /\ outages' = outages + 1
    /\ UNCHANGED <<pc, attempt, sent, silence, unconfirmed, healthy, age>>

BrokerReturns ==
    /\ ~brokerUp
    /\ brokerUp' = TRUE
    /\ UNCHANGED <<pc, attempt, sent, silence, unconfirmed, healthy, outages, age>>

(* A client that lost its session expires every reading from then on.      *)
SessionLost ==
    /\ pc = "streaming" /\ healthy /\ outages < MaxOutages
    /\ healthy' = FALSE
    /\ outages' = outages + 1
    /\ UNCHANGED <<pc, attempt, sent, silence, unconfirmed, brokerUp, age>>

Next ==
    \/ ConnectSucceeds \/ ConnectFails \/ Restart \/ SendReading \/ LoopFails
    \/ _on_delivered \/ _on_failed
    \/ Tick \/ BrokerGoes \/ BrokerReturns \/ SessionLost

Spec == Init /\ [][Next]_vars

(* The main thread and the clock go on, and the broker comes back in the   *)
(* end.  Nothing is assumed of the I/O thread: what a client confirms or   *)
(* expires, and when, is up to it.                                         *)
FairSpec ==
    /\ Spec
    /\ WF_vars(ConnectSucceeds) /\ WF_vars(ConnectFails) /\ WF_vars(Restart)
    /\ WF_vars(SendReading) /\ WF_vars(Tick) /\ WF_vars(BrokerReturns)

-----------------------------------------------------------------------------
(* Properties.                                                             *)

(* Streaming does not stop for good: a client that lost its session is     *)
(* noticed, although it keeps expiring readings, and a working one takes   *)
(* its place, although connecting may fail and end the program.            *)
DeadClientsAreReplaced == ~healthy ~> healthy

(* Every client gets its own stall_seconds: the watchdog does not take the *)
(* silence of the client before it for its own.                            *)
ClientsGetTheirTime ==
    [][pc = "streaming" /\ pc' = "connecting" => age > STALL]_vars

=============================================================================
