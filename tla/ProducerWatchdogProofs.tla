----------------------- MODULE ProducerWatchdogProofs -----------------------
(***************************************************************************)
(* Theorems about the watchdog, for every stall time, number of retries    *)
(* and buffer.                                                             *)
(***************************************************************************)
EXTENDS ProducerWatchdog, TLAPS

(* The silence the watchdog measures never began before the client did.    *)
SilenceInv ==
    /\ silence \in 0 .. STALL + 1
    /\ age \in 0 .. STALL + 1
    /\ pc = "streaming" => silence <= age

LEMMA SilenceStep == SilenceInv /\ [Next]_vars => SilenceInv'
<1> SUFFICES ASSUME SilenceInv, [Next]_vars PROVE SilenceInv'
  OBVIOUS
<1> USE WatchdogAssumption DEF SilenceInv
<1>1. CASE ConnectSucceeds
  BY <1>1 DEF ConnectSucceeds, MarkConnected
<1>2. CASE ConnectFails
  BY <1>2 DEF ConnectFails
<1>3. CASE Restart
  BY <1>3 DEF Restart
<1>4. CASE SendReading
  BY <1>4 DEF SendReading
<1>5. CASE _on_delivered
  BY <1>5 DEF _on_delivered
<1>6. CASE _on_failed
  BY <1>6 DEF _on_failed, AfterFailure
<1>7. CASE Tick
  BY <1>7 DEF Tick
<1>8. CASE BrokerGoes \/ BrokerReturns \/ SessionLost
  BY <1>8 DEF BrokerGoes, BrokerReturns, SessionLost
<1>9. CASE LoopFails
  BY <1>9 DEF LoopFails
<1>10. CASE UNCHANGED vars
  BY <1>10 DEF vars
<1>11. QED
  BY <1>1, <1>2, <1>3, <1>4, <1>5, <1>6, <1>7, <1>8, <1>9, <1>10 DEF Next

(* Every client gets its own stall_seconds (reconnect and mark_connected): *)
(* only SendReading closes one, and the silence it goes by is no longer    *)
(* than the client is old.                                                 *)
THEOREM OwnTime == Spec => ClientsGetTheirTime
<1>1. Init => SilenceInv
  BY WatchdogAssumption DEF Init, SilenceInv
<1>2. ASSUME SilenceInv, [Next]_vars
      PROVE  [pc = "streaming" /\ pc' = "connecting" => age > STALL]_vars
  <2>1. SUFFICES ASSUME Next, pc = "streaming", pc' = "connecting" PROVE age > STALL
    BY <1>2
  <2>2. SendReading
    BY <2>1 DEF Next, ConnectSucceeds, ConnectFails, Restart, LoopFails, _on_delivered,
                _on_failed, Tick, BrokerGoes, BrokerReturns, SessionLost
  <2>3. silence > STALL
    BY <2>1, <2>2 DEF SendReading, delivery_stalled
  <2>4. QED
    BY <1>2, <2>1, <2>3, WatchdogAssumption DEF SilenceInv
<1>3. QED
  BY <1>1, <1>2, SilenceStep, PTL DEF Spec, ClientsGetTheirTime

-----------------------------------------------------------------------------
(* Types.                                                                  *)

Counts ==
    /\ pc \in {"connecting", "streaming", "ended"}
    /\ attempt \in 1 .. MaxRetries
    /\ silence \in 0 .. STALL + 1
    /\ unconfirmed \in 0 .. BUFFER
    /\ outages \in 0 .. MaxOutages
    /\ age \in 0 .. STALL + 1

Flags == sent \in BOOLEAN /\ healthy \in BOOLEAN /\ brokerUp \in BOOLEAN

LEMMA CountsStep == Counts /\ [Next]_vars => Counts'
<1> SUFFICES ASSUME Counts, [Next]_vars PROVE Counts'
  OBVIOUS
<1> USE WatchdogAssumption DEF Counts
<1>1. CASE ConnectSucceeds
  BY <1>1 DEF ConnectSucceeds, MarkConnected
<1>2. CASE ConnectFails
  BY <1>2 DEF ConnectFails, RetriesLeft
<1>3. CASE Restart
  BY <1>3 DEF Restart
<1>4. CASE SendReading
  <2>1. /\ pc' \in {"connecting", pc} /\ attempt' \in {1, attempt}
        /\ UNCHANGED <<silence, outages, age>>
    BY <1>4, Zenon DEF SendReading
  <2>2. unconfirmed' \in {0, IF unconfirmed < BUFFER THEN unconfirmed + 1 ELSE unconfirmed}
    BY <1>4, Zenon DEF SendReading
  <2>3. QED
    BY <2>1, <2>2
<1>5. CASE _on_delivered
  BY <1>5 DEF _on_delivered
<1>6. CASE _on_failed
  BY <1>6 DEF _on_failed, AfterFailure
<1>7. CASE Tick
  BY <1>7 DEF Tick
<1>8. CASE BrokerGoes \/ BrokerReturns \/ SessionLost
  BY <1>8 DEF BrokerGoes, BrokerReturns, SessionLost
<1>9. CASE LoopFails
  BY <1>9 DEF LoopFails
<1>10. CASE UNCHANGED vars
  BY <1>10 DEF vars
<1>11. QED
  BY <1>1, <1>2, <1>3, <1>4, <1>5, <1>6, <1>7, <1>8, <1>9, <1>10 DEF Next

LEMMA FlagsStep == Flags /\ [Next]_vars => Flags'
<1> SUFFICES ASSUME Flags, [Next]_vars PROVE Flags'
  OBVIOUS
<1>1. CASE ConnectSucceeds
  BY <1>1, Zenon DEF ConnectSucceeds, MarkConnected, Flags
<1>2. CASE ConnectFails \/ _on_delivered \/ _on_failed \/ Tick
  BY <1>2 DEF ConnectFails, _on_delivered, _on_failed, Tick, Flags
<1>3. CASE Restart
  BY <1>3, Zenon DEF Restart, Flags
<1>4. CASE SendReading
  BY <1>4, Zenon DEF SendReading, Flags
<1>5. CASE BrokerGoes \/ BrokerReturns \/ SessionLost
  BY <1>5, Zenon DEF BrokerGoes, BrokerReturns, SessionLost, Flags
<1>6. CASE LoopFails
  BY <1>6, Zenon DEF LoopFails, Flags
<1>7. CASE UNCHANGED vars
  BY <1>7 DEF vars, Flags
<1>8. QED
  BY <1>1, <1>2, <1>3, <1>4, <1>5, <1>6, <1>7 DEF Next

(* Every variable keeps its type: connect never goes past max_retries, and *)
(* a client never holds more readings than its buffer takes.               *)
THEOREM TypeCorrect == Spec => []TypeOK
<1>1. Init => Counts
  BY WatchdogAssumption DEF Init, Counts
<1>2. Init => Flags
  BY Zenon DEF Init, Flags
<1>3. Counts /\ Flags => TypeOK
  BY DEF Counts, Flags, TypeOK
<1>4. QED
  BY <1>1, <1>2, <1>3, CountsStep, FlagsStep, PTL DEF Spec

=============================================================================
