--------------------------- MODULE CollectorProofs ---------------------------
(***************************************************************************)
(* Theorems about the collector, for every batch size and every bound.     *)
(***************************************************************************)
EXTENDS Collector, FiniteSetTheorems, TLAPS

-----------------------------------------------------------------------------
(* The operators.                                                          *)

LEMMA StatementRange == ASSUME NEW t \in Topics PROVE Statement[t] \in 1 .. 3
BY DEF Statement, Topics

LEMMA NextMessageType ==
    ASSUME TypeOK, NEW t \in Topics, Deliver(t)
    PROVE  /\ NextMessage(t) \in Message
           /\ NextMessage(t).topic = t
           /\ NextMessage(t).offset = position[t] + 1
<1>1. position[t] \in 0 .. MaxOffset /\ published[t] \in 0 .. MaxOffset
  BY DEF TypeOK
<1>2. position[t] < published[t]
  BY DEF Deliver
<1>3. QED
  BY <1>1, <1>2, CollectorBounds DEF NextMessage, Message, Offsets

(* A successful insertion and one that failed at its commit leave nothing  *)
(* in the batches; a closed connection leaves everything.                  *)
LEMMA RemainingAt ==
    ASSUME NEW b \in SUBSET Message, NEW at \in 0 .. Nowhere
    PROVE  /\ at \in {Nowhere, Commit} => Remaining(b, at) = {}
           /\ at = Connect => Remaining(b, at) = b
           /\ Remaining(b, at) \subseteq b
<1>1. \A m \in b : Statement[m.topic] \in 1 .. 3
  BY StatementRange DEF Message
<1>2. QED
  BY <1>1 DEF Remaining, Nowhere, Commit, Connect

(* An insertion in terms of its outcome.                                   *)
LEMMA InsertOutcome ==
    ASSUME TypeOK, NEW b \in SUBSET Message, NEW at \in 0 .. Nowhere, InsertBatches(b, at)
    PROVE  /\ connected' \in BOOLEAN
           /\ rows' \in [Message -> Nat]
           /\ failed' \in SUBSET (1 .. Commit)
           /\ faults' \in 0 .. MaxFaults
           /\ \A m \in Message : rows'[m] = rows[m] \/ (m \in b /\ rows'[m] = rows[m] + 1)
           /\ at \notin {Nowhere, Commit} => rows' = rows
           /\ at = Nowhere => \A m \in b : rows'[m] = rows[m] + 1
           /\ at \in 1 .. Commit => at \in failed'
           /\ failed \subseteq failed'
           /\ at = Connect => ~connected
           /\ failed' = {} => at \in {Nowhere, Connect} /\ failed = {} /\ connected' = connected
<1>1. rows \in [Message -> Nat]
  BY DEF TypeOK
<1>2. \/ at \in {Nowhere, Commit} /\ AddRows(b)
      \/ at # Nowhere /\ rows' = rows
  BY DEF InsertBatches
<1>3. /\ rows' \in [Message -> Nat]
      /\ \A m \in Message : rows'[m] = rows[m] \/ (m \in b /\ rows'[m] = rows[m] + 1)
      /\ at \notin {Nowhere, Commit} => rows' = rows
      /\ at = Nowhere => \A m \in b : rows'[m] = rows[m] + 1
  <2>1. CASE AddRows(b)
    <3>1. rows' = [m \in Message |-> IF m \in b THEN rows[m] + 1 ELSE rows[m]]
      BY <2>1 DEF AddRows
    <3>2. \A m \in Message : rows[m] \in Nat
      BY <1>1
    <3>3. rows' \in [Message -> Nat]
      BY <3>1, <3>2
    <3>4. \A m \in Message : rows'[m] = IF m \in b THEN rows[m] + 1 ELSE rows[m]
      BY <3>1
    <3>5. CASE at \in {Nowhere, Commit}
      BY <3>3, <3>4, <3>5 DEF Nowhere, Commit
    <3>6. CASE at \notin {Nowhere, Commit}
      BY <1>2, <1>1, <3>6
    <3>7. QED
      BY <3>5, <3>6
  <2>2. CASE at # Nowhere /\ rows' = rows
    BY <1>1, <2>2
  <2>3. QED
    BY <1>2, <2>1, <2>2
<1>4. CASE at \in 1 .. Commit
  <2>1. faults < MaxFaults
    BY <1>4 DEF InsertBatches, FailurePoints, Commit, Connect, Nowhere
  <2>2. faults \in 0 .. MaxFaults /\ failed \subseteq 1 .. Commit
    BY DEF TypeOK
  <2>3. faults' = faults + 1 /\ failed' = failed \cup {at} /\ connected' \in BOOLEAN
    BY <1>4 DEF InsertBatches
  <2>4. at # Connect
    BY <1>4 DEF Connect, Commit
  <2>5. faults' \in 0 .. MaxFaults
    BY <2>1, <2>2, <2>3, CollectorBounds
  <2>6. QED
    BY <1>3, <1>4, <2>2, <2>3, <2>4, <2>5
<1>5. CASE at \notin 1 .. Commit
  <2>1. faults' = faults /\ failed' = failed /\ connected' = connected
    BY <1>5 DEF InsertBatches
  <2>2. at \in {Nowhere, Connect}
    BY <1>5 DEF Nowhere, Connect, Commit
  <2>3. at = Connect => ~connected
    <3>1. \A m \in b : Statement[m.topic] # Connect
      BY StatementRange DEF Message, Connect
    <3>2. at \in FailurePoints(b)
      BY DEF InsertBatches
    <3>3. QED
      BY <3>1, <3>2 DEF FailurePoints, Connect, Nowhere, Commit
  <2>4. QED
    BY <1>3, <1>5, <2>1, <2>2, <2>3 DEF TypeOK
<1>6. QED
  BY <1>4, <1>5

-----------------------------------------------------------------------------
(* Type correctness.                                                       *)

LEMMA TypeStep == TypeOK /\ [Next]_vars => TypeOK'
<1> SUFFICES ASSUME TypeOK, [Next]_vars PROVE TypeOK'
  OBVIOUS
<1>1. ASSUME NEW t \in Topics, Deliver(t)
      PROVE  /\ position' \in [Topics -> 0 .. MaxOffset]
             /\ pc' = pc /\ published' = published /\ committed' = committed
             /\ restarts' = restarts
  <2>1. position[t] + 1 \in 0 .. MaxOffset
    BY <1>1, CollectorBounds DEF TypeOK, Deliver
  <2>2. QED
    BY <1>1, <2>1 DEF TypeOK, Deliver, kafkaVars
<1>2. ASSUME NEW t \in Topics, SkipReading(t) PROVE TypeOK'
  <2>1. Deliver(t) /\ UNCHANGED <<batch, due, dbVars>>
    BY <1>2 DEF SkipReading
  <2>2. QED
    BY <1>1, <2>1 DEF TypeOK, dbVars
<1>3. ASSUME NEW t \in Topics, BufferMessage(t) PROVE TypeOK'
  <2>1. Deliver(t) /\ UNCHANGED <<due, dbVars>> /\ batch' = batch \cup {NextMessage(t)}
    BY <1>3 DEF BufferMessage
  <2>2. NextMessage(t) \in Message
    BY <2>1, NextMessageType
  <2>3. QED
    BY <1>1, <2>1, <2>2 DEF TypeOK, dbVars
<1>4. ASSUME NEW t \in Topics, NEW at \in 0 .. Nowhere, BufferAndFlush(t, at) PROVE TypeOK'
  <2> DEFINE b == batch \cup {NextMessage(t)}
  <2>1. Deliver(t) /\ InsertBatches(b, at) /\ batch' = Remaining(b, at) /\ due' = (at # Nowhere /\ due)
    BY <1>4 DEF BufferAndFlush
  <2>2. b \in SUBSET Message
    BY <2>1, NextMessageType DEF TypeOK
  <2>3. batch' \subseteq Message
    BY <2>1, <2>2, RemainingAt
  <2>4. due' \in BOOLEAN
    BY <2>1 DEF TypeOK
  <2>5. /\ connected' \in BOOLEAN /\ rows' \in [Message -> Nat]
        /\ failed' \in SUBSET (1 .. Commit) /\ faults' \in 0 .. MaxFaults
    BY <2>1, <2>2, InsertOutcome
  <2>6. QED
    BY <1>1, <2>1, <2>3, <2>4, <2>5 DEF TypeOK
<1>5. ASSUME EndProcess
      PROVE  /\ pc' \in {"running", "stopped"} /\ published' = published
             /\ position' = position /\ batch' \subseteq Message /\ due' = due
             /\ restarts' \in 0 .. MaxRestarts
  BY <1>5, CollectorBounds DEF EndProcess, TypeOK
<1>6. ASSUME NEW at \in 0 .. Nowhere, StopCollector(at) PROVE TypeOK'
  <2>1. EndProcess /\ committed' \in {position, committed}
    BY <1>6 DEF StopCollector
  <2>2. /\ connected' \in BOOLEAN /\ rows' \in [Message -> Nat]
        /\ failed' \in SUBSET (1 .. Commit) /\ faults' \in 0 .. MaxFaults
    <3>1. CASE batch = {}
      BY <1>6, <3>1 DEF StopCollector, dbVars, TypeOK
    <3>2. CASE batch # {}
      <4>1. InsertBatches(batch, at) /\ batch \in SUBSET Message
        BY <1>6, <3>2 DEF StopCollector, TypeOK
      <4>2. QED
        BY <4>1, InsertOutcome
    <3>3. QED
      BY <3>1, <3>2
  <2>3. QED
    BY <1>5, <2>1, <2>2 DEF TypeOK
<1>7. CASE KillCollector
  BY <1>5, <1>7 DEF KillCollector, TypeOK, dbVars
<1>8. CASE StartCollector
  BY <1>8 DEF StartCollector, TypeOK, kafkaVars
<1>9. ASSUME NEW t \in Topics, Publish(t) PROVE TypeOK'
  <2>1. published[t] + 1 \in 0 .. MaxOffset
    BY <1>9, CollectorBounds DEF TypeOK, Publish
  <2>2. QED
    BY <1>9, <2>1 DEF Publish, TypeOK, dbVars
<1>10. CASE AutoCommit
  BY <1>10 DEF AutoCommit, TypeOK, dbVars
<1>11. CASE IntervalElapses
  BY <1>11 DEF IntervalElapses, TypeOK, dbVars, kafkaVars
<1>12. CASE UNCHANGED vars
  BY <1>12 DEF vars, TypeOK, dbVars, kafkaVars
<1>13. ASSUME NEW t \in Topics, HandleMessage(t) PROVE TypeOK'
  BY <1>2, <1>3, <1>4, <1>13 DEF HandleMessage
<1>14. QED
  BY <1>13, <1>6, <1>7, <1>8, <1>9, <1>10, <1>11, <1>12 DEF Next

(* The collector's variables keep their types: in particular its batches   *)
(* only ever hold messages that were published, and a failed insertion is  *)
(* counted once.                                                           *)
THEOREM TypeCorrect == Spec => []TypeOK
<1>1. Init => TypeOK
  <2>1. 0 \in 0 .. MaxOffset /\ 0 \in 0 .. MaxFaults /\ 0 \in 0 .. MaxRestarts
    BY CollectorBounds
  <2>2. ASSUME Init
        PROVE  /\ published \in [Topics -> 0 .. MaxOffset]
               /\ position \in [Topics -> 0 .. MaxOffset]
               /\ committed \in [Topics -> 0 .. MaxOffset]
    BY <2>1, <2>2 DEF Init
  <2>3. Init => rows \in [Message -> Nat]
    BY DEF Init
  <2>4. ASSUME Init
        PROVE  /\ faults \in 0 .. MaxFaults /\ restarts \in 0 .. MaxRestarts
               /\ failed \subseteq 1 .. Commit
    BY <2>1, <2>4 DEF Init
  <2>5. QED
    BY <2>2, <2>3, <2>4 DEF Init, TypeOK
<1>2. TypeOK /\ [Next]_vars => TypeOK'
  BY TypeStep
<1>3. QED
  BY <1>1, <1>2, PTL DEF Spec

-----------------------------------------------------------------------------
(* Rows.  What is still to be inserted, because it is buffered or was not  *)
(* consumed yet, has no row of this life.                                  *)

Waiting(m) == m \in batch \/ m.offset > position[m.topic]

RowInv ==
    /\ \A m \in batch : m.offset <= position[m.topic]
    /\ pc = "running" => \A m \in Message :
                            /\ rows[m] <= restarts + 1
                            /\ Waiting(m) => rows[m] <= restarts
    /\ pc = "stopped" => batch = {} /\ \A m \in Message : rows[m] <= restarts

LEMMA RowFlush ==
    ASSUME TypeOK, RowInv, NEW t \in Topics, NEW at \in 0 .. Nowhere, BufferAndFlush(t, at)
    PROVE  RowInv'
<1> DEFINE b == batch \cup {NextMessage(t)}
<1>1. /\ Deliver(t) /\ InsertBatches(b, at) /\ batch' = Remaining(b, at)
  BY DEF BufferAndFlush
<1>2. /\ NextMessage(t) \in Message
      /\ NextMessage(t).topic = t
      /\ NextMessage(t).offset = position[t] + 1
  BY <1>1, NextMessageType
<1>3. b \in SUBSET Message
  BY <1>2 DEF TypeOK
<1>4. /\ pc = "running" /\ pc' = pc /\ restarts' = restarts
      /\ position' = [position EXCEPT ![t] = @ + 1]
  BY <1>1 DEF Deliver
<1>5. \A u \in Topics : position[u] \in Nat /\ position'[u] = IF u = t THEN position[u] + 1 ELSE position[u]
  BY <1>4, CollectorBounds DEF TypeOK
<1>6. \A m \in Message : m.topic \in Topics /\ m.offset \in Nat
  BY DEF Message, Offsets
<1>7. \A m \in b : m.offset <= position'[m.topic] /\ Waiting(m)
  <2>1. ASSUME NEW m \in batch PROVE m.offset <= position'[m.topic]
    BY <1>5, <1>6, <2>1 DEF RowInv, TypeOK
  <2>2. NextMessage(t).offset <= position'[NextMessage(t).topic]
    BY <1>2, <1>5
  <2>3. NextMessage(t).offset > position[NextMessage(t).topic]
    BY <1>2, <1>5
  <2>4. QED
    BY <2>1, <2>2, <2>3 DEF Waiting
<1>8. \A m \in Message : rows[m] \in Nat /\ restarts \in Nat
  BY CollectorBounds DEF TypeOK
<1>9. /\ \A m \in Message : rows'[m] = rows[m] \/ (m \in b /\ rows'[m] = rows[m] + 1)
      /\ at \notin {Nowhere, Commit} => rows' = rows
  BY <1>1, <1>3, InsertOutcome
<1>10. batch' \subseteq b /\ (at \in {Nowhere, Commit} => batch' = {})
  BY <1>1, <1>3, RemainingAt
<1>11. ASSUME NEW m \in Message
       PROVE  rows'[m] <= restarts' + 1 /\ (Waiting(m)' => rows'[m] <= restarts')
  <2>1. rows[m] <= restarts + 1 /\ (Waiting(m) => rows[m] <= restarts)
    BY <1>4 DEF RowInv
  <2>2. m \in b => rows[m] <= restarts
    BY <1>7, <2>1
  <2>3. rows'[m] <= restarts' + 1
    BY <1>4, <1>8, <1>9, <2>1, <2>2
  <2>4. ASSUME Waiting(m)' PROVE rows'[m] <= restarts'
    <3>1. CASE m \in batch'
      BY <1>4, <1>9, <1>10, <2>2, <3>1
    <3>2. CASE m.offset > position'[m.topic]
      <4>1. m.offset > position[m.topic]
        BY <1>5, <1>6, <3>2
      <4>2. m \notin b
        BY <1>5, <1>6, <1>7, <3>2
      <4>3. QED
        BY <1>4, <1>9, <2>1, <4>1, <4>2 DEF Waiting
    <3>3. QED
      BY <2>4, <3>1, <3>2 DEF Waiting
  <2>5. QED
    BY <2>3, <2>4
<1>12. QED
  BY <1>4, <1>7, <1>10, <1>11 DEF RowInv

LEMMA RowStep == TypeOK /\ RowInv /\ [Next]_vars => RowInv'
<1> SUFFICES ASSUME TypeOK, RowInv, [Next]_vars PROVE RowInv'
  OBVIOUS
<1>1. \A m \in Message : m.topic \in Topics /\ m.offset \in Nat /\ rows[m] \in Nat
  <2>1. \A m \in Message : rows[m] \in Nat
    BY DEF TypeOK
  <2>2. \A m \in Message : m.topic \in Topics /\ m.offset \in Nat
    BY DEF Message, Offsets
  <2>3. QED
    BY <2>1, <2>2
<1>2. /\ \A u \in Topics : position[u] \in Nat /\ committed[u] \in Nat
      /\ batch \subseteq Message /\ restarts \in Nat
  BY CollectorBounds DEF TypeOK
<1>3. ASSUME NEW t \in Topics, Deliver(t)
      PROVE  /\ pc = "running" /\ pc' = pc /\ restarts' = restarts
             /\ \A u \in Topics : position[u] <= position'[u]
             /\ position'[t] = position[t] + 1
  BY <1>2, <1>3 DEF Deliver, TypeOK
<1>4. ASSUME NEW t \in Topics, SkipReading(t) PROVE RowInv'
  <2>1. Deliver(t) /\ batch' = batch /\ rows' = rows
    BY <1>4 DEF SkipReading, dbVars
  <2>2. /\ pc = "running" /\ pc' = pc /\ restarts' = restarts
        /\ \A u \in Topics : position'[u] \in Nat /\ position[u] <= position'[u]
    BY <1>3, <2>1, <1>2 DEF Deliver, TypeOK
  <2>3. \A m \in Message : m.offset > position'[m.topic] => m.offset > position[m.topic]
    BY <1>1, <1>2, <2>2
  <2>4. \A m \in batch' : m.offset <= position'[m.topic]
    BY <1>1, <1>2, <2>1, <2>2 DEF RowInv
  <2>5. QED
    BY <2>1, <2>2, <2>3, <2>4 DEF RowInv, Waiting
<1>5. ASSUME NEW t \in Topics, BufferMessage(t) PROVE RowInv'
  <2>1. Deliver(t) /\ batch' = batch \cup {NextMessage(t)} /\ rows' = rows
    BY <1>5 DEF BufferMessage, dbVars
  <2>2. /\ pc = "running" /\ pc' = pc /\ restarts' = restarts
        /\ position'[t] = position[t] + 1
        /\ \A u \in Topics : position'[u] \in Nat /\ position[u] <= position'[u]
    BY <1>3, <2>1, <1>2 DEF Deliver, TypeOK
  <2>3. NextMessage(t).topic = t /\ NextMessage(t).offset = position[t] + 1
    BY <2>1, NextMessageType
  <2>4. \A m \in Message : m.offset > position'[m.topic] => m.offset > position[m.topic]
    BY <1>1, <1>2, <2>2
  <2>5. NextMessage(t).offset > position[t] /\ NextMessage(t).offset <= position'[t]
    BY <1>2, <2>2, <2>3
  <2>6. \A m \in batch' : m.offset <= position'[m.topic]
    BY <1>1, <1>2, <2>1, <2>2, <2>3, <2>5 DEF RowInv
  <2>7. \A m \in Message : Waiting(m)' => Waiting(m)
    BY <2>1, <2>3, <2>4, <2>5 DEF Waiting
  <2>8. QED
    BY <2>1, <2>2, <2>6, <2>7 DEF RowInv
<1>6. ASSUME NEW at \in 0 .. Nowhere, StopCollector(at) PROVE RowInv'
  <2>1. /\ pc = "running" /\ pc' = "stopped" /\ batch' = {} /\ restarts' = restarts + 1
    BY <1>6 DEF StopCollector, EndProcess
  <2>2. \A m \in Message : rows'[m] = rows[m] \/ (m \in batch /\ rows'[m] = rows[m] + 1)
    <3>1. CASE batch = {}
      BY <1>6, <3>1 DEF StopCollector, dbVars
    <3>2. CASE batch # {}
      <4>1. InsertBatches(batch, at) /\ batch \in SUBSET Message
        BY <1>2, <1>6, <3>2 DEF StopCollector
      <4>2. QED
        BY <4>1, InsertOutcome
    <3>3. QED
      BY <3>1, <3>2
  <2>3. \A m \in Message : rows'[m] <= restarts'
    BY <1>1, <1>2, <2>1, <2>2 DEF RowInv, Waiting
  <2>4. QED
    BY <2>1, <2>3 DEF RowInv
<1>7. CASE KillCollector
  BY <1>7 DEF KillCollector, EndProcess, dbVars, RowInv
<1>8. CASE StartCollector
  <2>1. pc = "stopped" /\ batch = {} /\ batch' = {} /\ pc' = "running"
        /\ rows' = rows /\ restarts' = restarts
    BY <1>8 DEF StartCollector, RowInv
  <2>2. \A m \in Message : rows[m] <= restarts + 1
    BY <1>1, <1>2, <2>1 DEF RowInv
  <2>3. QED
    BY <2>1, <2>2 DEF RowInv
<1>9. CASE UNCHANGED <<pc, position, batch, rows, restarts>>
  BY <1>9 DEF RowInv, Waiting
<1>10. ASSUME NEW t \in Topics, HandleMessage(t) PROVE RowInv'
  BY <1>4, <1>5, <1>10, RowFlush DEF HandleMessage
<1>11. ASSUME NEW t \in Topics, Publish(t) PROVE RowInv'
  BY <1>9, <1>11 DEF Publish, dbVars
<1>12. CASE AutoCommit
  BY <1>9, <1>12 DEF AutoCommit, dbVars
<1>13. CASE IntervalElapses
  BY <1>9, <1>13 DEF IntervalElapses, dbVars
<1>14. CASE UNCHANGED vars
  BY <1>9, <1>14 DEF vars, dbVars
<1>15. QED
  BY <1>6, <1>7, <1>8, <1>10, <1>11, <1>12, <1>13, <1>14 DEF Next

LEMMA RowInvariant == Spec => []RowInv
<1>1. Init => RowInv
  BY DEF Init, RowInv, Waiting
<1>2. QED
  BY <1>1, RowStep, TypeCorrect, PTL DEF Spec

(* However often inserts fail and are tried again, no life of the process  *)
(* stores a message twice.                                                 *)
THEOREM StoredOnce == Spec => []StoredOncePerLife
<1>1. TypeOK /\ RowInv => StoredOncePerLife
  <2> SUFFICES ASSUME TypeOK, RowInv, NEW m \in Message PROVE rows[m] <= restarts + 1
    BY DEF StoredOncePerLife
  <2>1. rows[m] \in Nat /\ restarts \in Nat /\ pc \in {"running", "stopped"}
    BY CollectorBounds DEF TypeOK
  <2>2. QED
    BY <2>1 DEF RowInv
<1>2. QED
  BY <1>1, RowInvariant, TypeCorrect, PTL

-----------------------------------------------------------------------------
(* Loss.  In the first life what is buffered has no row yet (RowInv), so   *)
(* an insertion that empties a batch stores it or fails further on.        *)

LaterFailure(m) == \E s \in failed : s > Statement[m.topic]

LossInv ==
    restarts = 0 =>
        /\ pc = "running"
        /\ \A m \in Consumed : m \in batch \/ rows[m] = 1 \/ LaterFailure(m)

LEMMA LossFlush ==
    ASSUME TypeOK, RowInv, LossInv, NEW t \in Topics, NEW at \in 0 .. Nowhere,
           BufferAndFlush(t, at)
    PROVE  LossInv'
<1> DEFINE b == batch \cup {NextMessage(t)}
<1>1. /\ Deliver(t) /\ InsertBatches(b, at) /\ batch' = Remaining(b, at)
  BY DEF BufferAndFlush
<1>2. /\ NextMessage(t) \in Message
      /\ NextMessage(t).topic = t
      /\ NextMessage(t).offset = position[t] + 1
  BY <1>1, NextMessageType
<1>3. b \in SUBSET Message
  BY <1>2 DEF TypeOK
<1>4. /\ pc = "running" /\ pc' = pc /\ restarts' = restarts
      /\ position' = [position EXCEPT ![t] = @ + 1]
  BY <1>1 DEF Deliver
<1>5. \A u \in Topics : position[u] \in Nat /\ position'[u] = IF u = t THEN position[u] + 1 ELSE position[u]
  BY <1>4, CollectorBounds DEF TypeOK
<1> SUFFICES ASSUME restarts = 0, NEW m \in Consumed'
             PROVE  m \in batch' \/ rows'[m] = 1 \/ LaterFailure(m)'
  BY <1>4 DEF LossInv
<1>6. m \in Message /\ m.topic \in Topics /\ m.offset \in Nat /\ Statement[m.topic] \in 1 .. 3
  BY StatementRange DEF Consumed, Message, Offsets
<1>7. failed \subseteq failed' /\ failed' \subseteq 1 .. Commit
  BY <1>1, <1>3, InsertOutcome
<1>8. CASE m \in b
  <2>1. CASE at = Nowhere
    <3>1. rows'[m] = rows[m] + 1
      BY <1>1, <1>3, <1>8, <2>1, InsertOutcome
    <3>2. Waiting(m)
      BY <1>2, <1>5, <1>8 DEF Waiting
    <3>3. rows[m] \in Nat /\ rows[m] <= 0
      BY <1>4, <1>6, <3>2 DEF RowInv, TypeOK
    <3>4. QED
      BY <3>1, <3>3
  <2>2. CASE at \in 1 .. Commit
    <3>1. at \in failed'
      BY <1>1, <1>3, <2>2, InsertOutcome
    <3>2. CASE Statement[m.topic] >= at
      BY <1>1, <1>8, <3>2 DEF Remaining
    <3>3. CASE Statement[m.topic] < at
      BY <3>1, <3>3 DEF LaterFailure
    <3>4. QED
      BY <1>6, <2>2, <3>2, <3>3 DEF Commit
  <2>3. CASE at = Connect
    BY <1>1, <1>3, <1>8, <2>3, RemainingAt
  <2>4. QED
    BY <2>1, <2>2, <2>3 DEF Nowhere, Commit, Connect
<1>9. CASE m \notin b
  <2>1. m.offset <= position[m.topic]
    <3>1. CASE m.topic # t
      BY <1>5, <1>6, <3>1 DEF Consumed
    <3>2. CASE m.topic = t
      <4>1. m # NextMessage(t) /\ m.offset <= position[t] + 1
        BY <1>5, <1>9, <3>2 DEF Consumed
      <4>2. m.offset # position[t] + 1
        BY <1>6, <3>2, <4>1 DEF NextMessage, Message
      <4>3. QED
        BY <1>5, <1>6, <3>2, <4>1, <4>2
    <3>3. QED
      BY <3>1, <3>2
  <2>2. m \in Consumed /\ m \notin batch
    BY <1>6, <1>9, <2>1 DEF Consumed, IsUnattributed
  <2>3. rows'[m] = rows[m]
    BY <1>1, <1>3, <1>6, <1>9, InsertOutcome
  <2>4. rows[m] = 1 \/ LaterFailure(m)
    BY <2>2 DEF LossInv
  <2>5. QED
    BY <1>7, <2>3, <2>4 DEF LaterFailure
<1>10. QED
  BY <1>8, <1>9

LEMMA LossStep == TypeOK /\ RowInv /\ LossInv /\ [Next]_vars => LossInv'
<1> SUFFICES ASSUME TypeOK, RowInv, LossInv, [Next]_vars PROVE LossInv'
  OBVIOUS
<1>1. ASSUME NEW t \in Topics, Deliver(t), NEW m \in Consumed'
      PROVE  /\ pc' = pc /\ restarts' = restarts
             /\ m \in Consumed \/ m = NextMessage(t)
  <2>1. \A u \in Topics : position[u] \in Nat /\ position'[u] = IF u = t THEN position[u] + 1 ELSE position[u]
    BY <1>1, CollectorBounds DEF TypeOK, Deliver
  <2>2. m \in Message /\ m.topic \in Topics /\ m.offset \in Nat /\ m.offset <= position'[m.topic]
    BY <1>1 DEF Consumed, Message, Offsets
  <2>3. m.topic = t /\ m.offset = position[t] + 1 => m = NextMessage(t)
    BY <2>2 DEF NextMessage, Message
  <2>4. m.offset <= position[m.topic] \/ m = NextMessage(t)
    BY <2>1, <2>2, <2>3
  <2>5. QED
    BY <1>1, <2>2, <2>4 DEF Deliver, Consumed, IsUnattributed
<1>2. ASSUME NEW t \in Topics, SkipReading(t) PROVE LossInv'
  <2>1. Deliver(t) /\ UNCHANGED <<batch, rows, failed>> /\ IsUnattributed(NextMessage(t))
    BY <1>2 DEF SkipReading, dbVars
  <2>2. pc' = pc /\ restarts' = restarts
    BY <2>1 DEF Deliver
  <2>3. \A m \in Consumed' : ~IsUnattributed(m)
    BY DEF Consumed, IsUnattributed
  <2>4. Consumed' \subseteq Consumed
    BY <1>1, <2>1, <2>3
  <2>5. QED
    BY <2>1, <2>2, <2>4 DEF LossInv, LaterFailure
<1>3. ASSUME NEW t \in Topics, BufferMessage(t) PROVE LossInv'
  <2>1. Deliver(t) /\ UNCHANGED <<rows, failed>> /\ batch' = batch \cup {NextMessage(t)}
    BY <1>3 DEF BufferMessage, dbVars
  <2>2. pc' = pc /\ restarts' = restarts
    BY <2>1 DEF Deliver
  <2>3. \A m \in Consumed' : m \in Consumed \/ m \in batch'
    BY <1>1, <2>1
  <2>4. QED
    BY <2>1, <2>2, <2>3 DEF LossInv, LaterFailure
<1>4. CASE EndProcess
  BY <1>4, CollectorBounds DEF EndProcess, LossInv, TypeOK
<1>5. CASE StartCollector
  BY <1>5 DEF StartCollector, LossInv
<1>6. CASE UNCHANGED <<pc, position, batch, rows, failed, restarts>>
  BY <1>6 DEF LossInv, LaterFailure, Consumed, IsUnattributed
<1>7. ASSUME NEW t \in Topics, HandleMessage(t) PROVE LossInv'
  BY <1>2, <1>3, <1>7, LossFlush DEF HandleMessage
<1>8. ASSUME NEW t \in Topics, Publish(t) PROVE LossInv'
  BY <1>6, <1>8 DEF Publish, dbVars
<1>9. CASE AutoCommit
  BY <1>6, <1>9 DEF AutoCommit, dbVars
<1>10. CASE IntervalElapses
  BY <1>6, <1>10 DEF IntervalElapses, dbVars
<1>11. CASE UNCHANGED vars
  BY <1>6, <1>11 DEF vars, dbVars
<1>12. QED
  BY <1>4, <1>5, <1>7, <1>8, <1>9, <1>10, <1>11 DEF Next, StopCollector, KillCollector

(* In the first life a consumed message is buffered or stored exactly      *)
(* once, unless a statement after its own failed.                          *)
THEOREM LossExplained == Spec => []LossNeedsLaterFailure
<1>1. Init => LossInv
  <2> SUFFICES ASSUME Init, NEW m \in Consumed PROVE FALSE
    BY DEF Init, LossInv
  <2>1. m.offset \in 1 .. MaxOffset /\ m.offset <= 0
    BY DEF Consumed, Message, Offsets, Init
  <2>2. QED
    BY <2>1, CollectorBounds
<1>2. LossInv => LossNeedsLaterFailure
  BY DEF LossInv, LossNeedsLaterFailure, LaterFailure
<1>3. QED
  BY <1>1, <1>2, LossStep, TypeCorrect, RowInvariant, PTL DEF Spec

-----------------------------------------------------------------------------
(* Size.  The connection is only lost with a failed statement.             *)

SizeInv ==
    /\ IsFiniteSet(batch)
    /\ failed = {} => connected /\ Cardinality(batch) < BATCH_SIZE

LEMMA SizeStep == TypeOK /\ SizeInv /\ [Next]_vars => SizeInv'
<1> SUFFICES ASSUME TypeOK, SizeInv, [Next]_vars PROVE SizeInv'
  OBVIOUS
<1>1. ASSUME NEW t \in Topics, BufferMessage(t) PROVE SizeInv'
  <2>1. /\ batch' = batch \cup {NextMessage(t)}
        /\ ~(Cardinality(batch') >= BATCH_SIZE)
        /\ connected' = connected /\ failed' = failed
    BY <1>1 DEF BufferMessage, FlushDue, dbVars
  <2>2. IsFiniteSet(batch')
    BY <2>1, FS_AddElement DEF SizeInv
  <2>3. Cardinality(batch') < BATCH_SIZE
    BY <2>1, <2>2, FS_CardinalityType, SizeAssumption
  <2>4. QED
    BY <2>1, <2>2, <2>3 DEF SizeInv
<1>2. ASSUME NEW t \in Topics, NEW at \in 0 .. Nowhere, BufferAndFlush(t, at) PROVE SizeInv'
  <2> DEFINE b == batch \cup {NextMessage(t)}
  <2>1. Deliver(t) /\ InsertBatches(b, at) /\ batch' = Remaining(b, at)
    BY <1>2 DEF BufferAndFlush
  <2>2. b \in SUBSET Message
    BY <2>1, NextMessageType DEF TypeOK
  <2>3. IsFiniteSet(batch')
    <3>1. IsFiniteSet(b)
      BY FS_AddElement DEF SizeInv
    <3>2. batch' \in SUBSET b
      BY <2>1, <2>2, RemainingAt
    <3>3. QED
      BY <3>1, <3>2, FS_Subset
  <2>4. ASSUME failed' = {} PROVE connected' /\ Cardinality(batch') < BATCH_SIZE
    <3>1. at \in {Nowhere, Connect} /\ failed = {} /\ connected' = connected /\ (at = Connect => ~connected)
      BY <2>1, <2>2, <2>4, InsertOutcome
    <3>2. connected /\ at = Nowhere
      BY <3>1 DEF SizeInv
    <3>3. batch' = {}
      BY <2>1, <2>2, <3>2, RemainingAt
    <3>4. QED
      BY <3>1, <3>2, <3>3, FS_EmptySet, SizeAssumption
  <2>5. QED
    BY <2>3, <2>4 DEF SizeInv
<1>3. ASSUME NEW at \in 0 .. Nowhere, StopCollector(at) PROVE SizeInv'
  <2>1. batch' = {}
    BY <1>3 DEF StopCollector, EndProcess
  <2>2. ASSUME failed' = {} PROVE connected'
    <3>1. CASE batch = {}
      BY <1>3, <2>2, <3>1 DEF StopCollector, dbVars, SizeInv
    <3>2. CASE batch # {}
      <4>1. InsertBatches(batch, at) /\ batch \in SUBSET Message
        BY <1>3, <3>2 DEF StopCollector, TypeOK
      <4>2. failed = {} /\ connected' = connected
        BY <2>2, <4>1, InsertOutcome
      <4>3. QED
        BY <4>2 DEF SizeInv
    <3>3. QED
      BY <3>1, <3>2
  <2>3. QED
    BY <2>1, <2>2, FS_EmptySet, SizeAssumption DEF SizeInv
<1>4. CASE KillCollector
  BY <1>4, FS_EmptySet, SizeAssumption DEF KillCollector, EndProcess, dbVars, SizeInv
<1>5. CASE UNCHANGED <<batch, failed>> /\ (connected' \/ connected' = connected)
  BY <1>5 DEF SizeInv
<1>6. ASSUME NEW t \in Topics, HandleMessage(t) PROVE SizeInv'
  <2>1. SkipReading(t) => SizeInv'
    BY <1>5 DEF SkipReading, dbVars
  <2>2. QED
    BY <1>1, <1>2, <1>6, <2>1 DEF HandleMessage
<1>7. CASE StartCollector
  BY <1>5, <1>7 DEF StartCollector
<1>8. ASSUME NEW t \in Topics, Publish(t) PROVE SizeInv'
  BY <1>5, <1>8 DEF Publish, dbVars
<1>9. CASE AutoCommit
  BY <1>5, <1>9 DEF AutoCommit, dbVars
<1>10. CASE IntervalElapses
  BY <1>5, <1>10 DEF IntervalElapses, dbVars
<1>11. CASE UNCHANGED vars
  BY <1>5, <1>11 DEF vars, dbVars
<1>12. QED
  BY <1>3, <1>4, <1>6, <1>7, <1>8, <1>9, <1>10, <1>11 DEF Next

(* While no statement has failed the batches stay below BATCH_SIZE between *)
(* messages, whatever arrives and however often the process restarts.      *)
THEOREM SmallBatches == Spec => []BatchesStaySmall
<1>1. Init => SizeInv
  BY FS_EmptySet, SizeAssumption DEF Init, SizeInv
<1>2. SizeInv => BatchesStaySmall
  BY DEF SizeInv, BatchesStaySmall
<1>3. QED
  BY <1>1, <1>2, SizeStep, TypeCorrect, PTL DEF Spec

=============================================================================
