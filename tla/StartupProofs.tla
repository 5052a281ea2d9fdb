---------------------------- MODULE StartupProofs ----------------------------
(***************************************************************************)
(* Theorems about starting the platform and preparing its data, for any    *)
(* number of devices, chunks, topics, partitions, retries and starts.      *)
(***************************************************************************)
EXTENDS Startup, SequenceTheorems, FiniteSetTheorems, TLAPS

-----------------------------------------------------------------------------
(* The device files.                                                       *)

(* Reading k of a device file carries second k - 1.                        *)
InTime(readings) ==
    /\ \E S : readings \in Seq(S)
    /\ \A k \in DOMAIN readings : readings[k].time = k - 1

Prefix(readings, n) == SubSeq(readings, 1, n)

LEMMA StampedInTime ==
  ASSUME NEW S, NEW rows \in Seq(S)
  PROVE  InTime(Stamped(rows, 0)) /\ Len(Stamped(rows, 0)) = Len(rows)
<1> DEFINE stamped == Stamped(rows, 0)
           T == {stamped[k] : k \in 1 .. Len(rows)}
<1>1. stamped = [k \in 1 .. Len(rows) |-> [row |-> rows[k], time |-> k - 1]]
  BY DEF Stamped
<1>2. stamped \in Seq(T) /\ Len(stamped) = Len(rows) /\ DOMAIN stamped = 1 .. Len(rows)
  BY <1>1
<1>3. \A k \in 1 .. Len(rows) : stamped[k].time = k - 1
  BY <1>1
<1>4. QED
  BY <1>2, <1>3 DEF InTime

LEMMA AppendInTime ==
  ASSUME NEW readings, InTime(readings), NEW S, NEW rows \in Seq(S)
  PROVE  LET all == readings \o Stamped(rows, Len(readings))
         IN  InTime(all) /\ Len(all) = Len(readings) + Len(rows)
<1> DEFINE n == Len(readings)
           stamped == Stamped(rows, n)
           T == {stamped[k] : k \in 1 .. Len(rows)}
           all == readings \o stamped
<1>1. PICK U : readings \in Seq(U)
  BY DEF InTime
<1>2. stamped = [k \in 1 .. Len(rows) |-> [row |-> rows[k], time |-> n + k - 1]]
  BY DEF Stamped
<1>3. n \in Nat /\ Len(rows) \in Nat /\ DOMAIN readings = 1 .. n
  BY <1>1
<1> HIDE DEF n
<1>4. stamped \in Seq(T) /\ Len(stamped) = Len(rows)
  BY <1>2
<1>5. readings \in Seq(U \cup T) /\ stamped \in Seq(U \cup T)
  BY <1>1, <1>4, SeqMonotonic
<1> HIDE DEF stamped, T, all
<1>6. /\ all \in Seq(U \cup T) /\ Len(all) = n + Len(rows)
      /\ \A k \in 1 .. n + Len(rows) : all[k] = IF k <= n THEN readings[k] ELSE stamped[k - n]
  BY <1>3, <1>4, <1>5 DEF all, n
<1>7. \A k \in 1 .. n + Len(rows) : all[k].time = k - 1
  <2> TAKE k \in 1 .. n + Len(rows)
  <2>1. CASE k <= n
    BY <1>3, <1>6, <2>1 DEF InTime
  <2>2. CASE k > n
    <3>1. k - n \in 1 .. Len(rows)
      BY <1>3, <2>2
    <3>2. stamped[k - n].time = n + (k - n) - 1
      BY <1>2, <3>1
    <3>3. all[k] = stamped[k - n]
      BY <1>3, <1>6, <2>2
    <3>4. QED
      BY <1>3, <3>2, <3>3
  <2>3. QED
    BY <1>3, <2>1, <2>2
<1>8. DOMAIN all = 1 .. n + Len(rows)
  BY <1>6
<1>9. QED
  BY <1>6, <1>7, <1>8 DEF InTime, all, stamped, n

LEMMA PrefixInTime ==
  ASSUME NEW readings, InTime(readings), NEW n \in 0 .. Len(readings)
  PROVE  InTime(Prefix(readings, n))
<1>1. PICK S : readings \in Seq(S)
  BY DEF InTime
<1>2. /\ Prefix(readings, n) \in Seq(S)
      /\ DOMAIN Prefix(readings, n) = 1 .. n
      /\ \A k \in 1 .. n : Prefix(readings, n)[k] = readings[k]
  BY <1>1 DEF Prefix
<1>3. 1 .. n \subseteq DOMAIN readings
  BY <1>1
<1>4. QED
  BY <1>2, <1>3 DEF InTime

(* What is written of a file is counted while it is being written, and     *)
(* buffers are sequences.                                                  *)
DataInv ==
    /\ step \in {"idle", "download", "clean", "x", "y", "assign", "load", "flush", "shuffle"}
    /\ written \in [Devices -> Nat]
    /\ DOMAIN buffers = Devices
    /\ \A dev \in Devices : \E S : buffers[dev] \in Seq(S)
    /\ DOMAIN files \subseteq Devices
    /\ \A dev \in DOMAIN files : InTime(files[dev])
    /\ step \notin {"load", "flush", "shuffle"} => \A dev \in Devices : written[dev] = 0
    /\ step \in {"load", "flush"} => \A dev \in Devices : written[dev] = Len(Existing(dev))

LEMMA ExistingInTime ==
  ASSUME DataInv, NEW dev \in Devices
  PROVE  InTime(Existing(dev))
<1>1. InTime(<<>>)
  <2>1. <<>> \in Seq({})
    OBVIOUS
  <2>2. QED
    BY <2>1 DEF InTime
<1>2. QED
  BY <1>1 DEF DataInv, Existing

LEMMA ShuffledInTime ==
  ASSUME DataInv, NEW dev \in DOMAIN files, NEW readings \in Shuffled(dev)
  PROVE  InTime(readings) /\ Len(readings) = Len(files[dev]) /\ Len(files[dev]) \in Nat
<1> DEFINE n == Len(files[dev])
<1>1. PICK S : files[dev] \in Seq(S)
  BY DEF DataInv, InTime
<1>2. n \in Nat /\ DOMAIN files[dev] = 1 .. n
  BY <1>1
<1>3. PICK p \in [DOMAIN files[dev] -> DOMAIN files[dev]] :
        readings = Stamped([k \in DOMAIN files[dev] |-> files[dev][p[k]].row], 0)
  BY DEF Shuffled
<1> DEFINE rows == [k \in 1 .. n |-> files[dev][p[k]].row]
           T == {rows[k] : k \in 1 .. n}
<1>4. readings = Stamped(rows, 0)
  BY <1>2, <1>3
<1>5. rows \in Seq(T) /\ Len(rows) = n
  BY <1>2
<1> HIDE DEF rows
<1>6. QED
  BY <1>2, <1>4, <1>5, StampedInTime

LEMMA FileReplaced ==
  ASSUME DataInv, NEW dev \in Devices, NEW readings, InTime(readings),
         files' = WithFile(dev, readings)
  PROVE  /\ DOMAIN files' \subseteq Devices
         /\ \A d \in DOMAIN files' : InTime(files'[d])
         /\ \A d \in Devices : Existing(d)' = IF d = dev THEN readings ELSE Existing(d)
<1>1. /\ DOMAIN files' = DOMAIN files \cup {dev}
      /\ \A d \in DOMAIN files' : files'[d] = IF d = dev THEN readings ELSE files[d]
  BY DEF WithFile
<1>2. QED
  BY <1>1 DEF DataInv, Existing

LEMMA DataStart == DataInit => DataInv
<1> SUFFICES ASSUME DataInit PROVE DataInv
  OBVIOUS
<1>1. \A dev \in Devices : buffers[dev] \in Seq({})
  BY DEF DataInit, NoBuffers
<1>2. QED
  BY <1>1 DEF DataInit, DataInv, NoBuffers

(* A run that ends forgets what it has written and leaves the files.       *)
LEMMA EndsInv ==
  ASSUME DataInv, NEW outcome, Ends(outcome),
         DOMAIN files' \subseteq Devices,
         \A d \in DOMAIN files' : InTime(files'[d])
  PROVE  DataInv'
<1>1. \A dev \in Devices : buffers'[dev] \in Seq({})
  BY DEF Ends, NoBuffers
<1>2. QED
  BY <1>1 DEF Ends, DataInv, NoBuffers

LEMMA DataStep == DataInv /\ [DataNext]_dataVars => DataInv'
<1> SUFFICES ASSUME DataInv, [DataNext]_dataVars PROVE DataInv'
  OBVIOUS
<1> USE DEF disk, converter
<1>1. CASE RunContainer
  BY <1>1 DEF RunContainer, DataInv, Existing
<1>2. CASE Download
  BY <1>2 DEF Download, DataInv, Existing
<1>3. CASE RemoveStaleChunks
  BY <1>3 DEF RemoveStaleChunks, DataInv, Existing
<1>4. CASE SaveX
  BY <1>4 DEF SaveX, DataInv, Existing
<1>5. CASE SaveY
  BY <1>5 DEF SaveY, DataInv, Existing
<1>6. CASE Assign
  <2>1. \A dev \in Devices : Existing(dev)' = <<>> /\ written'[dev] = 0
    BY <1>6 DEF Assign, StaleRemoved, DataInv, Existing
  <2>2. \A dev \in Devices : written'[dev] = Len(Existing(dev)')
    BY <2>1
  <2>3. QED
    BY <1>6, <2>2 DEF Assign, StaleRemoved, DataInv
<1>7. CASE SpreadRow
  <2> DEFINE target == assignment[Offset + row]
             added == RowAt(row)
  <2>1. buffers' = [buffers EXCEPT ![target] = Append(@, added)]
    BY <1>7 DEF SpreadRow
  <2> HIDE DEF target, added
  <2>2. DOMAIN buffers' = Devices
    BY <2>1 DEF DataInv
  <2>3. ASSUME NEW dev \in Devices PROVE \E S : buffers'[dev] \in Seq(S)
    <3>1. PICK S : buffers[dev] \in Seq(S)
      BY DEF DataInv
    <3>2. buffers'[dev] = IF dev = target THEN Append(buffers[dev], added) ELSE buffers[dev]
      BY <2>1 DEF DataInv
    <3>3. buffers[dev] \in Seq(S \cup {added})
      BY <3>1, SeqMonotonic
    <3>4. Append(buffers[dev], added) \in Seq(S \cup {added})
      BY <3>3
    <3>5. QED
      BY <3>2, <3>3, <3>4
  <2>4. step \in {"load"} /\ step' \in {"load", "flush"} /\ UNCHANGED <<files, written>>
    BY <1>7 DEF SpreadRow
  <2>5. QED
    BY <2>2, <2>3, <2>4 DEF DataInv, Existing
<1>8. CASE Flushed
  BY <1>8 DEF Flushed, DataInv, Existing
<1>9. CASE ShuffleDevice
  <2>1. PICK readings \in Shuffled(next) : files' = WithFile(next, readings)
    BY <1>9 DEF ShuffleDevice
  <2>2. next \in Devices
    BY <1>9 DEF ShuffleDevice, DataInv
  <2>3. InTime(readings)
    BY <1>9, <2>1, ShuffledInTime DEF ShuffleDevice
  <2>4. /\ DOMAIN files' \subseteq Devices
        /\ \A d \in DOMAIN files' : InTime(files'[d])
    BY <2>1, <2>2, <2>3, FileReplaced
  <2>5. CASE Ends("completed")
    BY <2>4, <2>5, EndsInv
  <2>6. CASE UNCHANGED <<step, buffers, written>>
    BY <1>9, <2>4, <2>6 DEF ShuffleDevice, DataInv
  <2>7. QED
    BY <1>9, <2>5, <2>6 DEF ShuffleDevice, AfterShuffle
<1>10. CASE NoFileToShuffle
  <2>1. CASE Ends("completed")
    BY <1>10, <2>1, EndsInv DEF NoFileToShuffle, DataInv
  <2>2. CASE UNCHANGED <<step, buffers, written>>
    BY <1>10, <2>2 DEF NoFileToShuffle, DataInv
  <2>3. QED
    BY <1>10, <2>1, <2>2 DEF NoFileToShuffle, AfterShuffle
<1>11. ASSUME NEW dev \in Devices, FlushDevice(dev) PROVE DataInv'
  <2>1. step = "flush" /\ step' = "flush"
    BY <1>11 DEF FlushDevice
  <2>2. PICK S : buffers[dev] \in Seq(S)
    BY DEF DataInv
  <2>3. /\ InTime(Appended(dev))
        /\ Len(Appended(dev)) = written[dev] + Len(buffers[dev])
    <3>1. written[dev] = Len(Existing(dev))
      BY <2>1 DEF DataInv
    <3>2. QED
      BY <2>2, <3>1, ExistingInTime, AppendInTime DEF Appended
  <2>4. /\ DOMAIN files' \subseteq Devices
        /\ \A d \in DOMAIN files' : InTime(files'[d])
        /\ \A d \in Devices : Existing(d)' = IF d = dev THEN Appended(dev) ELSE Existing(d)
    BY <1>11, <2>3, FileReplaced DEF FlushDevice
  <2>5. /\ written' = [written EXCEPT ![dev] = @ + Len(buffers[dev])]
        /\ buffers' = [buffers EXCEPT ![dev] = <<>>]
    BY <1>11 DEF FlushDevice
  <2>6. /\ Len(buffers[dev]) \in Nat
        /\ \A d \in Devices : written'[d] = IF d = dev THEN written[d] + Len(buffers[dev]) ELSE written[d]
        /\ written' \in [Devices -> Nat]
    BY <2>2, <2>5 DEF DataInv
  <2>7. \A d \in Devices : written'[d] = Len(Existing(d)')
    BY <2>1, <2>3, <2>4, <2>6 DEF DataInv
  <2>8. <<>> \in Seq({})
    OBVIOUS
  <2>9. \A d \in Devices : \E T : buffers'[d] \in Seq(T)
    BY <2>5, <2>8 DEF DataInv
  <2>10. DOMAIN buffers' = Devices
    BY <2>5 DEF DataInv
  <2>11. QED
    BY <2>1, <2>4, <2>6, <2>7, <2>9, <2>10 DEF DataInv
<1>12. ASSUME NEW dev \in Devices, FlushBreaks(dev) PROVE DataInv'
  <2>1. PICK n \in 1 .. Len(buffers[dev]) - 1 :
          files' = WithFile(dev, Prefix(Appended(dev), Len(Existing(dev)) + n))
    BY <1>12 DEF FlushBreaks, Prefix
  <2>2. PICK S : buffers[dev] \in Seq(S)
    BY DEF DataInv
  <2>3. step = "flush" /\ Ends("failed")
    BY <1>12 DEF FlushBreaks
  <2>4. /\ InTime(Appended(dev))
        /\ Len(Appended(dev)) = Len(Existing(dev)) + Len(buffers[dev])
        /\ Len(Existing(dev)) \in Nat
    BY <2>2, <2>3, ExistingInTime, AppendInTime DEF Appended, DataInv
  <2>5. Len(Existing(dev)) + n \in 0 .. Len(Appended(dev))
    BY <2>2, <2>4
  <2>6. InTime(Prefix(Appended(dev), Len(Existing(dev)) + n))
    BY <2>4, <2>5, PrefixInTime
  <2>7. QED
    BY <2>1, <2>3, <2>6, FileReplaced, EndsInv
<1>13. CASE BreaksOff
  BY <1>13, EndsInv DEF BreaksOff, DataInv
<1>14. CASE DownloadBreaks
  BY <1>14, EndsInv DEF DownloadBreaks, DataInv
<1>15. CASE CleaningBreaks
  BY <1>15, EndsInv DEF CleaningBreaks, DataInv
<1>16. CASE RemovingBreaks
  <2>1. PICK kept \in SUBSET DOMAIN files : files' = [dev \in kept |-> files[dev]]
    BY <1>16 DEF RemovingBreaks
  <2>2. /\ DOMAIN files' \subseteq Devices
        /\ \A d \in DOMAIN files' : InTime(files'[d])
    BY <2>1 DEF DataInv
  <2>3. QED
    BY <1>16, <2>2, EndsInv DEF RemovingBreaks
<1>17. CASE ShuffleBreaks
  <2>1. PICK readings \in Shuffled(next), n \in 0 .. Len(files[next]) - 1 :
          files' = WithFile(next, Prefix(readings, n))
    BY <1>17 DEF ShuffleBreaks, Prefix
  <2>2. next \in DOMAIN files /\ next \in Devices /\ Ends("failed")
    BY <1>17 DEF ShuffleBreaks, DataInv
  <2>3. InTime(readings) /\ Len(readings) = Len(files[next]) /\ Len(files[next]) \in Nat
    BY <2>1, <2>2, ShuffledInTime
  <2>4. n \in 0 .. Len(readings)
    BY <2>3
  <2>5. InTime(Prefix(readings, n))
    BY <2>3, <2>4, PrefixInTime
  <2>6. QED
    BY <2>1, <2>2, <2>5, FileReplaced, EndsInv
<1>18. CASE UNCHANGED dataVars
  BY <1>18 DEF dataVars, DataInv, Existing
<1>19. QED
  BY <1>1, <1>2, <1>3, <1>4, <1>5, <1>6, <1>7, <1>8, <1>9, <1>10, <1>11, <1>12, <1>13,
     <1>14, <1>15, <1>16, <1>17, <1>18
  DEF DataNext, ContainerStep

(* Files that are in time are split between the producer and Spark.        *)
LEMMA InTimeIsSplit == DataInv => HeldOutNeverStreamed
<1> SUFFICES ASSUME DataInv, NEW dev \in DOMAIN files
             PROVE  /\ Streamed(dev) \cap HeldOut(dev) = {}
                    /\ Streamed(dev) \cup HeldOut(dev) = Range(files[dev])
  BY DEF HeldOutNeverStreamed
<1> DEFINE n == Len(files[dev])
<1>1. PICK S : files[dev] \in Seq(S)
  BY DEF DataInv, InTime
<1>2. n \in Nat /\ DOMAIN files[dev] = 1 .. n
  BY <1>1
<1>3. \A k \in 1 .. n : files[dev][k].time = k - 1
  BY <1>2 DEF DataInv, InTime
<1>4. STREAM_ROWS \in Nat
  BY PreparationAssumption
<1>5. Range(files[dev]) = {files[dev][k] : k \in 1 .. n}
  BY <1>2 DEF Range
<1>6. Streamed(dev) = {files[dev][k] : k \in {j \in 1 .. n : j <= STREAM_ROWS}}
  BY <1>2, <1>4 DEF Streamed
<1>7. HeldOut(dev) = {files[dev][k] : k \in {j \in 1 .. n : j > STREAM_ROWS}}
  <2>1. \A k \in 1 .. n : files[dev][k].time >= STREAM_ROWS <=> k > STREAM_ROWS
    BY <1>2, <1>3, <1>4
  <2>2. QED
    BY <1>5, <2>1 DEF HeldOut
<1>8. \A j, k \in 1 .. n : files[dev][j] = files[dev][k] => j = k
  BY <1>2, <1>3
<1>9. QED
  BY <1>2, <1>4, <1>5, <1>6, <1>7, <1>8

(* Whatever start and the machine do, the disk is changed by the           *)
(* container's own steps only.                                             *)
LEMMA DataRefined == [Next]_vars => [DataNext]_dataVars
<1> SUFFICES ASSUME [Next]_vars PROVE [DataNext]_dataVars
  OBVIOUS
<1>1. CASE StartStep
  BY <1>1, Zenon
  DEF StartStep, RunPreprocessor, SkipPreprocessor, Prepared, Down, RemoveContainers,
      StartServices, StartDatabaseInit, Up, KafkaReachable, KafkaNotReady, EnsureTopic,
      EnsureFails, TopicsReady, SubmitFlinkJob, SubmissionFails, SparkRuns,
      SparkCompletes, SparkSubmissionFails, DataNext
<1>2. CASE PreprocessorStep
  BY <1>2 DEF PreprocessorStep, DataNext
<1>3. CASE InitDatabase \/ InitDatabaseFails
  BY <1>3 DEF InitDatabase, InitDatabaseFails
<1>4. CASE Environment
  <2>1. CASE Interrupt
    BY <2>1 DEF Interrupt, DataNext, ContainerStep
  <2>2. CASE PrepareByHand
    BY <2>2 DEF PrepareByHand, DataNext
  <2>3. CASE Start \/ Reboot \/ SparkEnds
    BY <2>3 DEF Start, Reboot, SparkEnds
  <2>4. CASE \E topic \in TOPICS : AutoCreate(topic)
    BY <2>4 DEF AutoCreate
  <2>5. CASE \E service \in Services : ContainerDies(service)
    BY <2>5 DEF ContainerDies
  <2>6. QED
    BY <1>4, <2>1, <2>2, <2>3, <2>4, <2>5 DEF Environment
<1>5. CASE UNCHANGED vars
  BY <1>5 DEF vars
<1>6. QED
  BY <1>1, <1>2, <1>3, <1>4, <1>5 DEF Next

(* A start, its faults and the user's interruptions keep to the data       *)
(* preparation on its own.                                                 *)
THEOREM StartupPreparesData == Spec => DataSpec
<1>1. Init => DataInit
  BY DEF Init
<1>2. QED
  BY <1>1, DataRefined, PTL DEF Spec, DataSpec

(* For any number of devices, chunks and streamed rows, and after any runs *)
(* that broke off, what the producer streams of a file and what Spark      *)
(* evaluates on make up the file and have no reading in common.            *)
THEOREM EvaluatedOnUnseen == Spec => []HeldOutNeverStreamed
<1>1. DataSpec => []DataInv
  BY DataStart, DataStep, PTL DEF DataSpec
<1>2. QED
  BY <1>1, StartupPreparesData, InTimeIsSplit, PTL

-----------------------------------------------------------------------------
(* Completed runs.  A row goes to one buffer, from there to one file, and  *)
(* is shuffled within it: what a device has, in its file and its buffer    *)
(* together, enumerates the rows spread so far that are assigned to it.    *)

Enumerates(s, S) ==
    /\ s \in Seq(S)
    /\ \A x \in S : \E k \in DOMAIN s : s[k] = x
    /\ \A j, k \in DOMAIN s : s[j] = s[k] => j = k

LEMMA EnumeratesNothing == Enumerates(<<>>, {})
BY DEF Enumerates

LEMMA EnumeratesAppended ==
  ASSUME NEW S, NEW s, Enumerates(s, S), NEW x, x \notin S
  PROVE  Enumerates(Append(s, x), S \cup {x})
<1> DEFINE n == Len(s)
           t == Append(s, x)
<1>1. s \in Seq(S) /\ n \in Nat /\ DOMAIN s = 1 .. n
  BY DEF Enumerates
<1>2. s \in Seq(S \cup {x})
  BY <1>1, SeqMonotonic
<1>3. t \in Seq(S \cup {x}) /\ Len(t) = n + 1 /\ DOMAIN t = 1 .. n + 1
  BY <1>1, <1>2
<1>4. (\A k \in 1 .. n : t[k] = s[k]) /\ t[n + 1] = x
  BY <1>1, <1>2
<1>5. \A k \in 1 .. n : s[k] \in S
  BY <1>1
<1> HIDE DEF t
<1>6. \A y \in S \cup {x} : \E k \in 1 .. n + 1 : t[k] = y
  <2> TAKE y \in S \cup {x}
  <2>1. CASE y = x
    BY <1>1, <1>4, <2>1
  <2>2. CASE y \in S
    <3>1. PICK k \in 1 .. n : s[k] = y
      BY <1>1, <2>2 DEF Enumerates
    <3>2. k \in 1 .. n + 1 /\ t[k] = y
      BY <1>1, <1>4, <3>1
    <3>3. QED
      BY <3>2
  <2>3. QED
    BY <2>1, <2>2
<1>7. ASSUME NEW j \in 1 .. n + 1, NEW k \in 1 .. n + 1, t[j] = t[k] PROVE j = k
  <2>1. CASE j \in 1 .. n /\ k \in 1 .. n
    BY <1>1, <1>4, <1>7, <2>1 DEF Enumerates
  <2>2. CASE j = n + 1 /\ k \in 1 .. n
    BY <1>4, <1>5, <1>7, <2>2
  <2>3. CASE j \in 1 .. n /\ k = n + 1
    BY <1>4, <1>5, <1>7, <2>3
  <2>4. QED
    BY <1>1, <2>1, <2>2, <2>3
<1>8. Enumerates(t, S \cup {x})
  BY <1>3, <1>6, <1>7 DEF Enumerates
<1>9. QED
  BY <1>8 DEF t

(* An injection of a finite set into itself leaves nothing out.            *)
LEMMA EnumeratesShuffled ==
  ASSUME NEW S, NEW s, Enumerates(s, S),
         NEW p \in [DOMAIN s -> DOMAIN s], IsInjective(p)
  PROVE  Enumerates([k \in DOMAIN s |-> s[p[k]]], S)
<1> DEFINE D == DOMAIN s
           t == [k \in D |-> s[p[k]]]
<1>1. s \in Seq(S) /\ Len(s) \in Nat /\ D = 1 .. Len(s)
  BY DEF Enumerates
<1>2. IsFiniteSet(D)
  BY <1>1, FS_Interval
<1>3. p \in Injection(D, D)
  BY DEF Injection
<1>4. p \in Surjection(D, D)
  BY <1>2, <1>3, FS_Injection
<1>5. \A k \in D : \E j \in D : p[j] = k
  BY <1>4 DEF Surjection
<1>6. t \in Seq(S) /\ DOMAIN t = D
  BY <1>1
<1>7. ASSUME NEW x \in S PROVE \E k \in D : t[k] = x
  <2>1. PICK k \in D : s[k] = x
    BY DEF Enumerates
  <2>2. PICK j \in D : p[j] = k
    BY <1>5
  <2>3. QED
    BY <2>1, <2>2
<1>8. ASSUME NEW j \in D, NEW k \in D, t[j] = t[k] PROVE j = k
  <2>1. s[p[j]] = s[p[k]] /\ p[j] \in D /\ p[k] \in D
    BY <1>8
  <2>2. p[j] = p[k]
    BY <2>1 DEF Enumerates
  <2>3. QED
    BY <2>2 DEF IsInjective
<1> HIDE DEF t
<1>9. Enumerates(t, S)
  BY <1>6, <1>7, <1>8 DEF Enumerates
<1>10. QED
  BY <1>9 DEF t

LEMMA EnumeratesAll ==
  ASSUME NEW S, NEW s, Enumerates(s, S)
  PROVE  IsFiniteSet(S) /\ Cardinality(S) = Len(s) /\ Len(s) \in Nat
<1> DEFINE D == 1 .. Len(s)
<1>1. s \in Seq(S) /\ Len(s) \in Nat /\ DOMAIN s = D /\ s \in [D -> S]
  BY DEF Enumerates
<1>2. IsFiniteSet(D) /\ Cardinality(D) = Len(s)
  BY <1>1, FS_Interval
<1>3. s \in Bijection(D, S)
  BY <1>1 DEF Enumerates, Bijection, Injection, Surjection, IsInjective
<1>4. ExistsBijection(D, S)
  BY <1>3 DEF ExistsBijection
<1>5. IsFiniteSet(S) /\ Cardinality(S) = Cardinality(D)
  BY <1>2, <1>4, FS_Bijection
<1>6. QED
  BY <1>1, <1>2, <1>5

(* The rows of a file.                                                     *)
RowsIn(readings) == [k \in DOMAIN readings |-> readings[k].row]

LEMMA RowsInStamped ==
  ASSUME NEW S, NEW rows \in Seq(S), NEW start
  PROVE  RowsIn(Stamped(rows, start)) = rows
<1>1. rows = [k \in DOMAIN rows |-> rows[k]]
  OBVIOUS
<1>2. RowsIn(Stamped(rows, start)) = [k \in DOMAIN rows |-> rows[k]]
  BY DEF RowsIn, Stamped
<1>3. QED
  BY <1>1, <1>2

LEMMA RowsInAppended ==
  ASSUME NEW T, NEW readings \in Seq(T), NEW S, NEW rows \in Seq(S), NEW start
  PROVE  RowsIn(readings \o Stamped(rows, start)) = RowsIn(readings) \o rows
<1> DEFINE n == Len(readings)
           m == Len(rows)
           stamped == Stamped(rows, start)
           U == {stamped[k] : k \in 1 .. m}
           V == {readings[k].row : k \in 1 .. n}
<1>1. n \in Nat /\ m \in Nat /\ DOMAIN readings = 1 .. n /\ DOMAIN rows = 1 .. m
  OBVIOUS
<1>2. stamped = [k \in 1 .. m |-> [row |-> rows[k], time |-> start + k - 1]]
  BY <1>1 DEF Stamped
<1>3. stamped \in Seq(U) /\ Len(stamped) = m /\ \A k \in 1 .. m : stamped[k].row = rows[k]
  BY <1>1, <1>2
<1>4. RowsIn(readings) = [k \in 1 .. n |-> readings[k].row]
  BY <1>1 DEF RowsIn
<1>5. RowsIn(readings) \in Seq(V) /\ Len(RowsIn(readings)) = n
  BY <1>1, <1>4
<1> HIDE DEF n, m, stamped, U, V
<1>6. readings \in Seq(T \cup U) /\ stamped \in Seq(T \cup U)
  BY <1>3, SeqMonotonic
<1> DEFINE all == readings \o stamped
<1>7. /\ DOMAIN all = 1 .. n + m
      /\ \A k \in 1 .. n + m : all[k] = IF k <= n THEN readings[k] ELSE stamped[k - n]
  BY <1>1, <1>3, <1>6 DEF n
<1>8. RowsIn(readings) \in Seq(V \cup S) /\ rows \in Seq(V \cup S)
  BY <1>5, SeqMonotonic
<1> DEFINE both == RowsIn(readings) \o rows
<1>9. /\ both \in Seq(V \cup S) /\ Len(both) = n + m
      /\ \A k \in 1 .. n + m : both[k] = IF k <= n THEN RowsIn(readings)[k] ELSE rows[k - n]
  BY <1>1, <1>5, <1>8 DEF m
<1> HIDE DEF all, both
<1>10. ASSUME NEW k \in 1 .. n + m PROVE all[k].row = both[k]
  <2>1. CASE k <= n
    BY <1>1, <1>4, <1>7, <1>9, <2>1
  <2>2. CASE ~(k <= n)
    <3>1. k - n \in 1 .. m
      BY <1>1, <2>2
    <3>2. all[k].row = stamped[k - n].row /\ both[k] = rows[k - n]
      BY <1>7, <1>9, <2>2
    <3>3. QED
      BY <1>3, <3>1, <3>2
  <2>3. QED
    BY <2>1, <2>2
<1>11. both = [k \in 1 .. n + m |-> both[k]]
  BY <1>1, <1>9
<1>12. RowsIn(all) = [k \in 1 .. n + m |-> both[k]]
  BY <1>7, <1>10 DEF RowsIn
<1>13. QED
  BY <1>11, <1>12 DEF all, both, stamped

LEMMA AppendedLast ==
  ASSUME NEW S, NEW s \in Seq(S), NEW T, NEW t \in Seq(T), NEW x
  PROVE  Append(s \o t, x) = s \o Append(t, x)
<1> DEFINE U == S \cup T \cup {x}
           u == <<x>>
<1>1. S \subseteq U /\ T \subseteq U /\ x \in U /\ u \in Seq(U)
  OBVIOUS
<1> HIDE DEF U
<1>2. s \in Seq(U)
  BY <1>1, SeqMonotonic
<1>3. t \in Seq(U)
  BY <1>1, SeqMonotonic
<1>4. s \o t \in Seq(U)
  BY <1>2, <1>3, ConcatProperties
<1>5. Append(s \o t, x) = (s \o t) \o u
  BY <1>1, <1>4, AppendIsConcat
<1>6. Append(t, x) = t \o u
  BY <1>1, <1>3, AppendIsConcat
<1> HIDE DEF u
<1>7. (s \o t) \o u = s \o (t \o u)
  BY <1>1, <1>2, <1>3, ConcatAssociative
<1>8. QED
  BY <1>5, <1>6, <1>7

(* Chunks that are all there are read in order.                            *)
LEMMA PairsInOrder ==
  ASSUME NEW n \in Nat, xChunks = 1 .. n, yChunks = 1 .. n
  PROVE  Pairs = [k \in 1 .. n |-> k] /\ Len(Pairs) = n
<1>1. Paired = 1 .. n
  BY DEF Paired
<1>2. ASSUME NEW c \in 1 .. n PROVE Cardinality({e \in Paired : e <= c}) = c
  <2>1. {e \in Paired : e <= c} = 1 .. c
    BY <1>1
  <2>2. c \in Int /\ c >= 1 /\ 1 \in Int
    OBVIOUS
  <2>3. Cardinality(1 .. c) = c
    BY <2>2, FS_Interval
  <2>4. QED
    BY <2>1, <2>3
<1>3. ASSUME NEW k \in 1 .. n
      PROVE  (CHOOSE c \in Paired : Cardinality({e \in Paired : e <= c}) = k) = k
  BY <1>1, <1>2
<1>4. Cardinality(Paired) = n
  <2>1. n \in Int /\ n >= 0 /\ 1 \in Int
    OBVIOUS
  <2>2. Cardinality(1 .. n) = n
    BY <2>1, FS_Interval
  <2>3. QED
    BY <1>1, <2>2
<1>5. Pairs = [k \in 1 .. n |-> k]
  BY <1>3, <1>4 DEF Pairs
<1>6. QED
  BY <1>5

-----------------------------------------------------------------------------
(* Rows dealt in turns.                                                    *)

LEMMA ModUnique ==
    ASSUME NEW x \in Int, NEW m \in Nat \ {0}, NEW q \in Int, NEW r \in 0 .. m - 1,
           x = q * m + r
    PROVE  x % m = r
<1> DEFINE d == x \div m
           s == x % m
<1>1. x = d * m + s /\ d \in Int /\ s \in 0 .. m - 1
  OBVIOUS
<1> HIDE DEF d, s
<1>2. (d - q) * m = r - s /\ (q - d) * m = s - r
  BY <1>1
<1>3. ASSUME NEW k \in Int, k >= 1 PROVE k * m >= m
  BY <1>3
<1>4. ~(d - q >= 1) /\ ~(q - d >= 1)
  BY <1>1, <1>2, <1>3
<1>5. d = q
  BY <1>1, <1>4
<1>6. s = r
  BY <1>1, <1>5
<1>7. QED
  BY <1>6 DEF s

Turns(n, dev) == {k \in 1 .. n : (k - 1) % NUM_DEVICES = dev}

LEMMA TurnsFinite ==
  ASSUME NEW n \in Nat, NEW dev
  PROVE  IsFiniteSet(Turns(n, dev)) /\ Cardinality(Turns(n, dev)) \in Nat
<1>1. IsFiniteSet(1 .. n)
  BY FS_Interval
<1>2. Turns(n, dev) \subseteq 1 .. n
  BY DEF Turns
<1>3. IsFiniteSet(Turns(n, dev))
  BY <1>1, <1>2, FS_Subset
<1>4. QED
  BY <1>3, FS_CardinalityType

(* Every turn of d but the first follows one of e.                         *)
LEMMA TurnsBalanced ==
  ASSUME NEW n \in Nat, NEW d \in Devices, NEW e \in Devices
  PROVE  Cardinality(Turns(n, d)) <= Cardinality(Turns(n, e)) + 1
<1> DEFINE D == NUM_DEVICES
           later == Turns(n, d) \ {d + 1}
           f == [k \in later |-> k - D + e - d]
<1>1. D \in Nat \ {0} /\ d \in 0 .. D - 1 /\ e \in 0 .. D - 1
  BY PreparationAssumption DEF Devices
<1>2. ASSUME NEW k \in later PROVE k - D + e - d \in Turns(n, e)
  <2>1. k \in 1 .. n /\ (k - 1) % D = d /\ k # d + 1
    BY DEF Turns
  <2>2. PICK q \in Int : k - 1 = q * D + d
    <3>1. (k - 1) \div D \in Int
      BY <1>1, <2>1
    <3>2. k - 1 = ((k - 1) \div D) * D + d
      BY <1>1, <2>1
    <3>3. QED
      BY <3>1, <3>2
  <2> HIDE DEF D
  <2>3. q >= 1
    <3>1. q # 0
      BY <1>1, <2>1, <2>2
    <3>2. ASSUME q <= -1 PROVE q * D <= -D
      BY <1>1, <3>2
    <3>3. ~(q <= -1)
      BY <1>1, <2>1, <2>2, <3>2
    <3>4. QED
      BY <3>1, <3>3
  <2>4. (q - 1) * D >= 0 /\ (q - 1) * D = q * D - D
    BY <1>1, <2>3
  <2> DEFINE j == k - D + e - d
  <2>5. j \in Int /\ j - 1 \in Int /\ q - 1 \in Int /\ j - 1 = (q - 1) * D + e
    BY <1>1, <2>1, <2>2, <2>4
  <2>6. j \in 1 .. n
    BY <1>1, <2>1, <2>4, <2>5
  <2>7. (j - 1) % D = e
    BY <1>1, <2>5, ModUnique
  <2>8. QED
    BY <2>6, <2>7 DEF Turns, D
<1>3. f \in Injection(later, Turns(n, e))
  <2>1. f \in [later -> Turns(n, e)]
    BY <1>2
  <2>2. ASSUME NEW j \in later, NEW k \in later, f[j] = f[k] PROVE j = k
    <3>1. j \in Int /\ k \in Int
      BY DEF Turns
    <3>2. j - D + e - d = k - D + e - d
      BY <2>2
    <3>3. QED
      BY <1>1, <3>1, <3>2
  <2>3. QED
    BY <2>1, <2>2 DEF Injection, IsInjective
<1>4. IsFiniteSet(Turns(n, d)) /\ IsFiniteSet(Turns(n, e))
  BY TurnsFinite
<1>5. Cardinality(later) <= Cardinality(Turns(n, e))
  BY <1>3, <1>4, FS_Injection
<1>6. Cardinality(later) = IF d + 1 \in Turns(n, d) THEN Cardinality(Turns(n, d)) - 1
                                                    ELSE Cardinality(Turns(n, d))
  BY <1>4, FS_RemoveElement
<1>7. Cardinality(Turns(n, d)) \in Nat /\ Cardinality(Turns(n, e)) \in Nat
  BY TurnsFinite
<1> HIDE DEF later
<1>8. QED
  BY <1>5, <1>6, <1>7

-----------------------------------------------------------------------------
(* What a completed run leaves.                                            *)

Total == raw * CHUNK_ROWS

(* The rows among the first n that a deals to dev.                         *)
Share(a, n, dev) == {k \in 1 .. n : a[k] = dev}

FairDeal(a) ==
    /\ a \in [1 .. Total -> Devices]
    /\ \A dev \in Devices : Cardinality(Share(a, Total, dev)) = Cardinality(Turns(Total, dev))

Dealt(a) ==
    /\ FairDeal(a)
    /\ \A dev \in Devices : Enumerates(RowsIn(Existing(dev)), Share(a, Total, dev))

LEMMA DealtIsWhole ==
  ASSUME DataInv, raw \in 0 .. CHUNKS, NEW a, Dealt(a), result = "completed"
  PROVE  CompletedRunIsWhole
<1>1. PICK n \in Nat : n = Total
  <2>1. Total \in Nat
    BY PreparationAssumption DEF Total
  <2>2. QED
    BY <2>1
<1>2. n <= CHUNKS * CHUNK_ROWS /\ CHUNKS * CHUNK_ROWS \in Nat
  <2>1. PICK c \in 0 .. CHUNKS : c = raw
    OBVIOUS
  <2>2. CHUNKS \in Nat /\ CHUNK_ROWS \in Nat
    BY PreparationAssumption
  <2>3. (CHUNKS - c) * CHUNK_ROWS >= 0
    BY <2>1, <2>2
  <2>4. (CHUNKS - c) * CHUNK_ROWS = CHUNKS * CHUNK_ROWS - c * CHUNK_ROWS
    BY <2>1, <2>2
  <2>5. n = c * CHUNK_ROWS
    BY <1>1, <2>1 DEF Total
  <2>6. c * CHUNK_ROWS \in Int /\ CHUNKS * CHUNK_ROWS \in Nat
    BY <2>1, <2>2
  <2>7. QED
    BY <2>3, <2>4, <2>5, <2>6
<1>3. ASSUME NEW dev \in Devices
      PROVE  /\ DOMAIN Existing(dev) = 1 .. Len(Existing(dev))
             /\ Len(Existing(dev)) = Cardinality(Turns(n, dev))
             /\ Len(Existing(dev)) \in 0 .. n
  <2>1. PICK S : Existing(dev) \in Seq(S)
    BY ExistingInTime DEF InTime
  <2>2. DOMAIN Existing(dev) = 1 .. Len(Existing(dev)) /\ Len(Existing(dev)) \in Nat
    BY <2>1
  <2>3. Len(RowsIn(Existing(dev))) = Len(Existing(dev))
    BY <2>2 DEF RowsIn
  <2>4. Enumerates(RowsIn(Existing(dev)), Share(a, n, dev))
    BY <1>1 DEF Dealt
  <2>5. Cardinality(Share(a, n, dev)) = Len(Existing(dev))
    BY <2>3, <2>4, EnumeratesAll
  <2>6. Share(a, n, dev) \subseteq 1 .. n /\ IsFiniteSet(1 .. n) /\ Cardinality(1 .. n) = n
    BY FS_Interval DEF Share
  <2>7. Cardinality(Share(a, n, dev)) <= n
    BY <2>6, FS_Subset
  <2>8. Cardinality(Share(a, n, dev)) = Cardinality(Turns(n, dev))
    BY <1>1 DEF Dealt, FairDeal
  <2>9. QED
    BY <2>2, <2>5, <2>7, <2>8
<1>4. ASSUME NEW r \in 1 .. n
      PROVE  Cardinality({place \in Devices \X (1 .. CHUNKS * CHUNK_ROWS) :
                              place[2] \in Holding(place[1], r)}) = 1
  <2> DEFINE places == {place \in Devices \X (1 .. CHUNKS * CHUNK_ROWS) :
                           place[2] \in Holding(place[1], r)}
  <2>1. \A dev \in Devices : Enumerates(RowsIn(Existing(dev)), Share(a, n, dev))
    BY <1>1 DEF Dealt
  <2>2. a[r] \in Devices
    BY <1>1 DEF Dealt, FairDeal
  <2>3. PICK k \in DOMAIN RowsIn(Existing(a[r])) : RowsIn(Existing(a[r]))[k] = r
    <3>1. r \in Share(a, n, a[r])
      BY DEF Share
    <3>2. QED
      BY <2>1, <2>2, <3>1 DEF Enumerates
  <2>4. k \in 1 .. CHUNKS * CHUNK_ROWS /\ k \in Holding(a[r], r)
    <3>1. k \in DOMAIN Existing(a[r]) /\ Existing(a[r])[k].row = r
      BY <2>3 DEF RowsIn
    <3>2. k \in 1 .. Len(Existing(a[r])) /\ Len(Existing(a[r])) \in 0 .. n
      BY <1>3, <2>2, <3>1
    <3>3. QED
      BY <1>2, <3>1, <3>2 DEF Holding
  <2>5. ASSUME NEW dev \in Devices, NEW j \in Holding(dev, r) PROVE dev = a[r] /\ j = k
    <3>1. j \in DOMAIN RowsIn(Existing(dev)) /\ RowsIn(Existing(dev))[j] = r
      BY DEF Holding, RowsIn
    <3>2. r \in Share(a, n, dev)
      <4>1. RowsIn(Existing(dev)) \in Seq(Share(a, n, dev))
        BY <2>1 DEF Enumerates
      <4>2. QED
        BY <3>1, <4>1
    <3>3. dev = a[r]
      BY <3>2 DEF Share
    <3>4. QED
      BY <2>1, <2>3, <3>1, <3>3 DEF Enumerates
  <2>6. places = {<<a[r], k>>}
    BY <2>2, <2>4, <2>5
  <2>7. QED
    BY <2>6, FS_Singleton
<1>5. ASSUME NEW d \in Devices, NEW e \in Devices
      PROVE  Len(Existing(d)) - Len(Existing(e)) \in -1 .. 1
  <2>1. /\ Cardinality(Turns(n, d)) <= Cardinality(Turns(n, e)) + 1
        /\ Cardinality(Turns(n, e)) <= Cardinality(Turns(n, d)) + 1
    BY TurnsBalanced
  <2>2. QED
    BY <1>3, <2>1
<1>6. QED
  BY <1>1, <1>4, <1>5 DEF CompletedRunIsWhole, Total

-----------------------------------------------------------------------------
(* How a run gets there.                                                   *)

(* The chunks on disk while they are written, and all of them once they    *)
(* are read: what an earlier run left has been removed.                    *)
ChunksInv ==
    /\ raw \in 0 .. CHUNKS
    /\ step \notin {"idle", "download"} => raw >= 1
    /\ step \notin {"load", "flush", "shuffle"} => row = 1 /\ buffers = NoBuffers
    /\ step \in {"idle", "download", "clean", "assign"} => chunk = 1
    /\ step = "x" => chunk \in 1 .. raw /\ xChunks = 1 .. chunk - 1 /\ yChunks = 1 .. chunk - 1
    /\ step = "y" => chunk \in 1 .. raw /\ xChunks = 1 .. chunk /\ yChunks = 1 .. chunk - 1
    /\ step \in {"assign", "load", "flush", "shuffle"} => xChunks = 1 .. raw /\ yChunks = 1 .. raw

(* How many rows have been spread.                                         *)
Spread == IF step = "load" THEN Offset + row - 1 ELSE chunk * CHUNK_ROWS

SpreadInv ==
    /\ step \in {"load", "flush", "shuffle"} =>
        /\ chunk \in 1 .. raw
        /\ FairDeal(assignment)
        /\ \A dev \in Devices :
              Enumerates(RowsIn(Existing(dev)) \o buffers[dev], Share(assignment, Spread, dev))
    /\ step = "load" => row \in 1 .. CHUNK_ROWS
    /\ step \in {"flush", "shuffle"} => row = 1
    /\ step = "shuffle" => buffers = NoBuffers /\ chunk = raw

EndInv == result = "completed" => step = "idle" /\ \E a : Dealt(a)

WholeInv == ChunksInv /\ SpreadInv /\ EndInv

LEMMA WholeStart == DataInit => WholeInv
BY PreparationAssumption DEF DataInit, WholeInv, ChunksInv, SpreadInv, EndInv

LEMMA EndsWhole ==
  ASSUME NEW outcome, Ends(outcome), raw' \in 0 .. CHUNKS
  PROVE  ChunksInv' /\ SpreadInv'
BY DEF Ends, ChunksInv, SpreadInv, NoBuffers, Devices

LEMMA ChunksStep == DataInv /\ WholeInv /\ [DataNext]_dataVars => ChunksInv'
<1> SUFFICES ASSUME DataInv, WholeInv, [DataNext]_dataVars PROVE ChunksInv'
  OBVIOUS
<1> USE DEF disk, converter
<1>0. ChunksInv /\ CHUNKS \in Nat \ {0} /\ NoBuffers' = NoBuffers
  BY PreparationAssumption DEF WholeInv, NoBuffers, Devices
<1> HIDE DEF NoBuffers
<1>1. CASE RunContainer
  BY <1>0, <1>1 DEF RunContainer, ChunksInv
<1>2. CASE Download
  BY <1>0, <1>2 DEF Download, ChunksInv
<1>3. CASE RemoveStaleChunks
  BY <1>0, <1>3 DEF RemoveStaleChunks, ChunksInv
<1>4. CASE SaveX
  <2>1. /\ step' = "y" /\ UNCHANGED <<raw, yChunks, chunk, row, buffers>>
        /\ xChunks' = (1 .. chunk - 1) \cup {chunk}
        /\ chunk \in 1 .. raw /\ raw \in 0 .. CHUNKS
    BY <1>0, <1>4 DEF SaveX, ChunksInv
  <2>2. xChunks' = 1 .. chunk
    BY <2>1
  <2>3. QED
    BY <1>0, <1>4, <2>1, <2>2 DEF SaveX, ChunksInv
<1>5. CASE SaveY
  <2>1. /\ UNCHANGED <<raw, xChunks, row, buffers>>
        /\ yChunks' = (1 .. chunk - 1) \cup {chunk} /\ xChunks = 1 .. chunk
        /\ chunk \in 1 .. raw /\ raw \in 0 .. CHUNKS
    BY <1>0, <1>5 DEF SaveY, ChunksInv
  <2>2. yChunks' = 1 .. chunk
    BY <2>1
  <2>3. CASE chunk < raw
    <3>1. step' = "x" /\ chunk' = chunk + 1
      BY <1>5, <2>3 DEF SaveY
    <3>2. chunk' \in 1 .. raw /\ chunk' - 1 = chunk
      BY <2>1, <2>3, <3>1
    <3>3. QED
      BY <1>0, <1>5, <2>1, <2>2, <3>1, <3>2 DEF SaveY, ChunksInv
  <2>4. CASE ~(chunk < raw)
    <3>1. step' = "assign" /\ chunk' = 1 /\ chunk = raw
      BY <1>5, <2>1, <2>4 DEF SaveY
    <3>2. QED
      BY <1>0, <1>5, <2>1, <2>2, <3>1 DEF SaveY, ChunksInv
  <2>5. QED
    BY <2>3, <2>4
<1>6. CASE Assign \/ SpreadRow \/ Flushed \/ \E dev \in Devices : FlushDevice(dev)
  BY <1>0, <1>6 DEF Assign, SpreadRow, Flushed, FlushDevice, ChunksInv
<1>7. CASE ShuffleDevice \/ NoFileToShuffle
  BY <1>0, <1>7, EndsWhole DEF ShuffleDevice, NoFileToShuffle, AfterShuffle, ChunksInv
<1>8. CASE BreaksOff \/ DownloadBreaks \/ CleaningBreaks \/ RemovingBreaks \/ ShuffleBreaks
             \/ \E dev \in Devices : FlushBreaks(dev)
  <2>1. Ends("failed") /\ raw' \in 0 .. CHUNKS
    BY <1>0, <1>8 DEF BreaksOff, DownloadBreaks, CleaningBreaks, RemovingBreaks, ShuffleBreaks,
                      FlushBreaks, ChunksInv
  <2>2. QED
    BY <2>1, EndsWhole
<1>9. CASE UNCHANGED dataVars
  BY <1>0, <1>9 DEF dataVars, ChunksInv
<1>10. QED
  BY <1>1, <1>2, <1>3, <1>4, <1>5, <1>6, <1>7, <1>8, <1>9 DEF DataNext, ContainerStep

LEMMA BuffersEmpty ==
  ASSUME NEW dev \in Devices
  PROVE  NoBuffers[dev] = <<>>
BY DEF NoBuffers

LEMMA RowsInIsSeq ==
  ASSUME DataInv, NEW dev \in Devices
  PROVE  \E S : RowsIn(Existing(dev)) \in Seq(S)
<1>1. PICK T : Existing(dev) \in Seq(T)
  BY ExistingInTime DEF InTime
<1> DEFINE n == Len(Existing(dev))
           S == {Existing(dev)[k].row : k \in 1 .. n}
<1>2. n \in Nat /\ DOMAIN Existing(dev) = 1 .. n
  BY <1>1
<1>3. RowsIn(Existing(dev)) \in Seq(S)
  BY <1>2 DEF RowsIn
<1>4. QED
  BY <1>3

(* When the shuffling begins everything is in the files, and it stays.     *)
LEMMA AllInFiles ==
  ASSUME DataInv, WholeInv, step = "shuffle"
  PROVE  Dealt(assignment)
<1>1. /\ FairDeal(assignment) /\ buffers = NoBuffers /\ Spread = Total
      /\ \A dev \in Devices :
            Enumerates(RowsIn(Existing(dev)) \o buffers[dev], Share(assignment, Spread, dev))
  BY DEF WholeInv, SpreadInv, Spread, Total
<1>2. ASSUME NEW dev \in Devices
      PROVE  Enumerates(RowsIn(Existing(dev)), Share(assignment, Total, dev))
  <2>1. PICK S : RowsIn(Existing(dev)) \in Seq(S)
    BY RowsInIsSeq
  <2>2. RowsIn(Existing(dev)) \o buffers[dev] = RowsIn(Existing(dev))
    BY <1>1, <2>1, BuffersEmpty, ConcatEmptySeq
  <2>3. QED
    BY <1>1, <2>2
<1>3. QED
  BY <1>1, <1>2 DEF Dealt

LEMMA Reshuffled ==
  ASSUME DataInv, WholeInv, ShuffleDevice, NEW dev \in Devices
  PROVE  Enumerates(RowsIn(Existing(dev)'), Share(assignment, Total, dev))
<1>1. PICK readings \in Shuffled(next) : files' = WithFile(next, readings)
  BY DEF ShuffleDevice
<1>2. step = "shuffle" /\ next \in DOMAIN files /\ next \in Devices
  BY DEF ShuffleDevice, DataInv
<1>3. Enumerates(RowsIn(Existing(dev)), Share(assignment, Total, dev))
  BY <1>2, AllInFiles DEF Dealt
<1>4. InTime(readings)
  BY <1>1, <1>2, ShuffledInTime
<1>5. Existing(dev)' = IF dev = next THEN readings ELSE Existing(dev)
  BY <1>1, <1>2, <1>4, FileReplaced
<1>6. CASE dev = next
  <2> DEFINE s == RowsIn(files[next])
  <2>1. Existing(dev) = files[next]
    BY <1>2, <1>6 DEF Existing
  <2>2. DOMAIN s = DOMAIN files[next] /\ \A k \in DOMAIN s : s[k] = files[next][k].row
    BY DEF RowsIn
  <2>3. PICK p \in [DOMAIN s -> DOMAIN s] :
          IsInjective(p) /\ readings = Stamped([k \in DOMAIN s |-> files[next][p[k]].row], 0)
    BY <1>1, <2>2 DEF Shuffled
  <2> HIDE DEF s
  <2> DEFINE t == [k \in DOMAIN s |-> s[p[k]]]
  <2>4. [k \in DOMAIN s |-> files[next][p[k]].row] = t
    BY <2>2, <2>3
  <2>5. Enumerates(t, Share(assignment, Total, dev))
    BY <1>3, <2>1, <2>3, EnumeratesShuffled DEF s
  <2>6. t \in Seq(Share(assignment, Total, dev))
    BY <2>5 DEF Enumerates
  <2>7. RowsIn(readings) = t
    BY <2>3, <2>4, <2>6, RowsInStamped
  <2>8. QED
    BY <1>5, <1>6, <2>5, <2>7
<1>7. CASE dev # next
  BY <1>3, <1>5, <1>7
<1>8. QED
  BY <1>6, <1>7

LEMMA EndStep == DataInv /\ WholeInv /\ [DataNext]_dataVars => EndInv'
<1> SUFFICES ASSUME DataInv, WholeInv, [DataNext]_dataVars PROVE EndInv'
  OBVIOUS
<1> USE DEF disk, converter
<1>1. step # "idle" => result # "completed"
  BY DEF WholeInv, EndInv
<1>2. CASE RunContainer
  BY <1>2 DEF RunContainer, EndInv
<1>3. CASE Download \/ RemoveStaleChunks \/ SaveX \/ SaveY
  BY <1>1, <1>3 DEF Download, RemoveStaleChunks, SaveX, SaveY, EndInv
<1>4. CASE Assign \/ SpreadRow \/ Flushed \/ \E dev \in Devices : FlushDevice(dev)
  BY <1>1, <1>4 DEF Assign, SpreadRow, Flushed, FlushDevice, EndInv
<1>5. CASE ShuffleDevice \/ NoFileToShuffle
  <2>1. step = "shuffle" /\ raw' = raw
    BY <1>5 DEF ShuffleDevice, NoFileToShuffle
  <2>2. CASE Ends("completed")
    <3>1. PICK a : a = assignment
      OBVIOUS
    <3>2. Dealt(a)
      BY <2>1, <3>1, AllInFiles
    <3>3. FairDeal(a)'
      BY <2>1, <3>2 DEF Dealt, FairDeal, Total, Share, Turns, Devices
    <3>4. ASSUME NEW dev \in Devices
          PROVE  Enumerates(RowsIn(Existing(dev)'), Share(a, Total, dev))
      <4>1. CASE ShuffleDevice
        BY <3>1, <4>1, Reshuffled
      <4>2. CASE NoFileToShuffle
        <5>1. Existing(dev)' = Existing(dev)
          BY <4>2 DEF NoFileToShuffle, Existing
        <5>2. QED
          BY <3>2, <5>1 DEF Dealt
      <4>3. QED
        BY <1>5, <4>1, <4>2
    <3>5. Total' = Total
      BY <2>1 DEF Total
    <3>6. Dealt(a)'
      BY <3>3, <3>4, <3>5 DEF Dealt
    <3>7. QED
      BY <2>2, <3>6 DEF Ends, EndInv
  <2>3. CASE UNCHANGED <<step, result>>
    BY <1>1, <2>1, <2>3 DEF EndInv
  <2>4. QED
    BY <1>5, <2>2, <2>3 DEF ShuffleDevice, NoFileToShuffle, AfterShuffle
<1>6. CASE BreaksOff \/ DownloadBreaks \/ CleaningBreaks \/ RemovingBreaks \/ ShuffleBreaks
             \/ \E dev \in Devices : FlushBreaks(dev)
  <2>1. Ends("failed")
    BY <1>6 DEF BreaksOff, DownloadBreaks, CleaningBreaks, RemovingBreaks, ShuffleBreaks, FlushBreaks
  <2>2. QED
    BY <2>1 DEF Ends, EndInv
<1>7. CASE UNCHANGED dataVars
  <2>1. UNCHANGED <<raw, files, step, result>>
    BY <1>7 DEF dataVars
  <2>2. \A a : Dealt(a)' = Dealt(a)
    BY <2>1 DEF Dealt, FairDeal, Total, Existing, Devices, Turns
  <2>3. QED
    BY <2>1, <2>2 DEF WholeInv, EndInv
<1>8. QED
  BY <1>2, <1>3, <1>4, <1>5, <1>6, <1>7 DEF DataNext, ContainerStep

Held(dev) == RowsIn(Existing(dev)) \o buffers[dev]

LEMMA PairsRead ==
  ASSUME ChunksInv, step \in {"assign", "load", "flush", "shuffle"}
  PROVE  /\ Len(Pairs) = raw /\ TotalSamples = Total
         /\ \A c \in 1 .. raw : Pairs[c] = c
<1>1. PICK n \in Nat : n = raw
  BY PreparationAssumption DEF ChunksInv
<1>2. xChunks = 1 .. n /\ yChunks = 1 .. n
  BY <1>1 DEF ChunksInv
<1>3. Pairs = [k \in 1 .. n |-> k] /\ Len(Pairs) = n
  BY <1>2, PairsInOrder
<1>4. QED
  BY <1>1, <1>3 DEF TotalSamples, Total

LEMMA AssignSpreads == DataInv /\ WholeInv /\ Assign => SpreadInv'
<1> SUFFICES ASSUME DataInv, WholeInv, Assign PROVE SpreadInv'
  OBVIOUS
<1>1. /\ step = "assign" /\ step' = "load" /\ ChunksInv
      /\ chunk = 1 /\ chunk' = 1 /\ row = 1 /\ row' = 1 /\ raw' = raw /\ raw \in 1 .. CHUNKS
      /\ buffers' = NoBuffers /\ files' = <<>>
  BY PreparationAssumption DEF Assign, WholeInv, ChunksInv, StaleRemoved
<1>2. PICK a : a = assignment'
  OBVIOUS
<1>3. FairDeal(a)
  <2>1. a \in Balanced
    BY <1>2 DEF Assign
  <2>2. TotalSamples = Total
    BY <1>1, PairsRead
  <2>3. QED
    BY <2>1, <2>2 DEF Balanced, FairDeal, Share, Turns
<1>4. FairDeal(a)'
  BY <1>1, <1>3 DEF FairDeal, Total, Share, Turns, Devices
<1>5. Spread' = 0
  BY <1>1, PreparationAssumption DEF Spread, Offset
<1>6. ASSUME NEW dev \in Devices PROVE Enumerates(Held(dev)', Share(a, Spread', dev))
  <2>1. Existing(dev)' = <<>>
    BY <1>1 DEF Existing
  <2>2. RowsIn(<<>>) = <<>>
    <3>1. RowsIn(<<>>) \in Seq({}) /\ Len(RowsIn(<<>>)) = 0
      BY DEF RowsIn
    <3>2. QED
      BY <3>1, EmptySeq
  <2>3. Held(dev)' = <<>>
    BY <1>1, <2>1, <2>2, BuffersEmpty, EmptySeq, ConcatEmptySeq DEF Held
  <2>4. Share(a, Spread', dev) = {}
    BY <1>5 DEF Share
  <2>5. QED
    BY <2>3, <2>4, EnumeratesNothing
<1>7. row' \in 1 .. CHUNK_ROWS /\ chunk' \in 1 .. raw'
  BY <1>1, PreparationAssumption
<1>8. QED
  BY <1>1, <1>2, <1>4, <1>6, <1>7 DEF SpreadInv, Held

LEMMA SpreadRowSpreads == DataInv /\ WholeInv /\ SpreadRow => SpreadInv'
<1> SUFFICES ASSUME DataInv, WholeInv, SpreadRow PROVE SpreadInv'
  OBVIOUS
<1>1. /\ step = "load" /\ ChunksInv /\ chunk \in 1 .. raw /\ row \in 1 .. CHUNK_ROWS
      /\ raw \in 0 .. CHUNKS /\ FairDeal(assignment)
      /\ UNCHANGED <<raw, files, assignment>>
  BY DEF SpreadRow, WholeInv, ChunksInv, SpreadInv, disk
<1>2. Len(Pairs) = raw /\ Pairs[chunk] = chunk
  BY <1>1, PairsRead
<1>3. CHUNKS \in Nat \ {0} /\ CHUNK_ROWS \in Nat \ {0} /\ raw \in Nat /\ chunk \in Nat /\ row \in Nat
  BY <1>1, PreparationAssumption
<1>4. PICK r : r = Offset + row
  OBVIOUS
<1>5. PICK offset \in Nat : offset = Offset
  <2>1. Offset \in Nat
    BY <1>1, <1>3 DEF Offset
  <2>2. QED
    BY <2>1
<1>6. r \in 1 .. Total /\ Spread = r - 1 /\ RowAt(row) = r
  <2>1. (raw - chunk) * CHUNK_ROWS >= 0
    BY <1>1, <1>3
  <2>2. (raw - chunk) * CHUNK_ROWS = Total - offset - CHUNK_ROWS
    <3>1. /\ (raw - chunk) * CHUNK_ROWS = raw * CHUNK_ROWS - chunk * CHUNK_ROWS
          /\ (chunk - 1) * CHUNK_ROWS = chunk * CHUNK_ROWS - CHUNK_ROWS
      BY <1>3
    <3>2. chunk * CHUNK_ROWS \in Int /\ raw * CHUNK_ROWS \in Int
      BY <1>3
    <3>3. Total = raw * CHUNK_ROWS /\ offset = (chunk - 1) * CHUNK_ROWS
      BY <1>5 DEF Total, Offset
    <3>4. QED
      BY <1>3, <3>1, <3>2, <3>3
  <2>3. Total \in Nat
    BY <1>3 DEF Total
  <2>4. r \in 1 .. Total
    BY <1>1, <1>3, <1>4, <1>5, <2>1, <2>2, <2>3
  <2>5. Spread = r - 1
    BY <1>1, <1>3, <1>4, <1>5 DEF Spread
  <2>6. RowAt(row) = r
    BY <1>2, <1>4 DEF RowAt, Offset
  <2>7. QED
    BY <2>4, <2>5, <2>6
<1>7. /\ step' \in {"load", "flush"} /\ chunk' \in 1 .. raw /\ row' \in 1 .. CHUNK_ROWS
      /\ step' = "flush" => row' = 1
      /\ Spread' = r
  <2>1. CASE row < CHUNK_ROWS
    <3>1. row' = row + 1 /\ UNCHANGED <<step, chunk>>
      BY <2>1 DEF SpreadRow
    <3>2. Spread' = offset + (row + 1) - 1
      BY <1>1, <1>5, <3>1 DEF Spread, Offset
    <3>3. QED
      BY <1>1, <1>3, <1>4, <1>5, <2>1, <3>1, <3>2
  <2>2. CASE ~(row < CHUNK_ROWS)
    <3>1. row' = 1 /\ row = CHUNK_ROWS
      BY <1>1, <1>3, <2>2 DEF SpreadRow
    <3>2. chunk * CHUNK_ROWS = r
      BY <1>3, <1>4, <3>1 DEF Offset
    <3>3. CASE step' = "flush" /\ chunk' = chunk
      BY <1>1, <1>3, <3>1, <3>2, <3>3 DEF Spread
    <3>4. CASE step' = "load" /\ chunk' = chunk + 1 /\ chunk # Len(Pairs)
      <4>1. chunk' \in 1 .. raw
        BY <1>1, <1>2, <1>3, <3>4
      <4>2. chunk' - 1 = chunk
        BY <1>3, <3>4
      <4>3. Spread' = chunk * CHUNK_ROWS + 1 - 1
        BY <3>1, <3>4, <4>2 DEF Spread, Offset
      <4>4. Spread' = r
        BY <1>3, <1>4, <1>5, <3>2, <4>3
      <4>5. QED
        BY <1>3, <3>1, <3>4, <4>1, <4>4
    <3>5. QED
      BY <2>2, <3>3, <3>4 DEF SpreadRow
  <2>3. QED
    BY <2>1, <2>2
<1>8. /\ assignment[r] \in Devices
      /\ buffers' = [buffers EXCEPT ![assignment[r]] = Append(@, r)]
  BY <1>1, <1>4, <1>6 DEF SpreadRow, FairDeal
<1>9. ASSUME NEW dev \in Devices PROVE Enumerates(Held(dev)', Share(assignment, r, dev))
  <2>1. Enumerates(Held(dev), Share(assignment, r - 1, dev))
    BY <1>1, <1>6 DEF WholeInv, SpreadInv, Held
  <2>2. Existing(dev)' = Existing(dev)
    BY <1>1 DEF Existing
  <2>3. r \in Int /\ r >= 1
    BY <1>6
  <2>4. CASE dev = assignment[r]
    <3>1. Share(assignment, r, dev) = Share(assignment, r - 1, dev) \cup {r}
      BY <2>3, <2>4 DEF Share
    <3>2. r \notin Share(assignment, r - 1, dev)
      BY <2>3 DEF Share
    <3>3. Held(dev)' = Append(Held(dev), r)
      <4>1. PICK S, T : RowsIn(Existing(dev)) \in Seq(S) /\ buffers[dev] \in Seq(T)
        BY RowsInIsSeq DEF DataInv
      <4>2. Append(RowsIn(Existing(dev)) \o buffers[dev], r)
              = RowsIn(Existing(dev)) \o Append(buffers[dev], r)
        BY <4>1, AppendedLast
      <4>3. buffers'[dev] = Append(buffers[dev], r)
        BY <1>8, <2>4 DEF DataInv
      <4>4. QED
        BY <2>2, <4>2, <4>3 DEF Held
    <3>4. QED
      BY <2>1, <3>1, <3>2, <3>3, EnumeratesAppended
  <2>5. CASE dev # assignment[r]
    <3>1. Share(assignment, r, dev) = Share(assignment, r - 1, dev)
      BY <2>3, <2>5 DEF Share
    <3>2. buffers'[dev] = buffers[dev]
      BY <1>8, <2>5 DEF DataInv
    <3>3. Held(dev)' = Held(dev)
      BY <2>2, <3>2 DEF Held
    <3>4. QED
      BY <2>1, <3>1, <3>3
  <2>6. QED
    BY <2>4, <2>5
<1>10. FairDeal(assignment)'
  BY <1>1 DEF FairDeal, Total, Share, Turns, Devices
<1>11. QED
  BY <1>1, <1>7, <1>9, <1>10 DEF SpreadInv, Held

LEMMA FlushedSpreads == DataInv /\ WholeInv /\ Flushed => SpreadInv'
<1> SUFFICES ASSUME DataInv, WholeInv, Flushed PROVE SpreadInv'
  OBVIOUS
<1>1. /\ step = "flush" /\ ChunksInv /\ chunk \in 1 .. raw /\ raw \in 0 .. CHUNKS
      /\ FairDeal(assignment) /\ row = 1 /\ buffers = NoBuffers
      /\ UNCHANGED <<raw, files, assignment, row, buffers>>
  BY DEF Flushed, WholeInv, ChunksInv, SpreadInv, disk
<1>2. Len(Pairs) = raw
  BY <1>1, PairsRead
<1>3. CHUNKS \in Nat \ {0} /\ CHUNK_ROWS \in Nat \ {0} /\ raw \in Nat /\ chunk \in Nat
  BY <1>1, PreparationAssumption
<1>4. /\ step' \in {"load", "shuffle"} /\ chunk' \in 1 .. raw
      /\ step' = "shuffle" => chunk' = raw
      /\ Spread' = Spread
  <2>1. CASE chunk < raw
    <3>1. step' = "load" /\ chunk' = chunk + 1
      BY <1>2, <2>1 DEF Flushed
    <3>2. chunk' - 1 = chunk /\ chunk * CHUNK_ROWS \in Int
      BY <1>3, <3>1
    <3>3. Spread' = chunk * CHUNK_ROWS + 1 - 1
      BY <1>1, <3>1, <3>2 DEF Spread, Offset
    <3>4. Spread = chunk * CHUNK_ROWS
      BY <1>1 DEF Spread
    <3>5. QED
      BY <1>1, <1>3, <2>1, <3>1, <3>2, <3>3, <3>4
  <2>2. CASE ~(chunk < raw)
    <3>1. step' = "shuffle" /\ chunk' = chunk /\ chunk = raw
      BY <1>1, <1>2, <1>3, <2>2 DEF Flushed
    <3>2. QED
      BY <1>1, <3>1 DEF Spread
  <2>3. QED
    BY <2>1, <2>2
<1>5. ASSUME NEW dev \in Devices PROVE Enumerates(Held(dev)', Share(assignment, Spread', dev))
  <2>1. Held(dev)' = Held(dev)
    BY <1>1 DEF Held, Existing
  <2>2. QED
    BY <1>1, <1>4, <2>1 DEF WholeInv, SpreadInv, Held
<1>6. FairDeal(assignment)' /\ NoBuffers' = NoBuffers
  BY <1>1 DEF FairDeal, Total, Share, Turns, Devices, NoBuffers
<1>7. 1 \in 1 .. CHUNK_ROWS
  BY <1>3
<1>8. QED
  BY <1>1, <1>4, <1>5, <1>6, <1>7 DEF SpreadInv, Held

LEMMA FlushSpreads ==
  ASSUME DataInv, WholeInv, NEW dev \in Devices, FlushDevice(dev)
  PROVE  SpreadInv'
<1>1. /\ step = "flush" /\ step' = "flush" /\ chunk \in 1 .. raw /\ FairDeal(assignment) /\ row = 1
      /\ UNCHANGED <<raw, assignment, row, chunk>>
      /\ files' = WithFile(dev, Appended(dev))
      /\ buffers' = [buffers EXCEPT ![dev] = <<>>]
  BY DEF FlushDevice, WholeInv, SpreadInv
<1>2. Spread' = Spread
  BY <1>1 DEF Spread
<1>3. PICK S, T : Existing(dev) \in Seq(S) /\ buffers[dev] \in Seq(T)
  BY ExistingInTime DEF InTime, DataInv
<1>4. \A d \in Devices : Existing(d)' = IF d = dev THEN Appended(dev) ELSE Existing(d)
  <2>1. written[dev] = Len(Existing(dev))
    BY <1>1 DEF DataInv
  <2>2. InTime(Appended(dev))
    BY <1>3, <2>1, ExistingInTime, AppendInTime DEF Appended
  <2>3. QED
    BY <1>1, <2>2, FileReplaced
<1>5. ASSUME NEW d \in Devices PROVE Held(d)' = Held(d)
  <2>1. CASE d = dev
    <3>1. buffers'[d] = <<>>
      BY <1>1, <2>1 DEF DataInv
    <3>2. RowsIn(Appended(dev)) = RowsIn(Existing(dev)) \o buffers[dev]
      BY <1>3, RowsInAppended DEF Appended
    <3>3. Held(d) \o <<>> = Held(d)
      <4>1. PICK U : RowsIn(Existing(d)) \in Seq(U)
        BY RowsInIsSeq
      <4> DEFINE V == U \cup T
                 s == RowsIn(Existing(d))
                 t == buffers[d]
      <4>2. U \subseteq V /\ T \subseteq V /\ s \in Seq(U) /\ t \in Seq(T)
        BY <1>3, <2>1, <4>1
      <4> HIDE DEF V, s, t
      <4>3. s \in Seq(V) /\ t \in Seq(V)
        BY <4>2, SeqMonotonic
      <4>4. s \o t \in Seq(V)
        BY <4>3, ConcatProperties
      <4>5. (s \o t) \o <<>> = s \o t
        BY <4>4, ConcatEmptySeq
      <4>6. QED
        BY <4>5 DEF Held, s, t
    <3>4. QED
      BY <1>4, <2>1, <3>1, <3>2, <3>3 DEF Held
  <2>2. CASE d # dev
    <3>1. buffers'[d] = buffers[d] /\ Existing(d)' = Existing(d)
      BY <1>1, <1>4, <2>2 DEF DataInv
    <3>2. QED
      BY <3>1 DEF Held
  <2>3. QED
    BY <2>1, <2>2
<1>6. \A d \in Devices : Enumerates(Held(d)', Share(assignment, Spread', d))
  BY <1>1, <1>2, <1>5 DEF WholeInv, SpreadInv, Held
<1>7. FairDeal(assignment)'
  BY <1>1 DEF FairDeal, Total, Share, Turns, Devices
<1>8. QED
  BY <1>1, <1>6, <1>7 DEF SpreadInv, Held

LEMMA ShuffleSpreads == DataInv /\ WholeInv /\ (ShuffleDevice \/ NoFileToShuffle) => SpreadInv'
<1> SUFFICES ASSUME DataInv, WholeInv, ShuffleDevice \/ NoFileToShuffle PROVE SpreadInv'
  OBVIOUS
<1>1. /\ step = "shuffle" /\ raw' = raw /\ raw \in 0 .. CHUNKS
      /\ chunk \in 1 .. raw /\ FairDeal(assignment) /\ row = 1 /\ buffers = NoBuffers /\ chunk = raw
  BY DEF ShuffleDevice, NoFileToShuffle, disk, WholeInv, ChunksInv, SpreadInv
<1>2. CASE Ends("completed")
  BY <1>1, <1>2, EndsWhole
<1>3. CASE UNCHANGED <<step, result, chunk, row, assignment, buffers, written>>
  <2>1. ASSUME NEW dev \in Devices PROVE Enumerates(RowsIn(Existing(dev)'), Share(assignment, Total, dev))
    <3>1. CASE ShuffleDevice
      BY <3>1, Reshuffled
    <3>2. CASE NoFileToShuffle
      <4>1. Existing(dev)' = Existing(dev)
        BY <3>2 DEF NoFileToShuffle, disk, Existing
      <4>2. QED
        BY <1>1, <4>1, AllInFiles DEF Dealt
    <3>3. QED
      BY <3>1, <3>2
  <2>2. ASSUME NEW dev \in Devices PROVE Held(dev)' = RowsIn(Existing(dev)')
    <3>1. RowsIn(Existing(dev)') \in Seq(Share(assignment, Total, dev))
      BY <2>1 DEF Enumerates
    <3>2. RowsIn(Existing(dev)') \o <<>> = RowsIn(Existing(dev)')
      BY <3>1, ConcatEmptySeq
    <3>3. QED
      BY <1>1, <1>3, <3>2, BuffersEmpty DEF Held
  <2>3. Spread' = Total
    BY <1>1, <1>3 DEF Spread, Total
  <2>4. \A dev \in Devices : Enumerates(Held(dev)', Share(assignment, Spread', dev))
    BY <2>1, <2>2, <2>3
  <2>5. FairDeal(assignment)' /\ NoBuffers' = NoBuffers
    BY <1>1, <1>3 DEF FairDeal, Total, Share, Turns, Devices, NoBuffers
  <2>6. QED
    BY <1>1, <1>3, <2>4, <2>5 DEF SpreadInv, Held
<1>4. QED
  BY <1>2, <1>3 DEF ShuffleDevice, NoFileToShuffle, AfterShuffle

LEMMA SpreadStep == DataInv /\ WholeInv /\ [DataNext]_dataVars => SpreadInv'
<1> SUFFICES ASSUME DataInv, WholeInv, [DataNext]_dataVars PROVE SpreadInv'
  OBVIOUS
<1> USE DEF disk, converter
<1>1. CASE RunContainer \/ Download \/ RemoveStaleChunks \/ SaveX \/ SaveY
  <2>1. step' \notin {"load", "flush", "shuffle"}
    BY <1>1 DEF RunContainer, Download, RemoveStaleChunks, SaveX, SaveY
  <2>2. QED
    BY <2>1 DEF SpreadInv
<1>2. CASE Assign
  BY <1>2, AssignSpreads
<1>3. CASE SpreadRow
  BY <1>3, SpreadRowSpreads
<1>4. CASE Flushed
  BY <1>4, FlushedSpreads
<1>5. ASSUME NEW dev \in Devices, FlushDevice(dev) PROVE SpreadInv'
  BY <1>5, FlushSpreads
<1>6. CASE ShuffleDevice \/ NoFileToShuffle
  BY <1>6, ShuffleSpreads
<1>7. CASE BreaksOff \/ DownloadBreaks \/ CleaningBreaks \/ RemovingBreaks \/ ShuffleBreaks
             \/ \E dev \in Devices : FlushBreaks(dev)
  <2>1. step' = "idle"
    BY <1>7 DEF BreaksOff, DownloadBreaks, CleaningBreaks, RemovingBreaks, ShuffleBreaks,
                FlushBreaks, Ends
  <2>2. QED
    BY <2>1 DEF SpreadInv
<1>8. CASE UNCHANGED dataVars
  <2>1. UNCHANGED <<raw, files, step, chunk, row, assignment, buffers>>
    BY <1>8 DEF dataVars
  <2>2. /\ \A dev \in Devices : Held(dev)' = Held(dev)
        /\ Spread' = Spread /\ FairDeal(assignment)' = FairDeal(assignment)
        /\ NoBuffers' = NoBuffers
    BY <2>1 DEF Held, Existing, Spread, Offset, FairDeal, Total, Share, Turns, Devices, NoBuffers
  <2>3. QED
    BY <2>1, <2>2 DEF WholeInv, SpreadInv, Held
<1>9. QED
  BY <1>1, <1>2, <1>3, <1>4, <1>5, <1>6, <1>7, <1>8 DEF DataNext, ContainerStep

(* For any dataset, chunk size, number of devices and flush interval, and  *)
(* whatever runs that broke off left on disk: once a run completes, every  *)
(* row of the source is in one device file, once, and the files have the   *)
(* same length, give or take one row.                                      *)
THEOREM CompletedRunsAreWhole == Spec => []CompletedRunIsWhole
<1>1. DataSpec => []DataInv
  BY DataStart, DataStep, PTL DEF DataSpec
<1>2. DataInv /\ WholeInv /\ [DataNext]_dataVars => WholeInv'
  BY ChunksStep, SpreadStep, EndStep DEF WholeInv
<1>3. DataSpec => []WholeInv
  BY <1>1, <1>2, WholeStart, PTL DEF DataSpec
<1>4. DataInv /\ WholeInv => CompletedRunIsWhole
  <2> SUFFICES ASSUME DataInv, WholeInv, result = "completed" PROVE CompletedRunIsWhole
    BY DEF CompletedRunIsWhole
  <2>1. PICK a : Dealt(a)
    BY DEF WholeInv, EndInv
  <2>2. raw \in 0 .. CHUNKS
    BY DEF WholeInv, ChunksInv
  <2>3. QED
    BY <2>1, <2>2, DealtIsWhole
<1>5. QED
  BY <1>1, <1>3, <1>4, StartupPreparesData, PTL

-----------------------------------------------------------------------------
(* The tables and those who write to them.                                 *)

(* From the moment the containers of an earlier start are gone until       *)
(* database-init has ended no writer is up; jobs come after that.          *)
WritersInv ==
    /\ containers \subseteq Services
    /\ init \in {"absent", "waiting"} => containers \cap DatabaseWriters = {} /\ spark # "running"
    /\ at \in {"topics", "ensure", "flink", "spark"} => init \notin {"absent", "waiting"}

LEMMA WritersStart == Init => WritersInv
BY DEF Init, WritersInv

(* Nobody writes because containers went away.                             *)
LEMMA RemainingWriters ==
  ASSUME WritersInv, NEW left \in SUBSET containers, Remaining(left),
         init' \in {"absent", "waiting"} =>
             \/ init \in {"absent", "waiting"}
             \/ left \cap (DatabaseWriters \cup {"spark-master"}) = {},
         at' \in {"topics", "ensure", "flink", "spark"} => init' \notin {"absent", "waiting"}
  PROVE  WritersInv'
BY DEF WritersInv, Remaining

LEMMA WritersStep == WritersInv /\ [Next]_vars => WritersInv'
<1> SUFFICES ASSUME WritersInv, [Next]_vars PROVE WritersInv'
  OBVIOUS
<1> USE DEF platform, progress, Goto, Exit, Retry
<1>1. CASE Down
  <2>1. CASE Remaining({}) /\ init' = "absent"
    BY <1>1, <2>1, RemainingWriters DEF Down
  <2>2. CASE UNCHANGED <<containers, jobs, misreported, spark, init>>
    BY <1>1, <2>2 DEF Down, WritersInv
  <2>3. QED
    BY <1>1, <2>1, <2>2 DEF Down
<1>2. CASE RemoveContainers
  <2>1. (containers \ Listed) \cap (DatabaseWriters \cup {"spark-master"}) = {}
    BY DEF Listed, Services, DatabaseWriters, WritersInv
  <2>2. QED
    BY <1>2, <2>1, RemainingWriters DEF RemoveContainers
<1>3. CASE StartServices
  <2>1. init \in {"absent", "waiting"} => Startable \cap DatabaseWriters = {}
    BY DEF Startable, DependenciesMet
  <2>2. QED
    BY <1>3, <2>1 DEF StartServices, Startable, WritersInv
<1>4. CASE StartDatabaseInit
  BY <1>4 DEF StartDatabaseInit, WritersInv
<1>5. CASE InitDatabase \/ InitDatabaseFails
  BY <1>5 DEF InitDatabase, InitDatabaseFails, WritersInv
<1>6. CASE Up
  BY <1>6 DEF Up, WritersInv, Services, DatabaseWriters
<1>7. CASE SparkRuns \/ SparkCompletes \/ SparkEnds \/ SparkSubmissionFails
  BY <1>7 DEF SparkRuns, SparkCompletes, SparkEnds, SparkSubmissionFails, RetryOrExit, WritersInv
<1>8. ASSUME NEW service \in Services, ContainerDies(service) PROVE WritersInv'
  BY <1>8, RemainingWriters DEF ContainerDies, WritersInv
<1>9. CASE Reboot
  BY <1>9, RemainingWriters DEF Reboot
<1>10. CASE Start \/ RunPreprocessor \/ SkipPreprocessor \/ Prepared \/ Interrupt
            \/ PrepareByHand \/ PreprocessorStep
  BY <1>10 DEF Start, RunPreprocessor, SkipPreprocessor, Prepared, Interrupt, PrepareByHand,
               PreprocessorStep, startVars, WritersInv
<1>11. CASE KafkaReachable \/ KafkaNotReady \/ EnsureFails \/ TopicsReady
            \/ \E topic \in TOPICS : EnsureTopic(topic) \/ AutoCreate(topic)
  BY <1>11 DEF KafkaReachable, KafkaNotReady, EnsureFails, TopicsReady, EnsureTopic,
               AutoCreate, WritersInv
<1>12. CASE SubmitFlinkJob \/ SubmissionFails
  BY <1>12 DEF SubmitFlinkJob, AfterSubmission, SubmissionFails, RetryOrExit, WritersInv
<1>13. CASE UNCHANGED vars
  BY <1>13 DEF vars, startVars, WritersInv
<1>14. QED
  BY <1>1, <1>2, <1>3, <1>4, <1>5, <1>6, <1>7, <1>8, <1>9, <1>10, <1>11, <1>12, <1>13
  DEF Next, StartStep, Environment

(* Whatever ran when start was called and whichever of its steps fail, the *)
(* tables are dropped while none of their writers is up.                   *)
THEOREM DropsUnderNobody == Spec => []NoDropUnderWriters
<1>1. Spec => []WritersInv
  BY WritersStart, WritersStep, PTL DEF Spec
<1>2. WritersInv => NoDropUnderWriters
  BY DEF WritersInv, NoDropUnderWriters
<1>3. QED
  BY <1>1, <1>2, PTL

-----------------------------------------------------------------------------
(* The Flink jobs.                                                         *)

(* A start submits to a job manager it has just created, and stops at the  *)
(* first submission that is answered with success.                         *)
JobsInv ==
    /\ jobs \in Nat /\ misreported \in Nat /\ faults \in Nat
    /\ jobs - misreported \in {0, 1}
    /\ at \in {"up", "topics", "ensure", "flink"} => jobs = misreported
    /\ at = "spark" /\ faults = 0 => jobs = misreported + 1

LEMMA JobsStart == Init => JobsInv
BY DEF Init, JobsInv

LEMMA JobsStep == JobsInv /\ [Next]_vars => JobsInv'
<1> SUFFICES ASSUME JobsInv, [Next]_vars PROVE JobsInv'
  OBVIOUS
<1> USE DEF platform, progress, Goto, Exit, Retry
<1>1. CASE Down
  BY <1>1 DEF Down, Remaining, JobsInv
<1>2. CASE RemoveContainers
  <2>1. "flink-jobmanager" \notin containers \ Listed
    BY DEF Listed, Services
  <2>2. jobs' = 0 /\ misreported' = 0
    BY <1>2, <2>1 DEF RemoveContainers, Remaining
  <2>3. QED
    BY <1>2, <2>2 DEF RemoveContainers, JobsInv
<1>3. CASE SubmitFlinkJob
  BY <1>3 DEF SubmitFlinkJob, AfterSubmission, JobsInv
<1>4. CASE SubmissionFails
  BY <1>4 DEF SubmissionFails, RetryOrExit, JobsInv
<1>5. ASSUME NEW service \in Services, ContainerDies(service) PROVE JobsInv'
  BY <1>5 DEF ContainerDies, Fault, Remaining, JobsInv
<1>6. CASE Reboot
  BY <1>6 DEF Reboot, Fault, Remaining, Restarted, DatabaseWriters, JobsInv
<1>7. CASE StartServices \/ StartDatabaseInit \/ InitDatabase \/ InitDatabaseFails \/ Up
  BY <1>7 DEF StartServices, StartDatabaseInit, InitDatabase, InitDatabaseFails, Up, JobsInv
<1>8. CASE SparkRuns \/ SparkCompletes \/ SparkEnds \/ SparkSubmissionFails
  BY <1>8 DEF SparkRuns, SparkCompletes, SparkEnds, SparkSubmissionFails, RetryOrExit, JobsInv
<1>9. CASE Start \/ RunPreprocessor \/ SkipPreprocessor \/ Prepared \/ Interrupt
           \/ PrepareByHand \/ PreprocessorStep
  BY <1>9 DEF Start, RunPreprocessor, SkipPreprocessor, Prepared, Interrupt, PrepareByHand,
              PreprocessorStep, startVars, JobsInv
<1>10. CASE KafkaReachable \/ KafkaNotReady \/ EnsureFails \/ TopicsReady
            \/ \E topic \in TOPICS : EnsureTopic(topic) \/ AutoCreate(topic)
  BY <1>10 DEF KafkaReachable, KafkaNotReady, EnsureFails, TopicsReady, EnsureTopic,
               AutoCreate, JobsInv
<1>11. CASE UNCHANGED vars
  BY <1>11 DEF vars, startVars, JobsInv
<1>12. QED
  BY <1>1, <1>2, <1>3, <1>4, <1>5, <1>6, <1>7, <1>8, <1>9, <1>10, <1>11
  DEF Next, StartStep, Environment

(* However often a submission is retried, Flink runs one training job, and *)
(* another only for each submission that failed after it had been taken.   *)
THEOREM TrainsOnce == Spec => []OneFlinkJob
<1>1. Spec => []JobsInv
  BY JobsStart, JobsStep, PTL DEF Spec
<1>2. JobsInv => OneFlinkJob
  BY DEF JobsInv, OneFlinkJob
<1>3. QED
  BY <1>1, <1>2, PTL

-----------------------------------------------------------------------------
(* The topics.                                                             *)

(* A topic that was seen to exists, with enough partitions or with a note. *)
TopicsInv ==
    /\ partitions \in [TOPICS -> Nat]
    /\ ensured \subseteq TOPICS
    /\ at \in {"flink", "spark"} => ensured = TOPICS
    /\ \A topic \in ensured : /\ partitions[topic] > 0
                              /\ partitions[topic] < PARTITIONS => topic \in unraised

LEMMA TopicsStart == Init => TopicsInv
BY DEF Init, TopicsInv

LEMMA TopicsStep == TopicsInv /\ [Next]_vars => TopicsInv'
<1> SUFFICES ASSUME TopicsInv, [Next]_vars PROVE TopicsInv'
  OBVIOUS
<1> USE DEF platform, progress, Goto, Exit, Retry
<1>1. PARTITIONS \in Nat \ {0}
  BY StartupAssumption
<1>2. ASSUME NEW topic \in TOPICS, EnsureTopic(topic) PROVE TopicsInv'
  <2>1. PICK count \in AfterEnsuring(topic) :
          /\ partitions' = [partitions EXCEPT ![topic] = count]
          /\ unraised' = IF count < PARTITIONS /\ PARTITIONS \in AfterEnsuring(topic)
                         THEN unraised \cup {topic} ELSE unraised
    BY <1>2 DEF EnsureTopic
  <2>2. /\ partitions[topic] \in Nat
        /\ count \in {PARTITIONS, partitions[topic]}
        /\ partitions[topic] = 0 => count = PARTITIONS
        /\ PARTITIONS \in AfterEnsuring(topic)
    BY <2>1 DEF AfterEnsuring, TopicsInv
  <2>3. count \in Nat /\ count > 0 /\ (count < PARTITIONS => topic \in unraised')
    BY <1>1, <2>1, <2>2
  <2>4. /\ partitions' \in [TOPICS -> Nat]
        /\ \A t \in TOPICS : partitions'[t] = IF t = topic THEN count ELSE partitions[t]
    BY <2>1, <2>3 DEF TopicsInv
  <2>5. unraised \subseteq unraised' /\ ensured' = ensured \cup {topic} /\ at' = "ensure"
    BY <1>2, <2>1 DEF EnsureTopic
  <2>6. \A t \in ensured' : partitions'[t] > 0 /\ (partitions'[t] < PARTITIONS => t \in unraised')
    BY <2>3, <2>4, <2>5 DEF TopicsInv
  <2>7. QED
    BY <2>4, <2>5, <2>6 DEF TopicsInv
<1>3. ASSUME NEW topic \in TOPICS, AutoCreate(topic) PROVE TopicsInv'
  <2>1. /\ partitions' \in [TOPICS -> Nat]
        /\ \A t \in TOPICS : partitions'[t] = IF t = topic THEN PARTITIONS ELSE partitions[t]
    BY <1>1, <1>3 DEF AutoCreate, TopicsInv
  <2>2. \A t \in ensured : partitions'[t] > 0 /\ (partitions'[t] < PARTITIONS => t \in unraised)
    BY <1>1, <2>1 DEF TopicsInv
  <2>3. QED
    BY <1>3, <2>1, <2>2 DEF AutoCreate, TopicsInv
<1>4. CASE KafkaReachable \/ KafkaNotReady \/ EnsureFails \/ TopicsReady
  BY <1>4 DEF KafkaReachable, KafkaNotReady, EnsureFails, TopicsReady, TopicsInv
<1>5. CASE SubmitFlinkJob \/ SubmissionFails
  BY <1>5 DEF SubmitFlinkJob, AfterSubmission, SubmissionFails, RetryOrExit, TopicsInv
<1>6. CASE SparkRuns \/ SparkCompletes \/ SparkEnds \/ SparkSubmissionFails
  BY <1>6 DEF SparkRuns, SparkCompletes, SparkEnds, SparkSubmissionFails, RetryOrExit, TopicsInv
<1>7. CASE Down \/ RemoveContainers \/ StartServices \/ StartDatabaseInit \/ InitDatabase
           \/ InitDatabaseFails \/ Up
  BY <1>7 DEF Down, RemoveContainers, StartServices, StartDatabaseInit, InitDatabase,
              InitDatabaseFails, Up, TopicsInv
<1>8. CASE Start \/ RunPreprocessor \/ SkipPreprocessor \/ Prepared \/ Interrupt
           \/ PrepareByHand \/ PreprocessorStep
  BY <1>8 DEF Start, RunPreprocessor, SkipPreprocessor, Prepared, Interrupt, PrepareByHand,
              PreprocessorStep, startVars, TopicsInv
<1>9. CASE Reboot \/ \E service \in Services : ContainerDies(service)
  BY <1>9 DEF Reboot, ContainerDies, TopicsInv
<1>10. CASE UNCHANGED vars
  BY <1>10 DEF vars, startVars, TopicsInv
<1>11. QED
  BY <1>2, <1>3, <1>4, <1>5, <1>6, <1>7, <1>8, <1>9, <1>10
  DEF Next, StartStep, Environment

(* For any set of topics, left by earlier runs with any number of          *)
(* partitions: no job is submitted before all of them are there, raised to *)
(* PARTITIONS unless reading or raising them failed.                       *)
THEOREM SubmitsToTopics == Spec => []JobsFindTopics
<1>1. Spec => []TopicsInv
  BY TopicsStart, TopicsStep, PTL DEF Spec
<1>2. TopicsInv => JobsFindTopics
  BY DEF TopicsInv, JobsFindTopics
<1>3. QED
  BY <1>1, <1>2, PTL

-----------------------------------------------------------------------------
(* The readers of the device files.                                        *)

Readers == {"kafka-producer", "spark-master"}

(* A conversion runs only before the containers are started and only while *)
(* no reader is left from an earlier start; a start that goes on leaves    *)
(* data that keeps the next one from converting again.                     *)
ReadersInv ==
    /\ step # "idle" => at \in {"off", "preparing"} /\ containers \cap Readers = {}
    /\ at \in {"down", "remove", "up"} => HasData
    /\ containers \cap Readers # {} => HasData
    /\ step \in {"y", "assign", "load", "flush", "shuffle"} => xChunks \cup yChunks # {}
    /\ result = "completed" => step = "idle" /\ xChunks \cup yChunks # {}

LEMMA ReadersStart == Init => ReadersInv
BY DEF Init, DataInit, ReadersInv

LEMMA ContainerStepChunks ==
  ASSUME ReadersInv, ContainerStep
  PROVE  /\ step # "idle"
         /\ step' \in {"y", "assign", "load", "flush", "shuffle"} => xChunks' \cup yChunks' # {}
         /\ result' = "completed" => step' = "idle" /\ xChunks' \cup yChunks' # {}
<1> USE DEF disk, converter, ReadersInv, Ends
<1>1. CASE Download \/ RemoveStaleChunks \/ SaveX \/ SaveY
  BY <1>1 DEF Download, RemoveStaleChunks, SaveX, SaveY
<1>2. CASE Assign \/ SpreadRow \/ Flushed
  BY <1>2 DEF Assign, SpreadRow, Flushed
<1>3. CASE ShuffleDevice \/ NoFileToShuffle
  BY <1>3 DEF ShuffleDevice, NoFileToShuffle, AfterShuffle
<1>4. CASE \E dev \in Devices : FlushDevice(dev) \/ FlushBreaks(dev)
  BY <1>4 DEF FlushDevice, FlushBreaks
<1>5. CASE BreaksOff \/ DownloadBreaks \/ CleaningBreaks \/ RemovingBreaks \/ ShuffleBreaks
  BY <1>5 DEF BreaksOff, DownloadBreaks, CleaningBreaks, RemovingBreaks, ShuffleBreaks
<1>6. QED
  BY <1>1, <1>2, <1>3, <1>4, <1>5 DEF ContainerStep

LEMMA ReadersStep == ReadersInv /\ [Next]_vars => ReadersInv'
<1> SUFFICES ASSUME ReadersInv, [Next]_vars PROVE ReadersInv'
  OBVIOUS
<1> USE DEF platform, progress, Goto, Exit, Retry, dataVars, disk, ReadersInv, HasData
<1>1. CASE PreprocessorStep
  BY <1>1, ContainerStepChunks DEF PreprocessorStep, startVars
<1>2. CASE RunPreprocessor
  BY <1>2 DEF RunPreprocessor, NeedsData, RunContainer
<1>3. CASE PrepareByHand
  BY <1>3 DEF PrepareByHand, RunContainer, startVars
<1>4. CASE Start \/ SkipPreprocessor \/ Prepared
  BY <1>4 DEF Start, SkipPreprocessor, NeedsData, Prepared
<1>5. CASE Interrupt
  BY <1>5 DEF Interrupt, BreaksOff, Ends
<1>6. CASE Down \/ RemoveContainers
  BY <1>6 DEF Down, RemoveContainers, Remaining
<1>7. CASE StartServices
  BY <1>7 DEF StartServices
<1>8. CASE StartDatabaseInit \/ InitDatabase \/ InitDatabaseFails \/ Up
  BY <1>8 DEF StartDatabaseInit, InitDatabase, InitDatabaseFails, Up
<1>9. CASE KafkaReachable \/ KafkaNotReady \/ EnsureFails \/ TopicsReady
           \/ \E topic \in TOPICS : EnsureTopic(topic) \/ AutoCreate(topic)
  BY <1>9 DEF KafkaReachable, KafkaNotReady, EnsureFails, TopicsReady, EnsureTopic, AutoCreate
<1>10. CASE SubmitFlinkJob \/ SubmissionFails
  BY <1>10 DEF SubmitFlinkJob, AfterSubmission, SubmissionFails, RetryOrExit
<1>11. CASE SparkRuns \/ SparkCompletes \/ SparkEnds \/ SparkSubmissionFails
  BY <1>11 DEF SparkRuns, SparkCompletes, SparkEnds, SparkSubmissionFails, RetryOrExit
<1>12. CASE Reboot \/ \E service \in Services : ContainerDies(service)
  BY <1>12 DEF Reboot, ContainerDies, Remaining
<1>13. CASE UNCHANGED vars
  BY <1>13 DEF vars, startVars
<1>14. QED
  BY <1>1, <1>2, <1>3, <1>4, <1>5, <1>6, <1>7, <1>8, <1>9, <1>10, <1>11, <1>12, <1>13
  DEF Next, StartStep, Environment

(* However starts, reboots, interruptions and preparations by hand follow  *)
(* each other, no device file changes under the producer or Spark.         *)
THEOREM ConvertsUnderNobody == Spec => NoConversionUnderReaders
<1>1. ReadersInv /\ [Next]_vars =>
        [files' # files => containers \cap {"kafka-producer", "spark-master"} = {}]_vars
  <2> SUFFICES ASSUME ReadersInv, Next, files' # files
               PROVE  containers \cap Readers = {}
    BY DEF Readers
  <2>1. [DataNext]_dataVars
    BY DataRefined
  <2>2. CASE DataNext
    BY <2>2, ContainerStepChunks DEF DataNext, RunContainer, disk, ReadersInv
  <2>3. QED
    BY <2>1, <2>2 DEF dataVars, disk
<1>2. Spec => []ReadersInv
  BY ReadersStart, ReadersStep, PTL DEF Spec
<1>3. QED
  BY <1>1, <1>2, PTL DEF Spec, NoConversionUnderReaders

-----------------------------------------------------------------------------
(* Types.  A file and a buffer never hold more than the rows of a device's *)
(* share of the dataset, and a start that submits has no job yet.          *)

Readings == [row : Rows, time : Nat]

ContentsInv ==
    /\ buffers \in [Devices -> Seq(Rows)]
    /\ \A dev \in DOMAIN files : files[dev] \in Seq(Readings)

CountersInv ==
    /\ xChunks \subseteq 1 .. CHUNKS /\ yChunks \subseteq 1 .. CHUNKS
    /\ step \notin {"load", "flush", "shuffle"} => assignment = <<>>
    /\ \A dev \in Devices : written[dev] <= CHUNKS * CHUNK_ROWS
    /\ next \in Devices
    /\ result \in {"none", "completed", "failed"}

LEMMA SizesOfRows == CHUNKS * CHUNK_ROWS \in Nat /\ 0 \in Devices /\ 1 \in 1 .. CHUNKS /\ 1 \in 1 .. CHUNK_ROWS
BY PreparationAssumption DEF Devices

LEMMA ProductMonotone ==
  ASSUME NEW a \in Nat, NEW b \in Nat, NEW m \in Nat, a <= b
  PROVE  a * m <= b * m
<1>1. (b - a) * m >= 0
  OBVIOUS
<1>2. (b - a) * m = b * m - a * m
  OBVIOUS
<1>3. a * m \in Nat /\ b * m \in Nat
  OBVIOUS
<1>4. QED
  BY <1>1, <1>2, <1>3

LEMMA StampedTyped ==
  ASSUME NEW rows \in Seq(Rows), NEW start \in Nat
  PROVE  Stamped(rows, start) \in Seq(Readings)
<1>1. Stamped(rows, start) = [k \in 1 .. Len(rows) |-> [row |-> rows[k], time |-> start + k - 1]]
  BY DEF Stamped
<1>2. ASSUME NEW k \in 1 .. Len(rows)
      PROVE  [row |-> rows[k], time |-> start + k - 1] \in Readings
  <2>1. rows[k] \in Rows /\ start + k - 1 \in Nat
    OBVIOUS
  <2>2. QED
    BY <2>1 DEF Readings
<1>3. Len(rows) \in Nat
  OBVIOUS
<1> HIDE DEF Readings
<1>4. QED
  BY <1>1, <1>2, <1>3

LEMMA ShuffledTyped ==
  ASSUME DataInv, ContentsInv, NEW dev \in DOMAIN files, NEW readings \in Shuffled(dev)
  PROVE  readings \in Seq(Readings)
<1> DEFINE n == Len(files[dev])
<1>1. files[dev] \in Seq(Readings) /\ n \in Nat /\ DOMAIN files[dev] = 1 .. n
  BY DEF ContentsInv
<1>2. PICK p \in [1 .. n -> 1 .. n] :
        readings = Stamped([k \in 1 .. n |-> files[dev][p[k]].row], 0)
  BY <1>1 DEF Shuffled
<1>3. \A k \in 1 .. n : files[dev][k].row \in Rows
  <2>1. \A k \in 1 .. n : files[dev][k] \in Readings
    BY <1>1
  <2>2. QED
    BY <2>1 DEF Readings
<1>4. [k \in 1 .. n |-> files[dev][p[k]].row] \in Seq(Rows)
  BY <1>1, <1>2, <1>3
<1>5. QED
  BY <1>2, <1>4, StampedTyped

LEMMA AppendedTyped ==
  ASSUME DataInv, ContentsInv, NEW dev \in Devices
  PROVE  Appended(dev) \in Seq(Readings)
<1>1. Existing(dev) \in Seq(Readings)
  BY DEF Existing, ContentsInv
<1>2. Stamped(buffers[dev], written[dev]) \in Seq(Readings)
  BY StampedTyped DEF ContentsInv, DataInv
<1>3. QED
  BY <1>1, <1>2 DEF Appended

LEMMA PrefixTyped ==
  ASSUME NEW S, NEW readings \in Seq(S), NEW n \in 0 .. Len(readings)
  PROVE  Prefix(readings, n) \in Seq(S)
BY DEF Prefix

LEMMA RowAtTyped ==
  ASSUME WholeInv, step = "load", NEW r, r = RowAt(row)
  PROVE  r \in Rows
<1>1. /\ chunk \in 1 .. raw /\ raw \in 0 .. CHUNKS /\ row \in 1 .. CHUNK_ROWS
      /\ CHUNKS \in Nat /\ CHUNK_ROWS \in Nat
  BY PreparationAssumption DEF WholeInv, ChunksInv, SpreadInv
<1>2. Pairs[chunk] = chunk
  BY <1>1, PairsRead DEF WholeInv
<1>3. PICK c \in 1 .. CHUNKS : c = chunk
  BY <1>1
<1>4. r = (c - 1) * CHUNK_ROWS + row
  BY <1>2, <1>3 DEF RowAt
<1>5. (c - 1) * CHUNK_ROWS \in Nat /\ (c - 1) * CHUNK_ROWS + CHUNK_ROWS = c * CHUNK_ROWS
  BY <1>1
<1>6. c * CHUNK_ROWS <= CHUNKS * CHUNK_ROWS /\ c * CHUNK_ROWS \in Nat /\ CHUNKS * CHUNK_ROWS \in Nat
  BY <1>1, ProductMonotone
<1>7. QED
  BY <1>1, <1>4, <1>5, <1>6 DEF Rows

(* A device is written no more rows than have been spread.                 *)
LEMMA WrittenBound ==
  ASSUME DataInv, WholeInv, step \in {"load", "flush"}, NEW dev \in Devices
  PROVE  written[dev] <= CHUNKS * CHUNK_ROWS
<1>1. /\ chunk \in 1 .. raw /\ raw \in 0 .. CHUNKS /\ row \in 1 .. CHUNK_ROWS
      /\ CHUNKS \in Nat /\ CHUNK_ROWS \in Nat \ {0}
      /\ Enumerates(Held(dev), Share(assignment, Spread, dev))
  BY PreparationAssumption DEF WholeInv, ChunksInv, SpreadInv, Held
<1>2. PICK n \in Nat : n = Spread /\ n <= CHUNKS * CHUNK_ROWS
  <2>1. PICK c \in 1 .. CHUNKS : c = chunk
    BY <1>1
  <2>2. (c - 1) * CHUNK_ROWS \in Nat /\ (c - 1) * CHUNK_ROWS + CHUNK_ROWS = c * CHUNK_ROWS
    BY <1>1
  <2>3. c * CHUNK_ROWS <= CHUNKS * CHUNK_ROWS /\ c * CHUNK_ROWS \in Nat /\ CHUNKS * CHUNK_ROWS \in Nat
    BY <1>1, ProductMonotone
  <2>4. Spread \in {(c - 1) * CHUNK_ROWS + row - 1, c * CHUNK_ROWS}
    BY <2>1 DEF Spread, Offset
  <2>5. QED
    BY <1>1, <2>2, <2>3, <2>4
<1>3. Share(assignment, n, dev) \subseteq 1 .. n
  BY DEF Share
<1>4. IsFiniteSet(1 .. n) /\ Cardinality(1 .. n) = n
  <2>1. 1 \in Int /\ n \in Int /\ n >= 0
    BY <1>2
  <2>2. QED
    BY <2>1, FS_Interval
<1>5. IsFiniteSet(Share(assignment, n, dev)) /\ Cardinality(Share(assignment, n, dev)) <= n
  BY <1>3, <1>4, FS_Subset
<1>6. Len(Held(dev)) = Cardinality(Share(assignment, n, dev))
  BY <1>1, <1>2, EnumeratesAll
<1>7. PICK S, T : RowsIn(Existing(dev)) \in Seq(S) /\ buffers[dev] \in Seq(T)
  BY RowsInIsSeq DEF DataInv
<1>8. PICK U : RowsIn(Existing(dev)) \in Seq(U) /\ buffers[dev] \in Seq(U)
  <2>1. S \subseteq S \cup T /\ T \subseteq S \cup T
    OBVIOUS
  <2>2. RowsIn(Existing(dev)) \in Seq(S \cup T) /\ buffers[dev] \in Seq(S \cup T)
    BY <1>7, <2>1, SeqMonotonic
  <2>3. QED
    BY <2>2
<1>9. Len(Held(dev)) = Len(RowsIn(Existing(dev))) + Len(buffers[dev])
  BY <1>8, ConcatProperties DEF Held
<1>10. Len(RowsIn(Existing(dev))) = Len(Existing(dev)) /\ Len(Existing(dev)) \in Nat
  <2>1. PICK V : Existing(dev) \in Seq(V)
    BY ExistingInTime DEF InTime
  <2>2. Len(Existing(dev)) \in Nat /\ DOMAIN Existing(dev) = 1 .. Len(Existing(dev))
    BY <2>1
  <2>3. QED
    BY <2>2 DEF RowsIn
<1>11. written[dev] = Len(Existing(dev)) /\ Len(buffers[dev]) \in Nat
  BY <1>7 DEF DataInv
<1>12. CHUNKS * CHUNK_ROWS \in Nat
  BY SizesOfRows
<1>13. Len(Held(dev)) <= n
  BY <1>5, <1>6
<1> HIDE DEF Held
<1>14. written[dev] <= n
  BY <1>9, <1>10, <1>11, <1>13
<1>15. QED
  BY <1>2, <1>10, <1>11, <1>12, <1>14

WrittenFits == \A dev \in Devices : written[dev] <= CHUNKS * CHUNK_ROWS

LEMMA WrittenWithin == (DataInv /\ WholeInv /\ step \in {"load", "flush"})' => WrittenFits'
<1>1. DataInv /\ WholeInv /\ step \in {"load", "flush"} => WrittenFits
  BY WrittenBound DEF WrittenFits
<1>2. QED
  BY <1>1, PTL

LEMMA FileReplacedTyped ==
  ASSUME DataInv, ContentsInv, NEW dev \in Devices, NEW readings \in Seq(Readings),
         files' = WithFile(dev, readings)
  PROVE  \A d \in DOMAIN files' : files'[d] \in Seq(Readings)
BY DEF WithFile, ContentsInv

LEMMA EmptyTyped == NoBuffers \in [Devices -> Seq(Rows)]
BY DEF NoBuffers

LEMMA ContentsStep ==
  DataInv /\ WholeInv /\ ContentsInv /\ [DataNext]_dataVars => ContentsInv'
<1> SUFFICES ASSUME DataInv, WholeInv, ContentsInv, [DataNext]_dataVars PROVE ContentsInv'
  OBVIOUS
<1> USE DEF disk, converter
<1>0. /\ Devices' = Devices /\ Rows' = Rows /\ Readings' = Readings
      /\ \A dev \in Devices : buffers[dev] \in Seq(Rows)
      /\ \A dev \in DOMAIN files : files[dev] \in Seq(Readings)
  BY DEF Devices, Rows, Readings, ContentsInv
<1>e. ASSUME NEW outcome, Ends(outcome),
             \A d \in DOMAIN files' : files'[d] \in Seq(Readings)
      PROVE  ContentsInv'
  <2>1. buffers' \in [Devices -> Seq(Rows)]
    BY <1>0, <1>e, EmptyTyped DEF Ends, NoBuffers
  <2>2. QED
    BY <1>0, <1>e, <2>1 DEF ContentsInv
<1>1. CASE RunContainer \/ Download \/ RemoveStaleChunks \/ SaveX \/ SaveY \/ Flushed
  BY <1>0, <1>1 DEF RunContainer, Download, RemoveStaleChunks, SaveX, SaveY, Flushed, ContentsInv
<1>2. CASE Assign
  BY <1>0, <1>2 DEF Assign, StaleRemoved, ContentsInv
<1>3. CASE SpreadRow
  <2> DEFINE target == assignment[Offset + row]
             added == RowAt(row)
  <2>1. /\ buffers' = [buffers EXCEPT ![target] = Append(@, added)]
        /\ files' = files /\ step = "load"
    BY <1>3 DEF SpreadRow
  <2>2. added \in Rows
    BY <2>1, RowAtTyped
  <2> HIDE DEF target, added
  <2>3. buffers' \in [Devices -> Seq(Rows)]
    <3>1. \A dev \in Devices : /\ buffers[dev] \in Seq(Rows)
                              /\ Append(buffers[dev], added) \in Seq(Rows)
      BY <1>0, <2>2
    <3>2. CASE target \in Devices
      BY <2>1, <3>1, <3>2 DEF ContentsInv
    <3>3. CASE target \notin Devices
      <4>1. buffers' = buffers
        BY <2>1, <3>3 DEF ContentsInv
      <4>2. QED
        BY <4>1 DEF ContentsInv
    <3>4. QED
      BY <3>2, <3>3
  <2>4. QED
    BY <1>0, <2>1, <2>3 DEF ContentsInv
<1>4. ASSUME NEW dev \in Devices, FlushDevice(dev) PROVE ContentsInv'
  <2>1. \A d \in DOMAIN files' : files'[d] \in Seq(Readings)
    BY <1>4, AppendedTyped, FileReplacedTyped DEF FlushDevice
  <2>2. buffers' = [buffers EXCEPT ![dev] = <<>>]
    BY <1>4 DEF FlushDevice
  <2>3. buffers' \in [Devices -> Seq(Rows)]
    BY <2>2 DEF ContentsInv
  <2>4. QED
    BY <1>0, <2>1, <2>3 DEF ContentsInv
<1>5. CASE ShuffleDevice
  <2>1. PICK readings \in Shuffled(next) : files' = WithFile(next, readings)
    BY <1>5 DEF ShuffleDevice
  <2>2. next \in DOMAIN files /\ next \in Devices
    BY <1>5 DEF ShuffleDevice, DataInv
  <2>3. \A d \in DOMAIN files' : files'[d] \in Seq(Readings)
    BY <2>1, <2>2, ShuffledTyped, FileReplacedTyped
  <2>4. CASE Ends("completed")
    BY <1>e, <2>3, <2>4
  <2>5. CASE UNCHANGED buffers
    BY <1>0, <2>3, <2>5 DEF ContentsInv
  <2>6. QED
    BY <1>5, <2>4, <2>5 DEF ShuffleDevice, AfterShuffle
<1>6. CASE NoFileToShuffle
  <2>1. UNCHANGED files
    BY <1>6 DEF NoFileToShuffle
  <2>2. CASE Ends("completed")
    BY <1>0, <1>e, <2>1, <2>2
  <2>3. CASE UNCHANGED buffers
    BY <1>0, <2>1, <2>3 DEF ContentsInv
  <2>4. QED
    BY <1>6, <2>2, <2>3 DEF NoFileToShuffle, AfterShuffle
<1>7. ASSUME NEW dev \in Devices, FlushBreaks(dev) PROVE ContentsInv'
  <2>1. PICK n \in 1 .. Len(buffers[dev]) - 1 :
          files' = WithFile(dev, Prefix(Appended(dev), Len(Existing(dev)) + n))
    BY <1>7 DEF FlushBreaks, Prefix
  <2>2. step = "flush" /\ Ends("failed")
    BY <1>7 DEF FlushBreaks
  <2>3. PICK S : buffers[dev] \in Seq(S)
    BY DEF DataInv
  <2>4. /\ Len(Appended(dev)) = Len(Existing(dev)) + Len(buffers[dev])
        /\ Len(Existing(dev)) \in Nat
    BY <2>2, <2>3, ExistingInTime, AppendInTime DEF Appended, DataInv
  <2>5. Len(Existing(dev)) + n \in 0 .. Len(Appended(dev))
    BY <2>3, <2>4
  <2>6. Prefix(Appended(dev), Len(Existing(dev)) + n) \in Seq(Readings)
    BY <2>5, AppendedTyped, PrefixTyped
  <2>7. QED
    BY <1>e, <2>1, <2>2, <2>6, FileReplacedTyped
<1>8. CASE BreaksOff \/ DownloadBreaks \/ CleaningBreaks
  BY <1>0, <1>e, <1>8 DEF BreaksOff, DownloadBreaks, CleaningBreaks
<1>9. CASE RemovingBreaks
  <2>1. PICK kept \in SUBSET DOMAIN files : files' = [dev \in kept |-> files[dev]]
    BY <1>9 DEF RemovingBreaks
  <2>2. \A d \in DOMAIN files' : files'[d] \in Seq(Readings)
    BY <1>0, <2>1
  <2>3. QED
    BY <1>9, <1>e, <2>2 DEF RemovingBreaks
<1>10. CASE ShuffleBreaks
  <2>1. PICK readings \in Shuffled(next), n \in 0 .. Len(files[next]) - 1 :
          files' = WithFile(next, Prefix(readings, n))
    BY <1>10 DEF ShuffleBreaks, Prefix
  <2>2. next \in DOMAIN files /\ next \in Devices /\ Ends("failed")
    BY <1>10 DEF ShuffleBreaks, DataInv
  <2>3. Len(readings) = Len(files[next]) /\ Len(files[next]) \in Nat
    BY <2>1, <2>2, ShuffledInTime
  <2>4. n \in 0 .. Len(readings)
    BY <2>3
  <2>5. Prefix(readings, n) \in Seq(Readings)
    BY <2>1, <2>2, <2>4, ShuffledTyped, PrefixTyped
  <2>6. QED
    BY <1>e, <2>1, <2>2, <2>5, FileReplacedTyped
<1>11. CASE UNCHANGED dataVars
  BY <1>0, <1>11 DEF dataVars, ContentsInv
<1>12. QED
  BY <1>1, <1>2, <1>3, <1>4, <1>5, <1>6, <1>7, <1>8, <1>9, <1>10, <1>11
  DEF DataNext, ContainerStep

LEMMA EndsCounters ==
  ASSUME NEW outcome \in {"completed", "failed"}, Ends(outcome),
         xChunks' \subseteq 1 .. CHUNKS, yChunks' \subseteq 1 .. CHUNKS
  PROVE  CountersInv'
BY SizesOfRows DEF Ends, CountersInv, Devices

LEMMA CountersStep ==
  DataInv /\ WholeInv /\ CountersInv /\ [DataNext]_dataVars => CountersInv'
<1> SUFFICES ASSUME DataInv, WholeInv, CountersInv, [DataNext]_dataVars PROVE CountersInv'
  OBVIOUS
<1> USE DEF disk, converter
<1>0. xChunks \subseteq 1 .. CHUNKS /\ yChunks \subseteq 1 .. CHUNKS /\ Devices' = Devices
  BY DEF CountersInv, Devices
<1>1. CASE RunContainer \/ Download
  BY <1>0, <1>1 DEF RunContainer, Download, CountersInv
<1>2. CASE RemoveStaleChunks
  BY <1>0, <1>2 DEF RemoveStaleChunks, CountersInv
<1>3. CASE SaveX \/ SaveY
  <2>1. chunk \in 1 .. CHUNKS
    BY <1>3, PreparationAssumption DEF SaveX, SaveY, WholeInv, ChunksInv
  <2>2. xChunks' \subseteq 1 .. CHUNKS /\ yChunks' \subseteq 1 .. CHUNKS
    BY <1>0, <1>3, <2>1 DEF SaveX, SaveY
  <2>3. QED
    BY <1>0, <1>3, <2>2 DEF SaveX, SaveY, CountersInv
<1>4. CASE Assign \/ SpreadRow \/ Flushed
  BY <1>0, <1>4 DEF Assign, SpreadRow, Flushed, CountersInv
<1>5. ASSUME NEW dev \in Devices, FlushDevice(dev) PROVE CountersInv'
  <2>1. DataInv' /\ WholeInv'
    BY DataStep, ChunksStep, SpreadStep, EndStep DEF WholeInv
  <2>2. step = "flush" /\ step' = "flush"
    BY <1>5 DEF FlushDevice
  <2>3. \A d \in Devices : written'[d] <= CHUNKS * CHUNK_ROWS
    BY <1>0, <2>1, <2>2, WrittenWithin DEF WrittenFits
  <2>4. QED
    BY <1>0, <1>5, <2>3 DEF FlushDevice, CountersInv
<1>6. CASE ShuffleDevice \/ NoFileToShuffle
  <2>1. UNCHANGED <<xChunks, yChunks>> /\ step = "shuffle"
    BY <1>6 DEF ShuffleDevice, NoFileToShuffle
  <2>2. CASE Ends("completed")
    BY <1>0, <2>1, <2>2, EndsCounters
  <2>3. CASE /\ next < NUM_DEVICES - 1 /\ next' = next + 1
             /\ UNCHANGED <<step, result, assignment, written>>
    <3>1. next' \in Devices
      BY <2>3, PreparationAssumption DEF CountersInv, Devices
    <3>2. QED
      BY <1>0, <2>1, <2>3, <3>1 DEF CountersInv
  <2>4. QED
    BY <1>6, <2>2, <2>3 DEF ShuffleDevice, NoFileToShuffle, AfterShuffle
<1>7. CASE BreaksOff \/ DownloadBreaks \/ CleaningBreaks \/ RemovingBreaks \/ ShuffleBreaks
             \/ \E dev \in Devices : FlushBreaks(dev)
  <2>1. Ends("failed")
    BY <1>7 DEF BreaksOff, DownloadBreaks, CleaningBreaks, RemovingBreaks, ShuffleBreaks, FlushBreaks
  <2>2. xChunks' \subseteq xChunks /\ yChunks' \subseteq yChunks
    BY <1>7 DEF BreaksOff, DownloadBreaks, CleaningBreaks, RemovingBreaks, ShuffleBreaks, FlushBreaks
  <2>3. QED
    BY <1>0, <2>1, <2>2, EndsCounters
<1>8. CASE UNCHANGED dataVars
  BY <1>0, <1>8 DEF dataVars, CountersInv
<1>9. QED
  BY <1>1, <1>2, <1>3, <1>4, <1>5, <1>6, <1>7, <1>8 DEF DataNext, ContainerStep

LEMMA DataTyped == DataInv /\ WholeInv /\ ContentsInv /\ CountersInv => DataTypeOK
<1> SUFFICES ASSUME DataInv, WholeInv, ContentsInv, CountersInv PROVE DataTypeOK
  OBVIOUS
<1>1. CHUNKS \in Nat \ {0} /\ CHUNK_ROWS \in Nat \ {0} /\ CHUNKS * CHUNK_ROWS \in Nat
  BY PreparationAssumption, SizesOfRows
<1>2. raw \in 0 .. CHUNKS /\ chunk \in 1 .. CHUNKS /\ row \in 1 .. CHUNK_ROWS
  BY <1>1 DEF WholeInv, ChunksInv, SpreadInv, DataInv
<1>3. DOMAIN assignment \subseteq Rows
  <2>1. CASE step \in {"load", "flush", "shuffle"}
    <3>1. assignment \in [1 .. Total -> Devices]
      BY <2>1 DEF WholeInv, SpreadInv, FairDeal
    <3>2. PICK c \in 0 .. CHUNKS : c = raw
      BY <1>2
    <3>3. c * CHUNK_ROWS <= CHUNKS * CHUNK_ROWS /\ c * CHUNK_ROWS \in Nat
      BY <1>1, ProductMonotone
    <3>4. QED
      BY <1>1, <3>1, <3>2, <3>3 DEF Total, Rows
  <2>2. CASE step \notin {"load", "flush", "shuffle"}
    BY <2>2 DEF CountersInv
  <2>3. QED
    BY <2>1, <2>2
<1>4. buffers \in [Devices -> Seq(Rows)]
  BY DEF ContentsInv
<1>5. written \in [Devices -> 0 .. CHUNKS * CHUNK_ROWS]
  <2>1. written \in [Devices -> Nat] /\ \A dev \in Devices : written[dev] <= CHUNKS * CHUNK_ROWS
    BY DEF DataInv, CountersInv
  <2>2. \A dev \in Devices : written[dev] \in 0 .. CHUNKS * CHUNK_ROWS
    BY <1>1, <2>1
  <2>3. QED
    BY <2>1, <2>2
<1>6. /\ xChunks \subseteq 1 .. CHUNKS /\ yChunks \subseteq 1 .. CHUNKS
      /\ next \in Devices /\ result \in {"none", "completed", "failed"}
  BY DEF CountersInv
<1>7. /\ DOMAIN files \subseteq Devices
      /\ \A dev \in DOMAIN files : files[dev] \in Seq([row : Rows, time : Nat])
      /\ step \in {"idle", "download", "clean", "x", "y", "assign", "load", "flush", "shuffle"}
  BY DEF DataInv, ContentsInv, Readings
<1>8. QED
  BY <1>2, <1>3, <1>4, <1>5, <1>6, <1>7 DEF DataTypeOK

(* A step's attempts are counted from one, and a start that submits a job  *)
(* to the new job manager has had all the others answered with an error.   *)
AttemptsInv ==
    /\ at \in {"off", "check", "preparing", "down", "remove", "up", "topics",
               "ensure", "flink", "spark"}
    /\ at = "topics" => attempt \in 1 .. MAX_ATTEMPTS
    /\ at \in {"flink", "spark"} => attempt \in 1 .. MAX_RETRIES
    /\ at \notin {"topics", "flink", "spark"} => attempt = 1
    /\ at \in {"up", "topics", "ensure"} => jobs = 0
    /\ at = "flink" => jobs < attempt
    /\ jobs \in 0 .. MAX_RETRIES

PlatformInv ==
    /\ containers \subseteq Services
    /\ init \in {"absent", "waiting", "completed", "failed"}
    /\ partitions \in [TOPICS -> 0 .. PARTITIONS]
    /\ ensured \subseteq TOPICS /\ unraised \subseteq TOPICS
    /\ spark \in {"none", "running"}
    /\ starts \in 0 .. MaxStarts /\ faults \in 0 .. MaxFaults

LEMMA AttemptsStep == AttemptsInv /\ [Next]_vars => AttemptsInv'
<1> SUFFICES ASSUME AttemptsInv, [Next]_vars PROVE AttemptsInv'
  OBVIOUS
<1> USE StartupAssumption DEF platform, progress, Goto, Exit, Retry, AttemptsInv
<1>1. CASE Start \/ RunPreprocessor \/ SkipPreprocessor \/ Prepared
  BY <1>1 DEF Start, RunPreprocessor, SkipPreprocessor, Prepared
<1>2. CASE Down
  BY <1>2 DEF Down, Remaining
<1>3. CASE RemoveContainers
  <2>1. "flink-jobmanager" \notin containers \ Listed
    BY DEF Listed, Services
  <2>2. jobs' = 0
    BY <1>3, <2>1 DEF RemoveContainers, Remaining
  <2>3. QED
    BY <1>3, <2>2 DEF RemoveContainers
<1>4. CASE StartServices \/ StartDatabaseInit \/ InitDatabase \/ InitDatabaseFails \/ Up
  BY <1>4 DEF StartServices, StartDatabaseInit, InitDatabase, InitDatabaseFails, Up
<1>5. CASE KafkaReachable \/ KafkaNotReady \/ EnsureFails \/ TopicsReady
           \/ \E topic \in TOPICS : EnsureTopic(topic) \/ AutoCreate(topic)
  BY <1>5 DEF KafkaReachable, KafkaNotReady, EnsureFails, TopicsReady, EnsureTopic, AutoCreate
<1>6. CASE SubmitFlinkJob
  BY <1>6 DEF SubmitFlinkJob, AfterSubmission
<1>7. CASE SubmissionFails
  <2>1. jobs' \in {jobs, jobs + 1} /\ at = "flink" /\ jobs < attempt /\ attempt \in 1 .. MAX_RETRIES
    BY <1>7 DEF SubmissionFails
  <2>2. CASE attempt < MAX_RETRIES
    BY <1>7, <2>1, <2>2 DEF SubmissionFails, RetryOrExit
  <2>3. CASE ~(attempt < MAX_RETRIES)
    BY <1>7, <2>1, <2>3 DEF SubmissionFails, RetryOrExit
  <2>4. QED
    BY <2>2, <2>3
<1>8. CASE SparkRuns \/ SparkCompletes \/ SparkEnds \/ SparkSubmissionFails
  BY <1>8 DEF SparkRuns, SparkCompletes, SparkEnds, SparkSubmissionFails, RetryOrExit
<1>9. CASE Interrupt \/ PrepareByHand \/ PreprocessorStep
  BY <1>9 DEF Interrupt, PrepareByHand, PreprocessorStep, startVars
<1>10. CASE Reboot
  BY <1>10 DEF Reboot, Remaining
<1>11. ASSUME NEW service \in Services, ContainerDies(service) PROVE AttemptsInv'
  BY <1>11 DEF ContainerDies, Remaining
<1>12. CASE UNCHANGED vars
  BY <1>12 DEF vars, startVars
<1>13. QED
  BY <1>1, <1>2, <1>3, <1>4, <1>5, <1>6, <1>7, <1>8, <1>9, <1>10, <1>11, <1>12
  DEF Next, StartStep, Environment

LEMMA PlatformStep == PlatformInv /\ [Next]_vars => PlatformInv'
<1> SUFFICES ASSUME PlatformInv, [Next]_vars PROVE PlatformInv'
  OBVIOUS
<1> USE StartupAssumption DEF platform, progress, Goto, Exit, Retry, PlatformInv
<1>1. CASE Start \/ RunPreprocessor \/ SkipPreprocessor \/ Prepared
  BY <1>1 DEF Start, RunPreprocessor, SkipPreprocessor, Prepared
<1>2. CASE Down \/ RemoveContainers
  BY <1>2 DEF Down, RemoveContainers, Remaining
<1>3. CASE StartServices
  BY <1>3 DEF StartServices, Startable
<1>4. CASE StartDatabaseInit \/ InitDatabase \/ InitDatabaseFails \/ Up
  BY <1>4 DEF StartDatabaseInit, InitDatabase, InitDatabaseFails, Up
<1>5. CASE KafkaReachable \/ KafkaNotReady \/ EnsureFails \/ TopicsReady
  BY <1>5 DEF KafkaReachable, KafkaNotReady, EnsureFails, TopicsReady
<1>6. ASSUME NEW topic \in TOPICS, EnsureTopic(topic) \/ AutoCreate(topic) PROVE PlatformInv'
  <2>1. PICK count \in 0 .. PARTITIONS : partitions' = [partitions EXCEPT ![topic] = count]
    BY <1>6 DEF EnsureTopic, AfterEnsuring, AutoCreate
  <2>2. partitions' \in [TOPICS -> 0 .. PARTITIONS]
    BY <2>1
  <2>3. ensured' \subseteq TOPICS /\ unraised' \subseteq TOPICS
    BY <1>6 DEF EnsureTopic, AutoCreate
  <2>4. QED
    BY <1>6, <2>2, <2>3 DEF EnsureTopic, AutoCreate
<1>7. CASE SubmitFlinkJob \/ SubmissionFails
  BY <1>7 DEF SubmitFlinkJob, AfterSubmission, SubmissionFails, RetryOrExit
<1>8. CASE SparkRuns \/ SparkCompletes \/ SparkEnds \/ SparkSubmissionFails
  BY <1>8 DEF SparkRuns, SparkCompletes, SparkEnds, SparkSubmissionFails, RetryOrExit
<1>9. CASE Interrupt \/ PrepareByHand \/ PreprocessorStep
  BY <1>9 DEF Interrupt, PrepareByHand, PreprocessorStep, startVars
<1>10. CASE Reboot \/ \E service \in Services : ContainerDies(service)
  BY <1>10 DEF Reboot, ContainerDies, Fault, Remaining
<1>11. CASE UNCHANGED vars
  BY <1>11 DEF vars, startVars
<1>12. QED
  BY <1>1, <1>2, <1>3, <1>4, <1>5, <1>6, <1>7, <1>8, <1>9, <1>10, <1>11
  DEF Next, StartStep, Environment

(* The disk, the converter and the platform keep their types: the rows of  *)
(* a device, written and to be written, are rows of the dataset and no     *)
(* more than it has, and no start submits more than MAX_RETRIES jobs.      *)
THEOREM TypeCorrect == Spec => []StartupTypeOK
<1>1. DataSpec => [](DataInv /\ WholeInv)
  <2>1. DataInv /\ WholeInv /\ [DataNext]_dataVars => DataInv' /\ WholeInv'
    BY DataStep, ChunksStep, SpreadStep, EndStep DEF WholeInv
  <2>2. QED
    BY <2>1, DataStart, WholeStart, PTL DEF DataSpec
<1>2. DataInit => ContentsInv /\ CountersInv
  BY SizesOfRows, EmptyTyped DEF DataInit, ContentsInv, CountersInv
<1>3. DataSpec => [](ContentsInv /\ CountersInv)
  BY <1>1, <1>2, ContentsStep, CountersStep, PTL DEF DataSpec
<1>4. Init => AttemptsInv /\ PlatformInv
  BY StartupAssumption DEF Init, AttemptsInv, PlatformInv
<1>5. Spec => [](AttemptsInv /\ PlatformInv)
  BY <1>4, AttemptsStep, PlatformStep, PTL DEF Spec
<1>6. Spec => []JobsInv
  BY JobsStart, JobsStep, PTL DEF Spec
<1>7. DataTypeOK /\ AttemptsInv /\ PlatformInv /\ JobsInv => StartupTypeOK
  <2> SUFFICES ASSUME DataTypeOK, AttemptsInv, PlatformInv, JobsInv PROVE StartupTypeOK
    OBVIOUS
  <2>1. attempt \in 1 .. MAX_ATTEMPTS + MAX_RETRIES
    BY StartupAssumption DEF AttemptsInv
  <2>2. jobs \in 0 .. MAX_RETRIES /\ misreported \in 0 .. MAX_RETRIES
    BY StartupAssumption DEF AttemptsInv, JobsInv
  <2>3. QED
    BY <2>1, <2>2 DEF StartupTypeOK, AttemptsInv, PlatformInv
<1>8. QED
  BY <1>1, <1>3, <1>5, <1>6, <1>7, DataTyped, StartupPreparesData, PTL

=============================================================================
