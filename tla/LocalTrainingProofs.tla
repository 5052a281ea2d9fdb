------------------------- MODULE LocalTrainingProofs -------------------------
(***************************************************************************)
(* Theorems about when a device trains, for every interval, offset and     *)
(* window size.                                                            *)
(***************************************************************************)
EXTENDS LocalTraining, TLAPS

(* Until the window holds enough samples it holds every labelled reading   *)
(* counted, so a device that has counted enough always may train.          *)
InTimeInv ==
    /\ offset \in Nat /\ window \in Nat /\ since \in Nat /\ trained \in BOOLEAN
    /\ trained => window >= MIN_TRAIN_SAMPLES
    /\ window >= MIN_TRAIN_SAMPLES \/ window = since
    /\ TrainsInTime

LEMMA InTimeStep == InTimeInv /\ [Next]_vars => InTimeInv'
<1> SUFFICES ASSUME InTimeInv, [Next]_vars PROVE InTimeInv'
  OBVIOUS
<1>1. ASSUME NEW labelled \in BOOLEAN, Reading(labelled) PROVE InTimeInv'
  <2> DEFINE w == IF labelled THEN Windowed ELSE window
             n == IF labelled THEN since + 1 ELSE since
  <2>1. /\ window' = w /\ offset' = offset
        /\ TrainingDue(w, n) => since' = 0 /\ trained' = TRUE
        /\ ~TrainingDue(w, n) => since' = n /\ trained' = trained
    BY <1>1 DEF Reading
  <2>2. /\ w \in Nat /\ n \in Nat
        /\ w >= MIN_TRAIN_SAMPLES \/ w = n
        /\ trained => w >= MIN_TRAIN_SAMPLES
    BY TrainingAssumption DEF InTimeInv, Windowed
  <2>3. CASE TrainingDue(w, n)
    <3>1. w >= MIN_TRAIN_SAMPLES
      BY <2>3 DEF TrainingDue
    <3>2. since' < Needed'
      BY <2>1, <2>3, TrainingAssumption DEF Needed, InTimeInv
    <3>3. QED
      BY <2>1, <2>2, <2>3, <3>1, <3>2 DEF InTimeInv, TrainsInTime
  <2>4. CASE ~TrainingDue(w, n)
    <3>1. w < MIN_TRAIN_SAMPLES \/ n < Needed
      BY <2>2, <2>4, TrainingAssumption DEF TrainingDue, Enough, Needed, InTimeInv
    <3>2. n < Needed
      BY <2>2, <3>1, TrainingAssumption DEF Needed, InTimeInv
    <3>3. QED
      BY <2>1, <2>2, <2>4, <3>2 DEF InTimeInv, TrainsInTime, Needed
  <2>5. QED
    BY <2>3, <2>4
<1>2. CASE TimeElapses
  BY <1>2 DEF TimeElapses, InTimeInv, TrainsInTime, Needed
<1>3. CASE UNCHANGED vars
  BY <1>3 DEF vars, InTimeInv, TrainsInTime, Needed
<1>4. QED
  BY <1>1, <1>2, <1>3 DEF Next

(* No device ever waits with the labelled readings of a round in hand:     *)
(* _training_due, looked at after every reading, finds the round at the    *)
(* reading that completes it.                                              *)
THEOREM RoundsInTime == Spec => []TrainsInTime
<1>1. ASSUME Init PROVE InTimeInv
  <2>1. offset \in Nat /\ window = 0 /\ since = 0 /\ trained = FALSE
    BY <1>1, TrainingAssumption DEF Init, Offsets
  <2>2. MIN_TRAIN_SAMPLES + offset > 0
    BY <2>1, TrainingAssumption
  <2>3. TrainsInTime
    BY <2>1, <2>2 DEF TrainsInTime, Needed
  <2>4. QED
    BY <2>1, <2>3 DEF InTimeInv
<1>2. InTimeInv => TrainsInTime
  BY DEF InTimeInv
<1>3. QED
  BY <1>1, <1>2, InTimeStep, PTL DEF Spec

-----------------------------------------------------------------------------
(* Staggered rounds.  The labelled readings, counted modulo the interval,  *)
(* are those before the first round plus those since the last one: rounds  *)
(* no timer started are whole intervals apart.                             *)

LEMMA ModUnique ==
    ASSUME NEW x \in Int, NEW m \in Nat \ {0}, NEW q \in Int, NEW r \in 0 .. m - 1,
           x = q * m + r
    PROVE  x % m = r
<1> DEFINE d == x \div m
           s == x % m
<1>1. x = d * m + s /\ d \in Int /\ s \in 0 .. m - 1
  OBVIOUS
<1> HIDE DEF d, s
<1>2. (d - q) * m = r - s /\ (q - d) * m = s - r
  BY <1>1
<1>3. ASSUME NEW k \in Int, k >= 1 PROVE k * m >= m
  BY <1>3
<1>4. ~(d - q >= 1) /\ ~(q - d >= 1)
  BY <1>1, <1>2, <1>3
<1>5. d = q
  BY <1>1, <1>4
<1>6. s = r
  BY <1>1, <1>5
<1>7. QED
  BY <1>6 DEF s

BeforeFirst == IF trained THEN MIN_TRAIN_SAMPLES + offset ELSE 0

WholeIntervals ==
    \E q \in Int : readings = q * MODEL_TRAINING_INTERVAL_ROWS + BeforeFirst + since

StaggerInv ==
    /\ readings \in 0 .. MODEL_TRAINING_INTERVAL_ROWS - 1
    /\ regular \in BOOLEAN
    /\ regular => WholeIntervals

LEMMA NextCount ==
    ASSUME StaggerInv
    PROVE  \E c \in {0, 1} : (readings + 1) % MODEL_TRAINING_INTERVAL_ROWS
                                = readings + 1 - c * MODEL_TRAINING_INTERVAL_ROWS
<1> DEFINE I == MODEL_TRAINING_INTERVAL_ROWS
<1>1. I \in Nat \ {0} /\ readings \in 0 .. I - 1
  BY TrainingAssumption DEF StaggerInv
<1> HIDE DEF I
<1>2. CASE readings + 1 < I
  <2>1. readings + 1 \in 0 .. I - 1 /\ readings + 1 = 0 * I + (readings + 1)
    BY <1>1, <1>2
  <2>2. (readings + 1) % I = readings + 1 - 0 * I
    BY <1>1, <2>1, ModUnique
  <2>3. QED
    BY <2>2 DEF I
<1>3. CASE readings + 1 = I
  <2>1. 0 \in 0 .. I - 1 /\ readings + 1 = 1 * I + 0
    BY <1>1, <1>3
  <2>2. (readings + 1) % I = 0
    BY <1>1, <2>1, ModUnique
  <2>3. (readings + 1) % I = readings + 1 - 1 * I
    BY <1>1, <1>3, <2>2
  <2>4. QED
    BY <2>3 DEF I
<1>4. QED
  BY <1>1, <1>2, <1>3

LEMMA StaggerStep ==
    ASSUME InTimeInv, StaggerInv, [Next]_vars
    PROVE  StaggerInv'
<1> DEFINE I == MODEL_TRAINING_INTERVAL_ROWS
<1>1. /\ I \in Nat \ {0} /\ MIN_TRAIN_SAMPLES \in Nat
      /\ offset \in Nat /\ since \in Nat /\ trained \in BOOLEAN
      /\ readings \in 0 .. I - 1
  BY TrainingAssumption DEF InTimeInv, StaggerInv
<1>2. since < Needed /\ Needed \in Nat
  BY <1>1 DEF InTimeInv, TrainsInTime, Needed
<1>3. CASE Reading(FALSE)
  <2>1. readings' = readings /\ offset' = offset
    BY <1>3 DEF Reading
  <2>2. ~Enough(since)
    BY <1>1, <1>2 DEF Enough
  <2>3. CASE TrainingDue(window, since)
    <3>1. regular' = FALSE
      BY <1>3, <2>2, <2>3 DEF Reading, StaggerInv
    <3>2. QED
      BY <2>1, <3>1 DEF StaggerInv
  <2>4. CASE ~TrainingDue(window, since)
    <3>1. since' = since /\ trained' = trained /\ regular' = regular
      BY <1>3, <2>4 DEF Reading
    <3>2. QED
      BY <2>1, <3>1 DEF StaggerInv, WholeIntervals, BeforeFirst
  <2>5. QED
    BY <2>3, <2>4
<1>4. CASE Reading(TRUE)
  <2>1. PICK c \in {0, 1} : (readings + 1) % I = readings + 1 - c * I
    BY NextCount
  <2>2. readings' = readings + 1 - c * I /\ offset' = offset
    BY <1>4, <2>1 DEF Reading
  <2>3. readings' \in 0 .. I - 1
    BY <1>1, <1>4 DEF Reading
  <2> DEFINE n == since + 1
  <2>4. CASE TrainingDue(Windowed, n)
    <3>1. since' = 0 /\ trained' = TRUE /\ regular' = (regular /\ Enough(n))
      BY <1>4, <2>4 DEF Reading
    <3>2. ASSUME regular, Enough(n) PROVE WholeIntervals'
      <4>1. PICK q \in Int : readings = q * I + BeforeFirst + since
        BY <3>2 DEF StaggerInv, WholeIntervals
      <4>2. since + 1 = Needed
        BY <1>1, <1>2, <3>2 DEF Enough
      <4>3. BeforeFirst' = MIN_TRAIN_SAMPLES + offset
        BY <2>2, <3>1 DEF BeforeFirst
      <4>4. CASE trained
        <5>1. readings' = (q - c + 1) * I + MIN_TRAIN_SAMPLES + offset
          BY <1>1, <2>2, <4>1, <4>2, <4>4 DEF BeforeFirst, Needed
        <5>2. readings' = (q - c + 1) * I + BeforeFirst' + since'
          BY <1>1, <3>1, <4>3, <5>1
        <5>3. q - c + 1 \in Int
          OBVIOUS
        <5>4. QED
          BY <5>2, <5>3, Zenon DEF WholeIntervals
      <4>5. CASE ~trained
        <5>1. readings' = (q - c) * I + MIN_TRAIN_SAMPLES + offset
          BY <1>1, <2>2, <4>1, <4>2, <4>5 DEF BeforeFirst, Needed
        <5>2. readings' = (q - c) * I + BeforeFirst' + since'
          BY <1>1, <3>1, <4>3, <5>1
        <5>3. q - c \in Int
          OBVIOUS
        <5>4. QED
          BY <5>2, <5>3, Zenon DEF WholeIntervals
      <4>6. QED
        BY <4>4, <4>5
    <3>3. QED
      BY <2>3, <3>1, <3>2 DEF StaggerInv
  <2>5. CASE ~TrainingDue(Windowed, n)
    <3>1. since' = since + 1 /\ trained' = trained /\ regular' = regular
      BY <1>4, <2>5 DEF Reading
    <3>2. BeforeFirst' = BeforeFirst /\ BeforeFirst \in Nat
      BY <1>1, <2>2, <3>1 DEF BeforeFirst
    <3>3. ASSUME regular PROVE WholeIntervals'
      <4>1. PICK q \in Int : readings = q * I + BeforeFirst + since
        BY <3>3 DEF StaggerInv, WholeIntervals
      <4>2. readings' = (q - c) * I + BeforeFirst' + since'
        BY <1>1, <2>2, <3>1, <3>2, <4>1
      <4>3. q - c \in Int
        OBVIOUS
      <4>4. QED
        BY <4>2, <4>3, Zenon DEF WholeIntervals
    <3>4. QED
      BY <2>3, <3>1, <3>3 DEF StaggerInv
  <2>6. QED
    BY <2>4, <2>5
<1>5. CASE TimeElapses
  BY <1>5 DEF TimeElapses, StaggerInv, WholeIntervals, BeforeFirst
<1>6. CASE UNCHANGED vars
  BY <1>6 DEF vars, StaggerInv, WholeIntervals, BeforeFirst
<1>7. QED
  BY <1>3, <1>4, <1>5, <1>6 DEF Next

(* As long as no round of a device is started by the timer, every round    *)
(* falls on the same reading modulo the interval as the first one, which   *)
(* the offset places: devices that start staggered stay staggered.         *)
THEOREM Staggered == Spec => []StaysStaggered
<1>1. ASSUME Init PROVE InTimeInv /\ StaggerInv
  <2>1. /\ offset \in Nat /\ window = 0 /\ since = 0 /\ trained = FALSE
        /\ readings = 0 /\ regular = TRUE
    BY <1>1, TrainingAssumption DEF Init, Offsets
  <2>2. MIN_TRAIN_SAMPLES + offset > 0 /\ 0 \in 0 .. MODEL_TRAINING_INTERVAL_ROWS - 1
    BY <2>1, TrainingAssumption
  <2>3. InTimeInv
    BY <2>1, <2>2 DEF InTimeInv, TrainsInTime, Needed
  <2>4. readings = 0 * MODEL_TRAINING_INTERVAL_ROWS + BeforeFirst + since
    BY <2>1, TrainingAssumption DEF BeforeFirst
  <2>5. QED
    BY <2>1, <2>2, <2>3, <2>4 DEF StaggerInv, WholeIntervals
<1>2. ASSUME InTimeInv, StaggerInv PROVE StaysStaggered
  <2>1. SUFFICES ASSUME regular, trained
                 PROVE  since = (readings - MIN_TRAIN_SAMPLES - offset)
                                   % MODEL_TRAINING_INTERVAL_ROWS
    BY DEF StaysStaggered
  <2> DEFINE I == MODEL_TRAINING_INTERVAL_ROWS
             x == readings - MIN_TRAIN_SAMPLES - offset
  <2>2. /\ I \in Nat \ {0} /\ MIN_TRAIN_SAMPLES \in Nat /\ offset \in Nat
        /\ readings \in Int /\ since \in 0 .. I - 1
    BY <1>2, <2>1, TrainingAssumption DEF InTimeInv, StaggerInv, TrainsInTime, Needed
  <2>3. PICK q \in Int : readings = q * I + MIN_TRAIN_SAMPLES + offset + since
    BY <1>2, <2>1, <2>2 DEF StaggerInv, WholeIntervals, BeforeFirst
  <2>4. x \in Int /\ x = q * I + since
    BY <2>2, <2>3
  <2>5. x % I = since
    BY <2>2, <2>4, ModUnique
  <2>6. QED
    BY <2>5
<1>3. QED
  BY <1>1, <1>2, InTimeStep, StaggerStep, PTL DEF Spec

-----------------------------------------------------------------------------
(* Types.  The count is bounded because no round is late.                  *)

LEMMA CountBound ==
    ASSUME NEW o \in Offsets, NEW n \in Nat,
           n < MODEL_TRAINING_INTERVAL_ROWS \/ n < MIN_TRAIN_SAMPLES + o
    PROVE  n \in 0 .. MIN_TRAIN_SAMPLES + MODEL_TRAINING_INTERVAL_ROWS
BY TrainingAssumption DEF Offsets

LEMMA TypeStep == TypeOK /\ InTimeInv /\ [Next]_vars => TypeOK'
<1> SUFFICES ASSUME TypeOK, InTimeInv, [Next]_vars PROVE TypeOK'
  OBVIOUS
<1>1. ASSUME NEW labelled \in BOOLEAN, Reading(labelled) PROVE TypeOK'
  <2>1. InTimeInv'
    BY InTimeStep
  <2>2. since' \in Nat /\ since' < Needed'
    BY <2>1 DEF InTimeInv, TrainsInTime
  <2>3. offset' \in Offsets
    BY <1>1 DEF Reading, TypeOK
  <2>4. since' \in 0 .. MIN_TRAIN_SAMPLES + MODEL_TRAINING_INTERVAL_ROWS
    <3>1. PICK o \in Offsets : o = offset'
      BY <2>3
    <3>2. PICK n \in Nat : n = since'
      BY <2>2
    <3>3. CASE n < MODEL_TRAINING_INTERVAL_ROWS
      BY <3>2, <3>3, CountBound
    <3>4. CASE n < MIN_TRAIN_SAMPLES + o
      BY <3>2, <3>4, CountBound
    <3>5. QED
      <4>1. Needed' = MODEL_TRAINING_INTERVAL_ROWS \/ Needed' = MIN_TRAIN_SAMPLES + o
        BY <3>1, Zenon DEF Needed
      <4>2. n < Needed'
        BY <2>2, <3>2
      <4>3. QED
        BY <3>3, <3>4, <4>1, <4>2, Zenon
  <2>5. window' \in 0 .. LOCAL_WINDOW_SIZE
    <3>1. window' \in {window, Windowed}
      BY <1>1 DEF Reading
    <3>2. QED
      BY <3>1, TrainingAssumption DEF Windowed, TypeOK
  <2>6. readings' \in Offsets
    <3>1. readings + 1 \in Int /\ MODEL_TRAINING_INTERVAL_ROWS \in Nat \ {0}
      BY TrainingAssumption DEF TypeOK, Offsets
    <3>2. (readings + 1) % MODEL_TRAINING_INTERVAL_ROWS \in Offsets
      BY <3>1 DEF Offsets
    <3>3. QED
      BY <1>1, <3>2 DEF Reading, TypeOK
  <2>7. timer' \in {"unset", "running", "elapsed"}
    BY <1>1 DEF Reading, StartTimer, TypeOK
  <2>8. trained' \in BOOLEAN /\ regular' \in BOOLEAN
    BY <1>1, Zenon DEF Reading, TypeOK
  <2>9. QED
    BY <2>3, <2>4, <2>5, <2>6, <2>7, <2>8 DEF TypeOK
<1>2. CASE TimeElapses
  BY <1>2 DEF TimeElapses, TypeOK
<1>3. CASE UNCHANGED vars
  BY <1>3 DEF vars, TypeOK
<1>4. QED
  BY <1>1, <1>2, <1>3 DEF Next

(* Every variable keeps its type; in particular readings_since_training    *)
(* stays below the first round's samples and one interval.                 *)
THEOREM TypeCorrect == Spec => []TypeOK
<1>1. Init => TypeOK
  <2>1. Init => trained \in BOOLEAN /\ regular \in BOOLEAN
    BY Zenon DEF Init
  <2>2. Init => /\ window \in 0 .. LOCAL_WINDOW_SIZE /\ readings \in Offsets
                /\ since \in 0 .. MIN_TRAIN_SAMPLES + MODEL_TRAINING_INTERVAL_ROWS
    BY TrainingAssumption DEF Init, Offsets
  <2>3. QED
    BY <2>1, <2>2 DEF Init, TypeOK
<1>2. Init => InTimeInv
  <2> SUFFICES ASSUME Init PROVE InTimeInv
    OBVIOUS
  <2>1. offset \in Nat /\ window = 0 /\ since = 0 /\ trained = FALSE
    BY TrainingAssumption DEF Init, Offsets
  <2>2. TrainsInTime
    BY <2>1, TrainingAssumption DEF TrainsInTime, Needed
  <2>3. QED
    BY <2>1, <2>2 DEF InTimeInv
<1>3. QED
  BY <1>1, <1>2, TypeStep, InTimeStep, PTL DEF Spec

=============================================================================
