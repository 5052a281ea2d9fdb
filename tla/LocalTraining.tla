---------------------------- MODULE LocalTraining ----------------------------
(***************************************************************************)
(* When a device's local model is trained                                  *)
(* (scripts/03_flink_local_training.py, map and _training_due, and         *)
(* first_training_readings of scripts/flink_models.py).  Devices share     *)
(* nothing here, so the module follows one of them, with any offset the    *)
(* hash of its name may give it.  What a round computes is the subject of  *)
(* FederatedLearning.                                                      *)
(***************************************************************************)
EXTENDS Integers

CONSTANTS
    MIN_TRAIN_SAMPLES,
    MODEL_TRAINING_INTERVAL_ROWS,
    LOCAL_WINDOW_SIZE

ASSUME TrainingAssumption ==
    /\ MIN_TRAIN_SAMPLES \in Nat \ {0}
    /\ MODEL_TRAINING_INTERVAL_ROWS \in Nat \ {0}
    /\ LOCAL_WINDOW_SIZE \in Nat
    /\ MIN_TRAIN_SAMPLES <= LOCAL_WINDOW_SIZE

VARIABLES
    offset,     \* crc32 of the device's name modulo the interval
    window,     \* len(windows[device_id])
    since,      \* readings_since_training
    timer,      \* last_training_time: "unset", "running", or "elapsed" once
                \* it is MODEL_TRAINING_INTERVAL_SECONDS ago
    trained,    \* device_id in model_versions
    readings,   \* history: labelled readings, modulo the interval
    regular     \* history: no round was started by the timer

vars == <<offset, window, since, timer, trained, readings, regular>>

Offsets == 0 .. MODEL_TRAINING_INTERVAL_ROWS - 1

TypeOK ==
    /\ offset \in Offsets
    /\ window \in 0 .. LOCAL_WINDOW_SIZE
    /\ since \in 0 .. MIN_TRAIN_SAMPLES + MODEL_TRAINING_INTERVAL_ROWS
    /\ timer \in {"unset", "running", "elapsed"}
    /\ trained \in BOOLEAN
    /\ readings \in Offsets
    /\ regular \in BOOLEAN

Init ==
    /\ offset \in Offsets
    /\ window = 0
    /\ since = 0
    /\ timer = "unset"
    /\ trained = FALSE
    /\ readings = 0
    /\ regular = TRUE

-----------------------------------------------------------------------------
(* A slip of Needed: the first round is not staggered.                     *)
NeededUnstaggered == MODEL_TRAINING_INTERVAL_ROWS

(* Readings before the next round; the first one is staggered.             *)
Needed == IF trained THEN MODEL_TRAINING_INTERVAL_ROWS ELSE MIN_TRAIN_SAMPLES + offset

(* A slip of Enough: one reading too late.                                 *)
EnoughLate(n) == n > Needed

Enough(n) == n >= Needed

(* A slip of StartTimer: every reading restarts the time.                  *)
StartTimerAlways(w) == IF w >= MIN_TRAIN_SAMPLES THEN "running" ELSE timer

(* setdefault: the time runs from the first reading with a full window.    *)
StartTimer(w) == IF w >= MIN_TRAIN_SAMPLES /\ timer = "unset" THEN "running" ELSE timer

TrainingDue(w, n) == w >= MIN_TRAIN_SAMPLES /\ (Enough(n) \/ StartTimer(w) = "elapsed")

Windowed == IF window < LOCAL_WINDOW_SIZE THEN window + 1 ELSE window

(* map, for one reading with features: labelled readings enter the window  *)
(* and count, any reading may find training due.                           *)
Reading(labelled) ==
    LET w == IF labelled THEN Windowed ELSE window
        n == IF labelled THEN since + 1 ELSE since
    IN  /\ window' = w
        /\ readings' = IF labelled THEN (readings + 1) % MODEL_TRAINING_INTERVAL_ROWS ELSE readings
        /\ IF TrainingDue(w, n)
           THEN /\ since' = 0
                /\ timer' = "running"
                /\ trained' = TRUE
                /\ regular' = (regular /\ Enough(n))
           ELSE /\ since' = n
                /\ timer' = StartTimer(w)
                /\ UNCHANGED <<trained, regular>>
        /\ UNCHANGED offset

TimeElapses ==
    /\ timer = "running"
    /\ timer' = "elapsed"
    /\ UNCHANGED <<offset, window, since, trained, readings, regular>>

Next == TimeElapses \/ \E labelled \in BOOLEAN : Reading(labelled)

Spec == Init /\ [][Next]_vars

(* The producer streams every device for as long as it runs.               *)
FairSpec == Spec /\ WF_vars(TimeElapses) /\ WF_vars(\E labelled \in BOOLEAN : Reading(labelled))

-----------------------------------------------------------------------------
(* Properties.                                                             *)

(* A round is never late: as soon as the readings the device needs have    *)
(* come in, they have been trained on, timer rounds or unlabelled readings *)
(* in between or not.                                                      *)
TrainsInTime == since < Needed

(* Unless the timer steps in, every round of a device falls on the reading *)
(* its offset gives the first one, so devices whose first rounds were      *)
(* spread over the interval stay spread.                                   *)
StaysStaggered ==
    (regular /\ trained) =>
        since = (readings - MIN_TRAIN_SAMPLES - offset) % MODEL_TRAINING_INTERVAL_ROWS

(* A device that streams slowly, or gets no labels any more, is trained    *)
(* all the same once its window is large enough.                           *)
SlowDevicesTrain == window >= MIN_TRAIN_SAMPLES ~> trained /\ since = 0

=============================================================================
