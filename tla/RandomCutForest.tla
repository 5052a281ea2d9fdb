--------------------------- MODULE RandomCutForest ---------------------------
(***************************************************************************)
(* The sliding window of a worker's random cut forest                      *)
(* (scripts/flink_models.py, class RandomCutForest): which readings its    *)
(* trees hold, by the index update gives them.  Where a tree puts a point, *)
(* and so the score, is left out.  The trees belong to the library rrcf,   *)
(* which refuses to forget an index it does not hold and may fail to       *)
(* insert a point; the caller logs either and drops the reading.           *)
(***************************************************************************)
EXTENDS Integers, FiniteSets

CONSTANTS
    num_trees,
    tree_size,
    MaxPoints,       \* bound: readings
    MaxFaults        \* bound: insertions that fail

ASSUME ForestAssumption ==
    /\ num_trees \in Nat \ {0} /\ tree_size \in Nat \ {0}
    /\ MaxPoints \in Nat /\ MaxFaults \in Nat

VARIABLES
    leaves,          \* the indices each tree holds
    points_seen,     \* the index of the next reading
    dropped,         \* readings whose update failed
    faults           \* insertions that failed

vars == <<leaves, points_seen, dropped, faults>>

Trees == 1 .. num_trees

TypeOK ==
    /\ leaves \in [Trees -> SUBSET (0 .. points_seen - 1)]
    /\ points_seen \in 0 .. MaxPoints
    /\ dropped \subseteq 0 .. points_seen - 1
    /\ faults \in 0 .. MaxFaults

Init ==
    /\ leaves = [tree \in Trees |-> {}]
    /\ points_seen = 0
    /\ dropped = {}
    /\ faults = 0

-----------------------------------------------------------------------------
(* A slip of IsFull: one point too many.                                   *)
IsFullLate(tree) == Cardinality(leaves[tree]) > tree_size + 1

IsFull(tree) == Cardinality(leaves[tree]) > tree_size

(* A slip of Forgotten: points_seen has been raised already.               *)
ForgottenAfterIncrement == points_seen + 1 - tree_size

Forgotten == points_seen - tree_size

(* forget_point raises if the tree does not hold the index.                *)
CanForget(tree) == IsFull(tree) => Forgotten \in leaves[tree]

Trimmed(tree) == IF IsFull(tree) THEN leaves[tree] \ {Forgotten} ELSE leaves[tree]

Inserted(tree) == Trimmed(tree) \cup {points_seen}

(* Every reading uses up an index, also one whose update fails.            *)
NextReading ==
    /\ points_seen < MaxPoints
    /\ points_seen' = points_seen + 1

Update ==
    /\ NextReading
    /\ \A tree \in Trees : CanForget(tree)
    /\ leaves' = [tree \in Trees |-> Inserted(tree)]
    /\ UNCHANGED <<dropped, faults>>

(* The trees are updated in turn: those before the failing one hold the    *)
(* reading, those after it keep what they had.                             *)
UpdateBreaksAt(tree, left) ==
    /\ NextReading
    /\ \A k \in 1 .. tree - 1 : CanForget(k)
    /\ leaves' = [k \in Trees |-> IF k < tree THEN Inserted(k)
                                  ELSE IF k = tree THEN left ELSE leaves[k]]
    /\ dropped' = dropped \cup {points_seen}

ForgetFails(tree) ==
    /\ ~CanForget(tree)
    /\ UpdateBreaksAt(tree, leaves[tree])
    /\ UNCHANGED faults

InsertFails(tree) ==
    /\ faults < MaxFaults
    /\ CanForget(tree)
    /\ UpdateBreaksAt(tree, Trimmed(tree))
    /\ faults' = faults + 1

Next == Update \/ \E tree \in Trees : ForgetFails(tree) \/ InsertFails(tree)

Spec == Init /\ [][Next]_vars

-----------------------------------------------------------------------------
(* Properties.                                                             *)

LastPoints(n) == {i \in 0 .. points_seen - 1 : i >= points_seen - n}

FirstPoint == {0} \cap LastPoints(points_seen)

(* As long as every insertion succeeds, every tree holds the last          *)
(* tree_size points and the very first one, so the point an update wants   *)
(* to forget is always there and no reading is dropped.  This is not the   *)
(* window the docstring describes: see WindowIsMostRecent.                 *)
WindowIsFirstAndLast ==
    faults = 0 => /\ \A tree \in Trees :
                        leaves[tree] = LastPoints(tree_size) \cup FirstPoint
                  /\ dropped = {}

(* No tree outgrows the window, whatever failed before.                    *)
WindowIsBounded == \A tree \in Trees : Cardinality(leaves[tree]) <= tree_size + 1

(* Failures repeat: a tree that missed a reading cannot forget it later.   *)
(* But a reading is dropped only for a failed insertion or for an earlier  *)
(* reading, dropped too, that it should have replaced.                     *)
DroppedForAReason ==
    Cardinality({i \in dropped : i - tree_size \notin dropped}) <= faults

-----------------------------------------------------------------------------
(* What the class and the documents say, and the code does not keep.       *)

(* Every tree holds the most recent tree_size points only.  The trees hold *)
(* one point more, which is granted here; but the first point of all is    *)
(* never evicted, however old it is.                                       *)
WindowIsMostRecent ==
    faults = 0 => \A tree \in Trees : leaves[tree] \subseteq LastPoints(tree_size + 1)

=============================================================================
