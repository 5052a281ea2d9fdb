----------------------- MODULE RandomCutForestProofs -----------------------
(***************************************************************************)
(* Theorems about the forest's window, for every number and size of trees. *)
(***************************************************************************)
EXTENDS RandomCutForest, FiniteSetTheorems, TLAPS

-----------------------------------------------------------------------------
(* Bounded windows.  A tree that takes a point had room or forgot one.     *)

Bounded(S) == IsFiniteSet(S) /\ Cardinality(S) <= tree_size + 1

BoundInv ==
    /\ points_seen \in Nat
    /\ leaves = [tree \in Trees |-> leaves[tree]]
    /\ \A tree \in Trees : Bounded(leaves[tree])

LEMMA TrimmedBounded ==
    ASSUME BoundInv, NEW tree \in Trees, CanForget(tree)
    PROVE  IsFiniteSet(Trimmed(tree)) /\ Cardinality(Trimmed(tree)) <= tree_size
<1>1. IsFiniteSet(leaves[tree]) /\ Cardinality(leaves[tree]) <= tree_size + 1
  BY DEF BoundInv, Bounded
<1>2. Cardinality(leaves[tree]) \in Nat
  BY <1>1, FS_CardinalityType
<1>3. CASE IsFull(tree)
  <2>1. Forgotten \in leaves[tree] /\ Trimmed(tree) = leaves[tree] \ {Forgotten}
    BY <1>3 DEF CanForget, Trimmed
  <2>2. /\ IsFiniteSet(leaves[tree] \ {Forgotten})
        /\ Cardinality(leaves[tree] \ {Forgotten}) = Cardinality(leaves[tree]) - 1
    BY <1>1, <2>1, FS_RemoveElement
  <2>3. QED
    BY <1>1, <1>2, <2>1, <2>2, ForestAssumption
<1>4. CASE ~IsFull(tree)
  BY <1>1, <1>2, <1>4, ForestAssumption DEF IsFull, Trimmed
<1>5. QED
  BY <1>3, <1>4

LEMMA InsertedBounded ==
    ASSUME BoundInv, NEW tree \in Trees, CanForget(tree)
    PROVE  Bounded(Inserted(tree)) /\ Bounded(Trimmed(tree))
<1>1. IsFiniteSet(Trimmed(tree)) /\ Cardinality(Trimmed(tree)) <= tree_size
  BY TrimmedBounded
<1>2. Cardinality(Trimmed(tree)) \in Nat
  BY <1>1, FS_CardinalityType
<1>3. /\ IsFiniteSet(Inserted(tree))
      /\ Cardinality(Inserted(tree)) \in {Cardinality(Trimmed(tree)), Cardinality(Trimmed(tree)) + 1}
  BY <1>1, FS_AddElement DEF Inserted
<1>4. QED
  BY <1>1, <1>2, <1>3, ForestAssumption DEF Bounded

LEMMA BoundStep == BoundInv /\ [Next]_vars => BoundInv'
<1> SUFFICES ASSUME BoundInv, [Next]_vars PROVE BoundInv'
  OBVIOUS
<1>1. CASE Update
  <2>1. /\ leaves' = [tree \in Trees |-> Inserted(tree)]
        /\ \A tree \in Trees : CanForget(tree)
        /\ points_seen' = points_seen + 1
    BY <1>1 DEF Update, NextReading
  <2>2. \A tree \in Trees : Bounded(leaves'[tree])
    BY <2>1, InsertedBounded
  <2>3. QED
    BY <2>1, <2>2 DEF BoundInv, Bounded
<1>2. ASSUME NEW tree \in Trees, NEW left, UpdateBreaksAt(tree, left), Bounded(left)
      PROVE  BoundInv'
  <2>1. /\ leaves' = [k \in Trees |-> IF k < tree THEN Inserted(k)
                                      ELSE IF k = tree THEN left ELSE leaves[k]]
        /\ \A k \in 1 .. tree - 1 : CanForget(k)
        /\ points_seen' = points_seen + 1
    BY <1>2 DEF UpdateBreaksAt, NextReading
  <2>2. ASSUME NEW k \in Trees PROVE Bounded(leaves'[k])
    <3>1. CASE k < tree
      <4>1. CanForget(k)
        BY <2>1, <3>1 DEF Trees
      <4>2. QED
        BY <2>1, <3>1, <4>1, InsertedBounded
    <3>2. CASE ~(k < tree)
      BY <1>2, <2>1, <3>2 DEF BoundInv
    <3>3. QED
      BY <3>1, <3>2
  <2>3. QED
    BY <2>1, <2>2 DEF BoundInv, Bounded
<1>3. ASSUME NEW tree \in Trees, ForgetFails(tree) PROVE BoundInv'
  <2>1. UpdateBreaksAt(tree, leaves[tree]) /\ Bounded(leaves[tree])
    BY <1>3 DEF ForgetFails, BoundInv
  <2>2. QED
    BY <1>2, <2>1
<1>4. ASSUME NEW tree \in Trees, InsertFails(tree) PROVE BoundInv'
  <2>1. UpdateBreaksAt(tree, Trimmed(tree)) /\ Bounded(Trimmed(tree))
    BY <1>4, InsertedBounded DEF InsertFails
  <2>2. QED
    BY <1>2, <2>1
<1>5. CASE UNCHANGED vars
  BY <1>5 DEF vars, BoundInv, Bounded
<1>6. QED
  BY <1>1, <1>3, <1>4, <1>5 DEF Next

(* No tree of the forest ever holds more than tree_size + 1 points,        *)
(* whatever insertions fail.                                               *)
THEOREM BoundedWindow == Spec => []WindowIsBounded
<1>1. Init => BoundInv
  <2> SUFFICES ASSUME Init PROVE BoundInv
    OBVIOUS
  <2>1. Bounded({})
    BY FS_EmptySet, ForestAssumption DEF Bounded
  <2>2. leaves = [tree \in Trees |-> {}] /\ points_seen = 0
    BY DEF Init
  <2>3. QED
    BY <2>1, <2>2 DEF BoundInv, Bounded
<1>2. BoundInv => WindowIsBounded
  BY DEF BoundInv, Bounded, WindowIsBounded
<1>3. QED
  BY <1>1, <1>2, BoundStep, PTL DEF Spec

-----------------------------------------------------------------------------
(* The exact window.                                                       *)

Kept == LastPoints(tree_size) \cup FirstPoint

WindowInv ==
    /\ points_seen \in Nat
    /\ faults \in Nat
    /\ faults = 0 => leaves = [tree \in Trees |-> Kept] /\ dropped = {}

LEMMA KeptFull ==
    ASSUME points_seen \in Nat
    PROVE  Cardinality(Kept) > tree_size <=> points_seen > tree_size
<1>1. CASE points_seen <= tree_size
  <2>1. Kept = 0 .. points_seen - 1
    BY <1>1, ForestAssumption DEF Kept, LastPoints, FirstPoint
  <2>2. Cardinality(0 .. points_seen - 1) = points_seen
    BY FS_Interval
  <2>3. QED
    BY <1>1, <2>1, <2>2, ForestAssumption
<1>2. CASE points_seen > tree_size
  <2> DEFINE last == points_seen - tree_size .. points_seen - 1
  <2>1. Kept = last \cup {0} /\ 0 \notin last
    BY <1>2, ForestAssumption DEF Kept, LastPoints, FirstPoint
  <2>2. IsFiniteSet(last) /\ Cardinality(last) = tree_size
    BY <1>2, FS_Interval, ForestAssumption
  <2>3. Cardinality(Kept) = tree_size + 1
    BY <2>1, <2>2, FS_AddElement
  <2>4. QED
    BY <1>2, <2>3, ForestAssumption
<1>3. QED
  BY <1>1, <1>2, ForestAssumption

(* With whole windows every tree can forget, and an update slides all.     *)
LEMMA KeptSlides ==
    ASSUME WindowInv, faults = 0, NEW tree \in Trees
    PROVE  /\ CanForget(tree)
           /\ points_seen' = points_seen + 1 => Inserted(tree) = Kept'
<1>1. leaves[tree] = Kept /\ points_seen \in Nat
  BY DEF WindowInv
<1>2. IsFull(tree) <=> points_seen > tree_size
  BY <1>1, KeptFull DEF IsFull
<1>3. points_seen > tree_size => Forgotten \in Kept
  BY <1>1, ForestAssumption DEF Forgotten, Kept, LastPoints
<1>4. CanForget(tree)
  BY <1>1, <1>2, <1>3 DEF CanForget
<1>5. ASSUME points_seen' = points_seen + 1 PROVE Inserted(tree) = Kept'
  <2>1. Inserted(tree) = (IF points_seen > tree_size THEN Kept \ {Forgotten} ELSE Kept) \cup {points_seen}
    BY <1>1, <1>2 DEF Inserted, Trimmed
  <2>2. Kept' = {i \in 0 .. points_seen : i >= points_seen + 1 - tree_size} \cup {0}
    <3>1. points_seen' - 1 = points_seen /\ points_seen' \in Nat
      BY <1>1, <1>5
    <3>2. LastPoints(tree_size)' = {i \in 0 .. points_seen : i >= points_seen + 1 - tree_size}
      BY <1>1, <1>5, <3>1, ForestAssumption DEF LastPoints
    <3>3. FirstPoint' = {0}
      BY <1>1, <1>5, <3>1 DEF FirstPoint, LastPoints
    <3>4. QED
      BY <3>2, <3>3 DEF Kept
  <2>3. CASE points_seen > tree_size
    BY <1>1, <2>1, <2>2, <2>3, ForestAssumption DEF Kept, LastPoints, FirstPoint, Forgotten
  <2>4. CASE points_seen <= tree_size
    BY <1>1, <2>1, <2>2, <2>4, ForestAssumption DEF Kept, LastPoints, FirstPoint
  <2>5. QED
    BY <1>1, <2>3, <2>4, ForestAssumption
<1>6. QED
  BY <1>4, <1>5

LEMMA WindowStep == WindowInv /\ [Next]_vars => WindowInv'
<1> SUFFICES ASSUME WindowInv, [Next]_vars PROVE WindowInv'
  OBVIOUS
<1>1. CASE Update
  <2>1. /\ leaves' = [tree \in Trees |-> Inserted(tree)]
        /\ points_seen' = points_seen + 1
        /\ dropped' = dropped /\ faults' = faults
    BY <1>1 DEF Update, NextReading
  <2>2. ASSUME faults = 0 PROVE leaves' = [tree \in Trees |-> Kept']
    BY <2>1, <2>2, KeptSlides
  <2>3. QED
    BY <2>1, <2>2 DEF WindowInv
<1>2. ASSUME NEW tree \in Trees, ForgetFails(tree) PROVE WindowInv'
  <2>1. ~CanForget(tree) /\ points_seen' = points_seen + 1 /\ faults' = faults
    BY <1>2 DEF ForgetFails, UpdateBreaksAt, NextReading
  <2>2. faults # 0
    BY <2>1, KeptSlides
  <2>3. QED
    BY <2>1, <2>2 DEF WindowInv
<1>3. ASSUME NEW tree \in Trees, InsertFails(tree) PROVE WindowInv'
  <2>1. faults' = faults + 1 /\ points_seen' = points_seen + 1
    BY <1>3 DEF InsertFails, UpdateBreaksAt, NextReading
  <2>2. QED
    BY <2>1 DEF WindowInv
<1>4. CASE UNCHANGED vars
  BY <1>4 DEF vars, WindowInv, Kept, LastPoints, FirstPoint
<1>5. QED
  BY <1>1, <1>2, <1>3, <1>4 DEF Next

(* As long as insertions succeed, a tree holds exactly the last tree_size  *)
(* points and the first one ever, and no update fails.                     *)
THEOREM ExactWindow == Spec => []WindowIsFirstAndLast
<1>1. Init => WindowInv
  <2> SUFFICES ASSUME Init PROVE WindowInv
    OBVIOUS
  <2>1. Kept = {}
    BY DEF Init, Kept, LastPoints, FirstPoint
  <2>2. QED
    BY <2>1 DEF Init, WindowInv
<1>2. WindowInv => WindowIsFirstAndLast
  BY DEF WindowInv, WindowIsFirstAndLast, Kept
<1>3. QED
  BY <1>1, <1>2, WindowStep, PTL DEF Spec

-----------------------------------------------------------------------------
(* Dropped readings.  A tree holds every reading of its window that was    *)
(* not dropped, so the reading a full tree cannot forget was dropped when  *)
(* it came in.                                                             *)

Unprovoked == {i \in dropped : i - tree_size \notin dropped}

HeldInv ==
    /\ points_seen \in Nat /\ faults \in Nat
    /\ dropped \subseteq 0 .. points_seen - 1
    /\ leaves \in [Trees -> SUBSET (0 .. points_seen - 1)]
    /\ \A tree \in Trees : LastPoints(tree_size) \ dropped \subseteq leaves[tree]

DroppedInv == HeldInv /\ Cardinality(Unprovoked) <= faults

LEMMA MissingWasDropped ==
    ASSUME HeldInv, NEW tree \in Trees, ~CanForget(tree)
    PROVE  points_seen - tree_size \in dropped
<1>1. points_seen \in Nat /\ leaves[tree] \subseteq 0 .. points_seen - 1
  BY DEF HeldInv
<1>2. Cardinality(leaves[tree]) > tree_size /\ Forgotten \notin leaves[tree]
  BY DEF CanForget, IsFull
<1>3. IsFiniteSet(0 .. points_seen - 1) /\ Cardinality(0 .. points_seen - 1) = points_seen
  BY <1>1, FS_Interval
<1>4. Cardinality(leaves[tree]) <= points_seen /\ Cardinality(leaves[tree]) \in Nat
  BY <1>1, <1>3, FS_Subset, FS_CardinalityType
<1>5. points_seen > tree_size
  BY <1>1, <1>2, <1>4, ForestAssumption
<1>6. Forgotten \in LastPoints(tree_size)
  BY <1>1, <1>5, ForestAssumption DEF Forgotten, LastPoints
<1>7. QED
  BY <1>2, <1>6 DEF HeldInv, Forgotten

(* What is left of a tree after a step is its old points or the trimmed    *)
(* ones, with or without the new reading; either way it still holds the    *)
(* window, the new reading apart.                                          *)
LEMMA TrimmedHolds ==
    ASSUME HeldInv, NEW tree \in Trees
    PROVE  /\ Trimmed(tree) \subseteq 0 .. points_seen - 1
           /\ {i \in LastPoints(tree_size) : i # Forgotten} \ dropped \subseteq Trimmed(tree)
<1>1. leaves[tree] \subseteq 0 .. points_seen - 1
  BY DEF HeldInv
<1>2. LastPoints(tree_size) \ dropped \subseteq leaves[tree]
  BY DEF HeldInv
<1>3. QED
  BY <1>1, <1>2 DEF Trimmed

LEMMA WindowMoves ==
    ASSUME points_seen \in Nat, points_seen' = points_seen + 1
    PROVE  LastPoints(tree_size)'
              \subseteq {i \in LastPoints(tree_size) : i # Forgotten} \cup {points_seen}
BY ForestAssumption DEF LastPoints, Forgotten

(* A failing update, at any tree, whatever it leaves in the one it breaks. *)
LEMMA BrokenHolds ==
    ASSUME HeldInv, NEW tree \in Trees, NEW left, UpdateBreaksAt(tree, left),
           left \in {leaves[tree], Trimmed(tree)}, faults' \in Nat
    PROVE  HeldInv' /\ dropped' = dropped \cup {points_seen}
<1>1. /\ points_seen' = points_seen + 1 /\ dropped' = dropped \cup {points_seen}
      /\ leaves' = [k \in Trees |-> IF k < tree THEN Inserted(k)
                                    ELSE IF k = tree THEN left ELSE leaves[k]]
  BY DEF UpdateBreaksAt, NextReading
<1>2. points_seen \in Nat /\ dropped \subseteq 0 .. points_seen - 1
  BY DEF HeldInv
<1>3. points_seen' \in Nat /\ points_seen' - 1 = points_seen
  BY <1>1, <1>2
<1>4. 0 .. points_seen = (0 .. points_seen - 1) \cup {points_seen}
  BY <1>2
<1>5. ASSUME NEW k \in Trees
      PROVE  /\ leaves'[k] \subseteq 0 .. points_seen
             /\ LastPoints(tree_size)' \ dropped' \subseteq leaves'[k]
  <2>1. leaves'[k] \in {Inserted(k), Trimmed(k), leaves[k]}
    BY <1>1
  <2>2. /\ Trimmed(k) \subseteq 0 .. points_seen - 1
        /\ {i \in LastPoints(tree_size) : i # Forgotten} \ dropped \subseteq Trimmed(k)
    BY TrimmedHolds
  <2>3. leaves[k] \subseteq 0 .. points_seen - 1 /\ Trimmed(k) \subseteq leaves[k]
    BY DEF HeldInv, Trimmed
  <2>4. Inserted(k) = Trimmed(k) \cup {points_seen}
    BY DEF Inserted
  <2>5. Trimmed(k) \subseteq leaves'[k] /\ leaves'[k] \subseteq 0 .. points_seen
    BY <1>4, <2>1, <2>2, <2>3, <2>4
  <2>6. LastPoints(tree_size)'
           \subseteq {i \in LastPoints(tree_size) : i # Forgotten} \cup {points_seen}
    BY <1>1, <1>2, WindowMoves
  <2>7. QED
    BY <1>1, <2>2, <2>5, <2>6
<1>6. leaves' \in [Trees -> SUBSET (0 .. points_seen)]
  BY <1>1, <1>5
<1>7. dropped' \subseteq 0 .. points_seen
  BY <1>1, <1>2, <1>4
<1>8. QED
  BY <1>1, <1>3, <1>5, <1>6, <1>7 DEF HeldInv

LEMMA DroppedStep == DroppedInv /\ [Next]_vars => DroppedInv'
<1> SUFFICES ASSUME DroppedInv, [Next]_vars PROVE DroppedInv'
  OBVIOUS
<1> USE DEF DroppedInv
<1>1. /\ points_seen \in Nat /\ faults \in Nat
      /\ dropped \subseteq 0 .. points_seen - 1 /\ IsFiniteSet(dropped)
  <2>1. points_seen \in Nat /\ faults \in Nat /\ dropped \subseteq 0 .. points_seen - 1
    BY DEF HeldInv
  <2>2. IsFiniteSet(0 .. points_seen - 1)
    BY <2>1, FS_Interval
  <2>3. IsFiniteSet(dropped)
    BY <2>1, <2>2, FS_Subset
  <2>4. QED
    BY <2>1, <2>3
<1>2. IsFiniteSet(Unprovoked) /\ Cardinality(Unprovoked) \in Nat
  BY <1>1, FS_Subset, FS_CardinalityType DEF Unprovoked
<1>3. CASE Update
  <2>1. /\ leaves' = [tree \in Trees |-> Inserted(tree)]
        /\ points_seen' = points_seen + 1
        /\ dropped' = dropped /\ faults' = faults
    BY <1>3 DEF Update, NextReading
  <2>2. points_seen' \in Nat /\ points_seen' - 1 = points_seen
        /\ 0 .. points_seen = (0 .. points_seen - 1) \cup {points_seen}
    BY <1>1, <2>1
  <2>3. ASSUME NEW tree \in Trees
        PROVE  /\ leaves'[tree] \subseteq 0 .. points_seen
               /\ LastPoints(tree_size)' \ dropped' \subseteq leaves'[tree]
    <3>1. LastPoints(tree_size)'
             \subseteq {i \in LastPoints(tree_size) : i # Forgotten} \cup {points_seen}
      BY <1>1, <2>1, WindowMoves
    <3>2. leaves'[tree] = Trimmed(tree) \cup {points_seen}
      BY <2>1 DEF Inserted
    <3>3. QED
      BY <2>1, <2>2, <3>1, <3>2, TrimmedHolds
  <2>4. leaves' \in [Trees -> SUBSET (0 .. points_seen)]
    BY <2>1, <2>3
  <2>5. dropped' \subseteq 0 .. points_seen
    BY <1>1, <2>1, <2>2
  <2>6. Unprovoked' = Unprovoked
    BY <2>1 DEF Unprovoked
  <2>7. QED
    BY <1>1, <2>1, <2>2, <2>3, <2>4, <2>5, <2>6 DEF HeldInv
<1>4. ASSUME NEW tree \in Trees, ForgetFails(tree) PROVE DroppedInv'
  <2>1. HeldInv' /\ dropped' = dropped \cup {points_seen} /\ faults' = faults
    BY <1>1, <1>4, BrokenHolds DEF ForgetFails
  <2>2. points_seen - tree_size \in dropped
    BY <1>4, MissingWasDropped DEF ForgetFails
  <2>3. Unprovoked' = Unprovoked
    BY <1>1, <2>1, <2>2, ForestAssumption DEF Unprovoked
  <2>4. QED
    BY <2>1, <2>3
<1>5. ASSUME NEW tree \in Trees, InsertFails(tree) PROVE DroppedInv'
  <2>1. HeldInv' /\ dropped' = dropped \cup {points_seen} /\ faults' = faults + 1
    BY <1>1, <1>5, BrokenHolds DEF InsertFails
  <2>2. Unprovoked' \subseteq Unprovoked \cup {points_seen}
    BY <1>1, <2>1, ForestAssumption DEF Unprovoked
  <2> DEFINE old == Unprovoked
             more == old \cup {points_seen}
  <2>3. IsFiniteSet(more) /\ Cardinality(more) <= Cardinality(old) + 1 /\ Cardinality(more) \in Nat
    <3>1. IsFiniteSet(more)
          /\ Cardinality(more) = IF points_seen \in old THEN Cardinality(old)
                                                        ELSE Cardinality(old) + 1
      BY <1>2, FS_AddElement
    <3>2. Cardinality(old) \in Nat
      BY <1>2
    <3> HIDE DEF old, more
    <3>3. QED
      BY <3>1, <3>2
  <2>4. Cardinality(Unprovoked') <= Cardinality(more) /\ Cardinality(Unprovoked') \in Nat
    BY <2>2, <2>3, FS_Subset, FS_CardinalityType
  <2>5. QED
    BY <1>1, <1>2, <2>1, <2>3, <2>4
<1>6. CASE UNCHANGED vars
  BY <1>6 DEF vars, HeldInv, Unprovoked, LastPoints
<1>7. QED
  BY <1>3, <1>4, <1>5, <1>6 DEF Next

(* A reading is dropped only for a failed insertion of its own or for the  *)
(* dropped reading it should have replaced: however long failures go on    *)
(* repeating every tree_size readings, none starts without an insertion    *)
(* that failed.                                                            *)
THEOREM DropsHaveAReason == Spec => []DroppedForAReason
<1>1. Init => DroppedInv
  <2> SUFFICES ASSUME Init PROVE DroppedInv
    OBVIOUS
  <2>1. leaves = [tree \in Trees |-> {}] /\ points_seen = 0 /\ dropped = {} /\ faults = 0
    BY DEF Init
  <2>2. Unprovoked = {}
    BY <2>1 DEF Unprovoked
  <2>3. LastPoints(tree_size) = {}
    BY <2>1 DEF LastPoints
  <2>4. QED
    BY <2>1, <2>2, <2>3, FS_EmptySet DEF DroppedInv, HeldInv
<1>2. DroppedInv => DroppedForAReason
  BY DEF DroppedInv, Unprovoked, DroppedForAReason
<1>3. QED
  BY <1>1, <1>2, DroppedStep, PTL DEF Spec

-----------------------------------------------------------------------------
(* Types.                                                                  *)

LEMMA TypeStep == TypeOK /\ [Next]_vars => TypeOK'
<1> SUFFICES ASSUME TypeOK, [Next]_vars PROVE TypeOK'
  OBVIOUS
<1>1. /\ points_seen \in Nat /\ points_seen \in 0 .. MaxPoints
      /\ \A tree \in Trees : leaves[tree] \subseteq 0 .. points_seen - 1
  BY ForestAssumption DEF TypeOK
<1>2. ASSUME NextReading
      PROVE  /\ points_seen' \in 0 .. MaxPoints
             /\ 0 .. points_seen' - 1 = (0 .. points_seen - 1) \cup {points_seen}
  BY <1>1, <1>2, ForestAssumption DEF NextReading
<1>3. ASSUME NextReading, NEW tree \in Trees
      PROVE  Inserted(tree) \subseteq 0 .. points_seen' - 1 /\ Trimmed(tree) \subseteq 0 .. points_seen' - 1
             /\ leaves[tree] \subseteq 0 .. points_seen' - 1
  BY <1>1, <1>2, <1>3 DEF Inserted, Trimmed
<1>4. CASE Update
  <2>1. NextReading /\ leaves' = [tree \in Trees |-> Inserted(tree)] /\ UNCHANGED <<dropped, faults>>
    BY <1>4 DEF Update
  <2>2. dropped' \subseteq 0 .. points_seen' - 1
    BY <1>2, <2>1 DEF TypeOK
  <2>3. leaves' \in [Trees -> SUBSET (0 .. points_seen' - 1)]
    BY <1>3, <2>1
  <2>4. QED
    BY <1>2, <2>1, <2>2, <2>3 DEF TypeOK
<1>5. ASSUME NEW tree \in Trees, NEW left, UpdateBreaksAt(tree, left),
             left \subseteq 0 .. points_seen' - 1, faults' \in 0 .. MaxFaults
      PROVE  TypeOK'
  <2>1. NextReading
    BY <1>5 DEF UpdateBreaksAt
  <2>2. dropped' \subseteq 0 .. points_seen' - 1
    BY <1>2, <1>5, <2>1 DEF UpdateBreaksAt, TypeOK
  <2>3. leaves' \in [Trees -> SUBSET (0 .. points_seen' - 1)]
    BY <1>3, <1>5, <2>1 DEF UpdateBreaksAt
  <2>4. QED
    BY <1>2, <1>5, <2>1, <2>2, <2>3 DEF TypeOK
<1>6. ASSUME NEW tree \in Trees, ForgetFails(tree) PROVE TypeOK'
  <2>1. UpdateBreaksAt(tree, leaves[tree]) /\ NextReading /\ faults' = faults
    BY <1>6 DEF ForgetFails, UpdateBreaksAt
  <2>2. QED
    BY <1>3, <1>5, <2>1 DEF TypeOK
<1>7. ASSUME NEW tree \in Trees, InsertFails(tree) PROVE TypeOK'
  <2>1. /\ UpdateBreaksAt(tree, Trimmed(tree)) /\ NextReading
        /\ faults < MaxFaults /\ faults' = faults + 1
    BY <1>7 DEF InsertFails, UpdateBreaksAt
  <2>2. faults' \in 0 .. MaxFaults
    BY <2>1, ForestAssumption DEF TypeOK
  <2>3. QED
    BY <1>3, <1>5, <2>1, <2>2
<1>8. CASE UNCHANGED vars
  BY <1>8 DEF vars, TypeOK
<1>9. QED
  BY <1>4, <1>6, <1>7, <1>8 DEF Next

(* Every variable keeps its type: trees hold indices given out so far.     *)
THEOREM TypeCorrect == Spec => []TypeOK
<1>1. Init => TypeOK
  BY ForestAssumption DEF Init, TypeOK
<1>2. QED
  BY <1>1, TypeStep, PTL DEF Spec

=============================================================================
