CONSTANTS
  num_trees = 3
  tree_size = 3
  MaxPoints = 20
  MaxFaults = 2
SPECIFICATION Spec
INVARIANT
  WindowIsMostRecent
CHECK_DEADLOCK FALSE
