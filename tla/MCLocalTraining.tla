--------------------------- MODULE MCLocalTraining ---------------------------
(* Model-checking instances of LocalTraining: its constants are numbers.   *)
EXTENDS LocalTraining

=============================================================================
