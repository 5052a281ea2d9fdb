-------------------------- MODULE MCRandomCutForest --------------------------
(* Model-checking instances of RandomCutForest: its constants are numbers. *)
EXTENDS RandomCutForest

=============================================================================
