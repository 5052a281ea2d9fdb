----------------------- MODULE MCFederatedAggregation -----------------------
(* Model-checking instances of FederatedAggregation.                       *)
EXTENDS FederatedAggregation

=============================================================================
