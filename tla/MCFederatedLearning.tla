------------------------ MODULE MCFederatedLearning ------------------------
(* Model-checking instances of FederatedLearning.                          *)
EXTENDS FederatedLearning

(* All devices share one worker.                                           *)
OneWorker == [d \in Devices |-> "worker"]

=============================================================================
