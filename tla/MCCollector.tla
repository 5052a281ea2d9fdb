----------------------------- MODULE MCCollector -----------------------------
(* Model-checking instances of Collector: its constants are plain values.  *)
EXTENDS Collector

=============================================================================
