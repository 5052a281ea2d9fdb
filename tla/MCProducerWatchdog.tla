------------------------- MODULE MCProducerWatchdog -------------------------
(* Model-checking instances of ProducerWatchdog: its constants are numbers.*)
EXTENDS ProducerWatchdog

=============================================================================
