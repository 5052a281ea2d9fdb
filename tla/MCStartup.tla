------------------------------ MODULE MCStartup ------------------------------
(* Model-checking instances of Startup: a model value for the topic.       *)
EXTENDS Startup

CONSTANT readings

=============================================================================
