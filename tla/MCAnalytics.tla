----------------------------- MODULE MCAnalytics -----------------------------
(* Model-checking instances of Analytics: the bounds come from the cfg.    *)
EXTENDS Analytics

=============================================================================
