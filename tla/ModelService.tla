---------------------------- MODULE ModelService ----------------------------
(***************************************************************************)
(* What the aggregator promises the readers of global_model_latest.json,   *)
(* with its buffer, registry, tables and failing calls out of sight: one   *)
(* current model whose version number goes up by one, its parameters a     *)
(* new aggregate or an aggregate made before, and a published model that   *)
(* is replaced by the current one or, if the write fails, stays.  A crash  *)
(* loses the current model, and the next life starts by withdrawing the    *)
(* published one.  FederatedAggregation implements this module.            *)
(***************************************************************************)
EXTENDS Integers

VARIABLES
    current,     \* the model the service holds
    released,    \* aggregates made so far; aggregate p has parameters p
    published,   \* the model readers find
    up           \* the service runs

vars == <<current, released, published, up>>

NoModel == [version |-> 0, params |-> 0]

Init ==
    /\ current = NoModel
    /\ released = 0
    /\ published = NoModel
    /\ up = TRUE

(* The next version is handed to the readers unless the write fails.       *)
Hand(params) ==
    /\ up
    /\ current' = [version |-> current.version + 1, params |-> params]
    /\ published' \in {published, current'}
    /\ UNCHANGED up

Round ==
    /\ Hand(released + 1)
    /\ released' = released + 1

Rollback ==
    /\ \E params \in 1 .. released : Hand(params)
    /\ UNCHANGED released

Crash ==
    /\ up
    /\ up' = FALSE
    /\ current' = NoModel
    /\ UNCHANGED <<released, published>>

Recover ==
    /\ ~up
    /\ up' = TRUE
    /\ published' = NoModel
    /\ UNCHANGED <<current, released>>

Next == Round \/ Rollback \/ Crash \/ Recover

Spec == Init /\ [][Next]_vars

=============================================================================
