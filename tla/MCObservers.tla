----------------------------- MODULE MCObservers -----------------------------
(* Values for the model checker: see the .cfg.                                *)
EXTENDS Observers
==============================================================================
