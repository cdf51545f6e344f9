------------------------------ MODULE MCProgress ------------------------------
(* Values and initial states for the model checker: see the .cfg.             *)
EXTENDS Progress

\* One call reads binary output, with a tree it must own or not; one reads text.
OpKinds == [o \in Ops |-> IF o = "o1" THEN {"binary", "strict"} ELSE {"text"}]

\* A component that does not move rests in a single initial state.
OneRest == subject = "process" \/ platform = "nt"

MCInit == SumInit /\ OneRest
MCSpec == MCInit /\ [][SumNext]_allVars /\ SumFairness
===============================================================================
