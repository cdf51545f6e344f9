----------------------------- MODULE MCComponents -----------------------------
(* Values and initial states for the model checker: see the .cfg.             *)
EXTENDS Components

\* The kinds of the calls a model turn may ask for, in order.
ToolPlans == {<<"read">>, <<"write">>, <<"read", "write">>, <<"write", "write">>,
              <<"denied", "write">>}

\* A component that does not move rests in a single initial state; the profile
\* starts at one destination, the other plays the same part.
OneRest ==
    /\ subject = "patch" \/ file = [i \in 1..NFiles |-> [data |-> "old", id |-> 1, by |-> "user"]]
    /\ subject = "tools" \/ engine = "graph"
    /\ history[1].loose
    /\ subject = "git" \/ linked
    /\ subject = "desktop" \/ selected = "k1"
    /\ profile_file.dest = "d1"

MCInit == SumInit /\ OneRest
MCSpec == MCInit /\ [][SumNext]_allVars
===============================================================================
