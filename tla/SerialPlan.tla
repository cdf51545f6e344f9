----------------------------- MODULE SerialPlan -----------------------------
(***************************************************************************)
(* What a work order promises about its tasks: they run one at a time, each *)
(* after all it depends on, none again once it is done; and a task that was *)
(* ever begun keeps its definition in every later plan.  It is over when it *)
(* is cancelled, or when all tasks of its plan are done.                    *)
(***************************************************************************)
EXTENDS Naturals

CONSTANTS Plans, Nobody

VARIABLES
    plan,    \* task -> what it depends on
    begun,   \* tasks that were ever begun
    done,    \* tasks that succeeded
    outcome, \* "open", "succeeded" or "cancelled"
    current  \* the task that runs, or Nobody

vars == <<plan, begun, done, outcome, current>>

Init ==
    /\ plan \in Plans
    /\ begun = {}
    /\ done = {}
    /\ outcome = "open"
    /\ current = Nobody

\* A task begins, or is refused as it begins.
Begin(t) ==
    /\ outcome = "open"
    /\ current = Nobody
    /\ t \notin done
    /\ plan[t] \subseteq done
    /\ begun' = begun \cup {t}
    /\ current' \in {t, Nobody}
    /\ UNCHANGED <<plan, done, outcome>>

End ==
    /\ current # Nobody
    /\ current' = Nobody
    /\ done' \in {done, done \cup {current}}
    /\ UNCHANGED <<plan, begun, outcome>>

\* A plan all of whose tasks are done already is over at once.
Replan(p) ==
    /\ outcome = "open"
    /\ begun \subseteq DOMAIN p
    /\ \A t \in begun : p[t] = plan[t]
    /\ plan' = p
    /\ outcome' \in {"open"} \cup {s \in {"succeeded"} : DOMAIN p \subseteq done}
    /\ UNCHANGED <<begun, done, current>>

Close ==
    /\ outcome = "open"
    /\ outcome' \in {"cancelled"} \cup {s \in {"succeeded"} : DOMAIN plan \subseteq done}
    /\ UNCHANGED <<plan, begun, done, current>>

Next ==
    \/ \E t \in DOMAIN plan : Begin(t)
    \/ End
    \/ Close
    \/ \E p \in Plans : Replan(p)

Spec == Init /\ [][Next]_vars
=============================================================================
