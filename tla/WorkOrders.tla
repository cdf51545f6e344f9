----------------------------- MODULE WorkOrders -----------------------------
(***************************************************************************)
(* One work order: its plan, its tasks and the attempts to run them, as     *)
(* WorkOrderStore keeps them, and the orchestrator that admits one attempt  *)
(* at a time through RunService.                                           *)
(*                                                                         *)
(* One action is one transaction of the store, which first reads the runs   *)
(* back (Sync), or one call of the service.  The orchestrator's admission   *)
(* lock is held from the first transaction of an operation to its last, so  *)
(* operations do not interleave: op is the one under way.  The runs, the    *)
(* crashes and the failures of any step do.                                 *)
(*                                                                         *)
(* Every request of a user names the revision it saw; one that names an old *)
(* revision is refused without effect and is left out.                      *)
(***************************************************************************)
EXTENDS Naturals, FiniteSets

CONSTANTS
    Tasks,        \* task identifiers
    Plans,        \* plans a user may write: task -> the tasks it depends on
    MaxAttempts,  \* MAX_ATTEMPTS_PER_TASK
    MaxEvents     \* bound: revisions of the plan, closings and events together

ASSUME WorkOrdersAssumption ==
    /\ MaxAttempts \in Nat \ {0}
    /\ MaxEvents \in Nat
    /\ \A p \in Plans :
          /\ DOMAIN p \subseteq Tasks
          /\ \A t \in DOMAIN p : p[t] \subseteq DOMAIN p
          /\ \E rank \in [DOMAIN p -> 0..Cardinality(Tasks)] :
                \A t \in DOMAIN p : \A u \in p[t] : rank[u] < rank[t]

\* The mark of SerialPlan for "no task" is no task.
ASSUME NobodyAssumption == "nobody" \notin Tasks

VARIABLES
    db,       \* the rows of the order
    run,      \* attempt -> runtime_runs.status of the run with its admission key
    lease,    \* attempt -> runtime_runs.lease_active of that run
    flag,     \* attempt -> runtime_runs.cancel_requested, while the run is not over
    op,       \* the operation that holds the admission lock
    open,     \* the orchestrator is not closing
    events    \* what counts towards MaxEvents

vars == <<db, run, lease, flag, op, open, events>>

Attempt  == Tasks \X (1..MaxAttempts)
Idle     == [pc |-> "idle"]
Holding  == {"reserved", "accepted", "running", "awaiting_approval"}
Over     == {"completed", "failed", "cancelled"}

Init ==
    /\ \E p \in Plans :
          db = [order |-> "draft", error |-> FALSE, plan |-> p,
                task |-> [t \in Tasks |-> IF t \in DOMAIN p THEN "pending" ELSE "absent"],
                retry |-> [t \in Tasks |-> FALSE],
                attempt |-> [a \in Attempt |-> "none"],
                intent |-> [a \in Attempt |-> "none"]]
    /\ run = [a \in Attempt |-> "none"]
    /\ lease = [a \in Attempt |-> FALSE]
    /\ flag = [a \in Attempt |-> FALSE]
    /\ op = Idle
    /\ open = TRUE
    /\ events = 0

-----------------------------------------------------------------------------
(* Readings of the rows.                                                   *)

Number(d, t) == Cardinality({n \in 1..MaxAttempts : d.attempt[<<t, n>>] # "none"})
Latest(d, t) == <<t, Number(d, t)>>
Started(d)   == {t \in Tasks : Number(d, t) > 0}
Pending(d)   == {a \in Attempt : d.intent[a] = "pending"}
Draining(d)  == {a \in Attempt : d.attempt[a] \in Holding}
Accepted     == {a \in Attempt : run[a] # "none"}

\* Everything a task depends on, directly or not.
Above(plan) ==
    LET above[t \in DOMAIN plan] == plan[t] \cup UNION {above[u] : u \in plan[t]}
    IN  above

\* Fault: readiness only asks that no dependency has failed.
ReadyUnlessFailed(d) ==
    {t \in DOMAIN d.plan :
        /\ d.order \in {"queued", "running"}
        /\ Draining(d) = {}
        /\ d.task[t] = "pending"
        /\ \A u \in d.plan[t] : d.task[u] \notin {"failed", "cancelled"}}

\* _ready
Ready(d) ==
    {t \in DOMAIN d.plan :
        /\ d.order \in {"queued", "running"}
        /\ Draining(d) = {}
        /\ d.task[t] = "pending"
        /\ \A u \in d.plan[t] : d.task[u] = "succeeded"}

\* candidates: an order whose error is recorded is only looked at while paused.
Candidate ==
    /\ db.order \in {"queued", "running"} \/ Draining(db) # {}
    /\ ~db.error \/ db.order = "paused"

-----------------------------------------------------------------------------
(* Transactions as functions of the rows.                                  *)

\* _refresh_order: what a failure blocks, and the status that follows.
Refresh(d) ==
    LET blocked(t) == /\ d.task[t] = "pending"
                      /\ \E u \in Above(d.plan)[t] : d.task[u] \in {"failed", "cancelled", "blocked"}
        task == [t \in Tasks |-> IF blocked(t) THEN "blocked" ELSE d.task[t]]
        all  == \A t \in DOMAIN d.plan : task[t] = "succeeded"
        some == \E t \in DOMAIN d.plan : task[t] \in {"failed", "cancelled"}
    IN  [d EXCEPT !.task = task,
                  !.order = CASE @ \in {"draft", "cancelled"} -> @
                              [] all /\ @ \notin {"draft", "cancelled"} -> "succeeded"
                              [] ~all /\ some /\ @ \notin {"draft", "cancelled", "paused"} -> "failed"
                              [] OTHER -> @]

\* _set_task_state without retry_requested leaves a task alone that is to be retried.
SetTask(d, t, s) == IF d.retry[t] THEN d.task[t] ELSE s

\* What a run makes of its attempt: terminal with a lease is still running.
Observed(a) ==
    CASE run[a] \in Over /\ lease[a]        -> "running"
      [] run[a] = "completed" /\ ~lease[a]  -> "succeeded"
      [] run[a] = "interrupted"             -> "awaiting_approval"
      [] run[a] = "queued"                  -> "accepted"
      [] OTHER                              -> run[a]

Shown(s) == IF s = "accepted" THEN "dispatching" ELSE s

\* Fault: an accepted run does not acknowledge its intent.
SyncUnacknowledged(d) ==
    Refresh([d EXCEPT
        !.attempt = [a \in Attempt |-> IF a \in Accepted THEN Observed(a) ELSE @[a]],
        !.task = [t \in Tasks |-> IF Latest(d, t) \in Accepted
                                  THEN SetTask(d, t, Shown(Observed(Latest(d, t)))) ELSE @[t]]])

\* _sync: only the latest attempt of a task writes its status.
Sync(d) ==
    Refresh([d EXCEPT
        !.attempt = [a \in Attempt |-> IF a \in Accepted THEN Observed(a) ELSE @[a]],
        !.intent = [a \in Attempt |-> IF a \in Accepted THEN "admitted" ELSE @[a]],
        !.task = [t \in Tasks |-> IF Latest(d, t) \in Accepted
                                  THEN SetTask(d, t, Shown(Observed(Latest(d, t)))) ELSE @[t]]])

\* reserve_next, once a task was chosen.
Reserved(d, t) ==
    LET a == <<t, Number(d, t) + 1>>
    IN  [d EXCEPT !.attempt[a] = "reserved", !.intent[a] = "pending",
                  !.task[t] = "dispatching", !.retry[t] = FALSE, !.order = "running"]

\* abandon_unaccepted, after its own Sync.
Abandoned(d, a) ==
    LET outcome == IF d.order = "cancelled" THEN "cancelled" ELSE "failed"
    IN  Refresh([d EXCEPT !.intent[a] = "abandoned", !.attempt[a] = outcome,
                          !.task[a[1]] = SetTask(d, a[1], outcome)])

-----------------------------------------------------------------------------
(* Requests of users; each takes the admission lock.                       *)

Request ==
    /\ open
    /\ op = Idle
    /\ UNCHANGED <<run, lease, flag, open>>

Event == events < MaxEvents /\ events' = events + 1

Activate ==
    /\ Request
    /\ db.order = "draft"
    /\ db' = [db EXCEPT !.order = "queued"]
    /\ UNCHANGED <<op, events>>

Pause ==
    /\ Request
    /\ Sync(db).order \in {"queued", "running", "paused"}
    /\ db' = [Sync(db) EXCEPT !.order = "paused"]
    /\ UNCHANGED <<op, events>>

Resume ==
    /\ Request
    /\ Sync(db).order = "paused"
    /\ db' = [Sync(db) EXCEPT !.order = "queued", !.error = FALSE]
    /\ UNCHANGED <<op, events>>

\* What _cancel_order stops first: the runs of the attempts it was shown.
Stop(d) == [pc |-> "stop", left |-> Draining(d) \cap Accepted]

Cancel ==
    LET d == Sync(db)
    IN  /\ Request
        /\ d.order # "succeeded"
        /\ db' = [d EXCEPT !.order = "cancelled", !.error = FALSE,
                           !.task = [t \in Tasks |-> IF @[t] \in {"pending", "blocked"}
                                                     THEN "cancelled" ELSE @[t]]]
        /\ op' = Stop(db')
        /\ UNCHANGED events

Retry(t) ==
    LET d == Sync(db)
    IN  /\ Request
        /\ d.order \in {"failed", "paused"}
        /\ Draining(d) = {}
        /\ Number(d, t) \in 1..(MaxAttempts - 1)
        /\ d.attempt[Latest(d, t)] = "failed"
        /\ db' = Refresh([d EXCEPT !.order = "paused", !.retry[t] = TRUE,
                    !.task = [u \in Tasks |-> IF u = t \/ @[u] = "blocked" THEN "pending" ELSE @[u]]])
        /\ UNCHANGED <<op, events>>

\* A started task keeps its definition and does not disappear.
Revisable(d, p) ==
    /\ d.order \notin {"succeeded", "cancelled"}
    /\ Started(d) \subseteq DOMAIN p
    /\ \A t \in Started(d) : p[t] = d.plan[t]

\* revise_plan, and replace_draft_plan, which nothing has started yet.
Revise(p) ==
    LET d == Sync(db)
    IN  /\ Request
        /\ Event
        /\ Revisable(d, p)
        /\ db' = Refresh([d EXCEPT !.plan = p,
                    !.order = IF @ = "draft" THEN "draft" ELSE "paused",
                    !.task = [t \in Tasks |-> IF t \in Started(d) THEN @[t]
                                              ELSE IF t \in DOMAIN p THEN "pending" ELSE "absent"]])
        /\ UNCHANGED op

-----------------------------------------------------------------------------
(* The pump: _step.                                                        *)

Working(pc) == op.pc = pc /\ UNCHANGED <<open, events>>

\* How a step goes on from the record it reconciled.
NextOf(d) ==
    CASE d.order = "cancelled"            -> Stop(d)
      [] d.order \in {"queued", "running"} -> [pc |-> "admit"]
      [] OTHER                            -> Idle

StepReconcile ==
    /\ open
    /\ Working("idle")
    /\ Candidate
    /\ db' = Sync(db)
    /\ op' = NextOf(db')
    /\ UNCHANGED <<run, lease, flag>>

\* The queue of runs is full: the step leaves it at that.
StepFull ==
    /\ open
    /\ Working("idle")
    /\ Candidate
    /\ db' = Sync(db)
    /\ db'.order \in {"queued", "running"}
    /\ UNCHANGED <<run, lease, flag, op>>

\* A pending intent is dispatched again with its own key and request.
StepReplay ==
    /\ Working("admit")
    /\ \E a \in Pending(db) : op' = [pc |-> "create", attempt |-> a]
    /\ UNCHANGED <<db, run, lease, flag>>

StepReserve ==
    /\ Working("admit")
    /\ Pending(db) = {}
    /\ \/ /\ Ready(Sync(db)) = {}
          /\ db' = Sync(db)
          /\ op' = Idle
       \/ \E t \in Ready(Sync(db)) :
             /\ db' = Reserved(Sync(db), t)
             /\ op' = [pc |-> "create", attempt |-> Latest(db', t)]
    /\ UNCHANGED <<run, lease, flag>>

\* RunService accepts the request, accepts and then fails it because its queue
\* is full, or refuses it; the key makes it one run.
StepCreate ==
    /\ Working("create")
    /\ \/ /\ run' = [run EXCEPT ![op.attempt] = "queued"]
          /\ lease' = [lease EXCEPT ![op.attempt] = TRUE]
          /\ op' = [pc |-> "verify"]
       \/ \E known \in BOOLEAN :
             /\ run' \in {run, [run EXCEPT ![op.attempt] = "failed"]}
             /\ op' = [pc |-> "settle", attempt |-> op.attempt, known |-> known]
             /\ UNCHANGED lease
    /\ UNCHANGED <<db, flag>>

\* The callback returned: what matters is what the rows say.
StepVerify ==
    /\ Working("verify")
    /\ db' = Sync(db)
    /\ op' = Idle
    /\ UNCHANGED <<run, lease, flag>>

\* The callback raised: only a known local rejection without a run is settled,
\* which needs no step of its own, nothing else can create that run.
StepSettle ==
    /\ Working("settle")
    /\ LET rejected == op.known /\ Sync(db).intent[op.attempt] = "pending"
       IN  db' = IF rejected THEN Abandoned(Sync(db), op.attempt) ELSE Sync(db)
    /\ op' = [pc |-> "error"]
    /\ UNCHANGED <<run, lease, flag>>

\* record_dispatch_error
StepError ==
    /\ Working("error")
    /\ db' = [db EXCEPT !.error = TRUE,
                        !.order = IF @ \in {"queued", "running", "paused"} THEN "paused" ELSE @]
    /\ op' = Idle
    /\ UNCHANGED <<run, lease, flag>>

\* Any other failure of a step leaves it; the pump records it unless it closes.
StepFault ==
    /\ \/ op.pc \in {"admit", "settle", "verify"}
       \/ open /\ op = Idle /\ Candidate
    /\ op' = IF open THEN [pc |-> "error"] ELSE Idle
    /\ UNCHANGED <<db, run, lease, flag, open, events>>

-----------------------------------------------------------------------------
(* _cancel_order.                                                          *)

\* RunService.cancel: a run that executes is told to and ends by itself.
StopRun ==
    /\ Working("stop")
    /\ \E a \in op.left :
          LET waits == run[a] \in {"queued", "interrupted"}
          IN  /\ run' = [run EXCEPT ![a] = IF waits THEN "cancelled" ELSE @]
              /\ lease' = [lease EXCEPT ![a] = @ /\ ~waits]
              /\ flag' = [flag EXCEPT ![a] = run[a] = "running"]
              /\ op' = [op EXCEPT !.left = @ \ {a}]
    /\ UNCHANGED db

\* A run that cannot be stopped.  Any other failure leaves the pump to go on as
\* the request would have.
StopFails ==
    /\ Working("stop")
    /\ op.left # {}
    /\ op' = [pc |-> "error"]
    /\ UNCHANGED <<db, run, lease, flag>>

\* Fault: what was never accepted is left for later.
StopLeavesIntents ==
    /\ Working("stop")
    /\ op.left = {}
    /\ db' = Sync(db)
    /\ op' = Idle
    /\ UNCHANGED <<run, lease, flag>>

\* No creation is in flight: what is pending was never accepted.
StopIntents ==
    /\ Working("stop")
    /\ op.left = {}
    /\ \/ \E a \in Pending(db) : db' = Abandoned(Sync(db), a) /\ UNCHANGED op
       \/ Pending(db) = {} /\ db' = Sync(db) /\ op' = Idle
    /\ UNCHANGED <<run, lease, flag>>

-----------------------------------------------------------------------------
(* The runs, see RunLifecycle.                                             *)

RunMoves(a, s, l) ==
    /\ run' = [run EXCEPT ![a] = s]
    /\ lease' = [lease EXCEPT ![a] = l]
    /\ flag' = [flag EXCEPT ![a] = @ /\ s \notin Over]
    /\ UNCHANGED <<db, op, open, events>>

RunTaken(a)     == run[a] = "queued" /\ RunMoves(a, "running", TRUE)
RunEnded(a)     == run[a] = "running" /\ \E s \in Over : RunMoves(a, s, TRUE)
RunAsks(a)      == run[a] = "running" /\ RunMoves(a, "interrupted", TRUE)
RunReleased(a)  == run[a] \in Over /\ lease[a] /\ RunMoves(a, run[a], FALSE)
RunApproved(a)  == run[a] = "interrupted" /\ ~flag[a] /\ RunMoves(a, "queued", TRUE)
RunExpired(a)   == run[a] = "interrupted" /\ ~flag[a] /\ RunMoves(a, "failed", FALSE)
RunCancelled(a) == run[a] \in {"queued", "interrupted"} /\ RunMoves(a, "cancelled", FALSE)

-----------------------------------------------------------------------------
(* Close and restart.                                                      *)

\* Nothing new takes the admission lock, what holds it goes on.
Close ==
    /\ open
    /\ op.pc # "recover"
    /\ Event
    /\ open' = FALSE
    /\ UNCHANGED <<db, run, lease, flag, op>>

\* reconcile_after_drain, when the scheduler has shut down.
CloseReconcile ==
    /\ ~open
    /\ op = Idle
    /\ \A a \in Attempt : run[a] # "running" /\ (run[a] \in Over => ~lease[a])
    /\ db' = IF Candidate THEN Sync(db) ELSE db
    /\ op' = [pc |-> "closed"]
    /\ UNCHANGED <<run, lease, flag, open, events>>

\* The process ends anywhere; the runs are recovered before the orders.
Restart ==
    /\ Event
    /\ run' = [a \in Attempt |-> IF run[a] \in {"queued", "running"} THEN "failed" ELSE run[a]]
    /\ lease' = [a \in Attempt |-> lease[a] /\ run[a] = "interrupted"]
    /\ flag' = [a \in Attempt |-> flag[a] /\ run[a] = "interrupted"]
    /\ op' = [pc |-> "recover"]
    /\ open' = TRUE
    /\ UNCHANGED db

\* recover, before the pump starts.
Recover ==
    /\ Working("recover")
    /\ db' = IF Candidate THEN Sync(db) ELSE db
    /\ op' = Idle
    /\ UNCHANGED <<run, lease, flag>>

Users == Activate \/ Pause \/ Resume \/ Cancel \/ \E t \in Tasks : Retry(t) \/ \E p \in Plans : Revise(p)

Pump ==
    \/ StepReconcile \/ StepReplay \/ StepReserve \/ StepCreate \/ StepVerify \/ StepSettle
    \/ StepError \/ StopRun \/ StopIntents \/ Recover

Run(a) == RunTaken(a) \/ RunEnded(a) \/ RunAsks(a) \/ RunReleased(a)

Next ==
    \/ Users
    \/ Pump \/ StepFull \/ StepFault \/ StopFails
    \/ \E a \in Attempt : Run(a) \/ RunApproved(a) \/ RunExpired(a) \/ RunCancelled(a)
    \/ Close \/ CloseReconcile \/ Restart

Spec == Init /\ [][Next]_vars

\* The pump scans again and again, an operation is drained and runs end (there
\* is never more than one that can, see RunsPlanSerially); nobody has to
\* approve, request, close or restart.
Fairness == WF_vars(Pump) /\ WF_vars(\E a \in Attempt : Run(a))

FairSpec == Spec /\ Fairness

-----------------------------------------------------------------------------
\* Every variable has its type.
TypeOK ==
    /\ db.order \in {"draft", "queued", "running", "paused", "succeeded", "failed", "cancelled"}
    /\ db.error \in BOOLEAN
    /\ db.plan \in Plans
    /\ db.task \in [Tasks -> {"absent", "pending", "dispatching", "running", "awaiting_approval",
                              "succeeded", "failed", "cancelled", "blocked"}]
    /\ db.retry \in [Tasks -> BOOLEAN]
    /\ db.attempt \in [Attempt -> Holding \cup {"none", "succeeded", "failed", "cancelled"}]
    /\ db.intent \in [Attempt -> {"none", "pending", "admitted", "abandoned"}]
    /\ run \in [Attempt -> Over \cup {"none", "queued", "running", "interrupted"}]
    /\ lease \in [Attempt -> BOOLEAN]
    /\ flag \in [Attempt -> BOOLEAN]
    /\ op.pc \in {"idle", "admit", "create", "verify", "settle", "error", "stop",
                  "recover", "closed"}
    /\ open \in BOOLEAN
    /\ events \in 0..MaxEvents

\* abandon_unaccepted: "Missing a run row alone is NOT that proof."  An attempt
\* once abandoned never turns out to have a run, whatever crashed in between.
AbandonedNeverRuns ==
    /\ TypeOK
    /\ \A a \in Attempt : db.intent[a] = "abandoned" => run[a] = "none"

\* Again and again the order comes to rest: it is over, paused, waits for an
\* approval or, once cancelled, has nothing that runs and no intent left.  A
\* failed step that was recorded takes a cancelled order off the pump's list.
OrderComesToRest ==
    []<>(\/ ~open \/ db.error
         \/ db.order \in {"draft", "paused", "succeeded", "failed"}
         \/ db.order # "cancelled" /\ \E a \in Attempt : run[a] = "interrupted"
         \/ /\ db.order = "cancelled"
            /\ Pending(db) = {}
            /\ \A a \in Attempt : run[a] \in Over \cup {"none"} /\ ~lease[a])

\* A run that may still act, and what is done once it was drained.
Engaged(a)  == lease[a] \/ run[a] \in {"queued", "running", "interrupted"}
Achieved(a) == run[a] = "completed" /\ ~lease[a]
Busy == {a[1] : a \in {b \in Attempt : Engaged(b)}}
Done == {a[1] : a \in {b \in Attempt : Achieved(b)}}

Begun == {a[1] : a \in Accepted}
Outcome == IF db.order \in {"succeeded", "cancelled"} THEN db.order ELSE "open"
Current == IF Busy = {} THEN "nobody" ELSE CHOOSE t \in Busy : TRUE

Serial == INSTANCE SerialPlan WITH
    plan <- db.plan, begun <- Begun, done <- Done, outcome <- Outcome, current <- Current,
    Nobody <- "nobody"

\* The runs of a work order are a serial execution of its plan: one at a time,
\* after their dependencies, never again once they succeeded, none for an order
\* that is cancelled, and an order says succeeded only when all of them are done
\* and drained: across retries, revisions, crashes and replayed admissions.
RunsPlanSerially == Serial!Spec

-----------------------------------------------------------------------------
(* Why AbandonedNeverRuns: an intent is abandoned only where no run has its   *)
(* key, and a run is created only for an intent that is still pending.        *)

AttemptStates == Holding \cup {"none", "succeeded", "failed", "cancelled"}

Rows == [order   : {"draft", "queued", "running", "paused", "succeeded", "failed", "cancelled"},
         error   : BOOLEAN,
         plan    : Plans,
         task    : [Tasks -> {"absent", "pending", "dispatching", "running", "awaiting_approval",
                              "succeeded", "failed", "cancelled", "blocked"}],
         retry   : [Tasks -> BOOLEAN],
         attempt : [Attempt -> AttemptStates],
         intent  : [Attempt -> {"none", "pending", "admitted", "abandoned"}]]

Operations ==
    [pc : {"idle", "admit", "verify", "error", "recover", "closed"}]
    \cup [pc : {"create"}, attempt : Attempt]
    \cup [pc : {"settle"}, attempt : Attempt, known : BOOLEAN]
    \cup [pc : {"stop"}, left : SUBSET Attempt]

Shapes == TypeOK /\ db \in Rows /\ op \in Operations

\* Attempts are numbered without a gap.
InARow(d, t) ==
    \E k \in 0..MaxAttempts : \A n \in 1..MaxAttempts : d.attempt[<<t, n>>] # "none" <=> n <= k

\* A task that may be reserved has an attempt left, each attempt its intent.
RowsSound(d) ==
    /\ \A t \in Tasks : InARow(d, t)
    /\ \A t \in Tasks : d.task[t] \in {"pending", "blocked"} => d.attempt[<<t, MaxAttempts>>] = "none"
    /\ \A a \in Attempt : d.attempt[a] = "none" <=> d.intent[a] = "none"

RunsKnown(d) == \A a \in Accepted : d.intent[a] \in {"pending", "admitted"}

OperationSound ==
    /\ op.pc = "create" => db.intent[op.attempt] = "pending"
    /\ op.pc = "stop" => Pending(db) \cap Accepted = {}

OrdersInv == Shapes /\ RowsSound(db) /\ RunsKnown(db) /\ OperationSound

-----------------------------------------------------------------------------
(* Why RunsPlanSerially: one attempt at most is awaited or engaged, it is the  *)
(* latest of its task, and what the tasks' rows say is true of the runs.      *)

Awaited(d, a) == d.intent[a] = "pending" /\ run[a] = "none"
Live(d, a)    == Engaged(a) \/ Awaited(d, a)

\* An attempt that no longer can become a success.
Spent(d, a) == ~Live(d, a) /\ run[a] # "completed"

OneLive(d) == \A a, b \in Attempt : Live(d, a) /\ Live(d, b) => a = b

AwaitedReady(d) ==
    \A a \in Attempt : Awaited(d, a) => d.attempt[a] = "reserved" /\ d.plan[a[1]] \subseteq Done

TaskTold(d, t) ==
    /\ d.task[t] \in {"pending", "blocked"} => \A n \in 1..MaxAttempts : Spent(d, <<t, n>>)
    /\ d.task[t] = "succeeded" => Number(d, t) > 0 /\ Achieved(Latest(d, t))
    /\ \A n \in 1..MaxAttempts : n < Number(d, t) => Spent(d, <<t, n>>)
    /\ Number(d, t) > 0 => t \in DOMAIN d.plan

OrderTold(d) == d.order = "succeeded" => \A t \in DOMAIN d.plan : d.task[t] = "succeeded"

FollowsRuns(d) ==
    OneLive(d) /\ AwaitedReady(d) /\ OrderTold(d) /\ \A t \in Tasks : TaskTold(d, t)

\* Nothing is admitted for an order that is over, and nothing twice.
AdmissionSound ==
    /\ op.pc \in {"admit", "create"} => db.order \in {"queued", "running"}
    /\ op.pc = "admit" => Pending(db) \cap Accepted = {}
    /\ op.pc = "create" => run[op.attempt] = "none"

SerialInv ==
    /\ OrdersInv /\ FollowsRuns(db) /\ AdmissionSound
    /\ \A a \in Attempt : lease[a] => run[a] # "none"
=============================================================================
