------------------------- MODULE VerificationReviews -------------------------
(***************************************************************************)
(* Manual verification: an operator prepares a plan of commands, decides on *)
(* it, cancels it, and reconciles what a failure left undecided.            *)
(*                                                                         *)
(* A decision is a task that holds the workspace's write lock from its      *)
(* claim to its outcome and runs real processes between two transactions    *)
(* each.  A cancel is another task: it raises a fence, cancels and drains   *)
(* the decision, then writes under the lock itself.  Any transaction may    *)
(* fail, the configuration may change and the process may die anywhere.     *)
(***************************************************************************)
EXTENDS Naturals, Sequences, FiniteSets

CONSTANTS
    Reviews,      \* review ids
    Cancels,      \* cancel requests
    NCommands,    \* commands of a plan
    Capacity,     \* MAX_MANUAL_VERIFICATIONS
    MaxCrashes    \* bound: process crashes

VARIABLES
    review,    \* id -> [status, overdue, decision] in verification_reviews
    steps,     \* id -> its rows in verification_command_steps, in order
    stops,     \* id -> stop_on_failure of its plan
    stale,     \* reviews whose configuration is not the prepared one any more
    task,      \* id -> the decision in _verification_tasks
    lock,      \* the decision that holds the write lock, or "free"
    request,   \* cancel request -> [pc, r]; those that drain or settle are the fence
    results,   \* id -> what its commands did when they ran (history)
    launches,  \* id -> command -> processes started for it (history)
    booting,   \* start has not opened admission yet
    crashes

vars == <<review, steps, stops, stale, task, lock, request, results, launches, booting, crashes>>

Statuses == {"none", "pending", "running", "completed", "failed", "cancelled", "rejected",
             "expired", "indeterminate"}
\* error: the attempt is settled without an exit code (timeout, output limit, no supervision).
Results == {"ok", "fail", "error"}

NoTask == [pc |-> "none", cancelled |-> FALSE, verdict |-> "", last |-> ""]
NoRequest == [pc |-> "idle", r |-> ""]

Init ==
    /\ review = [r \in Reviews |-> [status |-> "none", overdue |-> FALSE, decision |-> ""]]
    /\ steps = [r \in Reviews |-> <<>>]
    /\ stops = [r \in Reviews |-> TRUE]
    /\ stale = {}
    /\ task = [r \in Reviews |-> NoTask]
    /\ lock = "free"
    /\ request = [c \in Cancels |-> NoRequest]
    /\ results = [r \in Reviews |-> <<>>]
    /\ launches = [r \in Reviews |-> [i \in 1..NCommands |-> 0]]
    /\ booting = FALSE
    /\ crashes = 0

TypeOK ==
    /\ review \in [Reviews -> [status : Statuses, overdue : BOOLEAN,
                               decision : {"", "approve", "reject", "cancel"}]]
    /\ \A r \in Reviews : Len(steps[r]) <= NCommands /\ Len(results[r]) <= NCommands
    /\ stale \subseteq Reviews
    /\ lock \in Reviews \cup {"free"}
    /\ \A r \in Reviews : task[r].pc \in {"none", "wait", "claim", "prepare", "start", "launch",
                                           "run", "seal", "outcome"}

Status(r) == review[r].status
SetStatus(r, s) == review' = [review EXCEPT ![r].status = s]
Decides(r) == task[r].pc # "none"
Fenced(r) == \E c \in Cancels : request[c].pc \in {"drain", "settle"} /\ request[c].r = r
Open == ~booting
Env == UNCHANGED <<stops, stale, booting, crashes>>
History == UNCHANGED <<results, launches>>

\* _expire commits before the caller looks at the row.
Current(r) == IF Status(r) = "pending" /\ review[r].overdue THEN "expired" ELSE Status(r)
Unknown(r) == \E i \in DOMAIN steps[r] : steps[r][i] = "running"

\* Everything that could run has run: all commands, or up to the one that stops the plan.
Complete(r) ==
    /\ steps[r] # <<>>
    /\ ~Unknown(r)
    /\ Len(steps[r]) = NCommands \/ (stops[r] /\ steps[r][Len(steps[r])] # "ok")

-----------------------------------------------------------------------------
(* prepare, get, expiry *)

Live == {r \in Reviews : Current(r) \in {"pending", "running", "indeterminate"}}

Prepare(r) ==
    /\ Open /\ lock = "free"
    /\ Status(r) = "none"
    /\ Cardinality(Live) < Capacity
    /\ SetStatus(r, "pending")
    /\ stops' \in {[stops EXCEPT ![r] = b] : b \in BOOLEAN}
    /\ UNCHANGED <<steps, stale, task, lock, request, booting, crashes>> /\ History

\* Any operation that reads a lapsed review, and the maintenance after one.
Expire(r) ==
    /\ Current(r) # Status(r)
    /\ SetStatus(r, Current(r))
    /\ UNCHANGED <<steps, task, lock, request>> /\ Env /\ History

-----------------------------------------------------------------------------
(* decide *)

\* Fault: a decision does not look at the fence.
DecideUnfenced(r) ==
    /\ Open
    /\ Status(r) # "none"
    /\ ~Decides(r)
    /\ Cardinality({x \in Reviews : Decides(x)}) < Capacity
    /\ task' = [task EXCEPT ![r].pc = "wait"]
    /\ UNCHANGED <<review, steps, lock, request>> /\ Env /\ History

Decide(r) ==
    /\ Open
    /\ Status(r) # "none"
    /\ ~Fenced(r) /\ ~Decides(r)
    /\ Cardinality({x \in Reviews : Decides(x)}) < Capacity
    /\ task' = [task EXCEPT ![r].pc = "wait"]
    /\ UNCHANGED <<review, steps, lock, request>> /\ Env /\ History

\* The task leaves: lock and registration go in the same callbacks.
End(r) == /\ task' = [task EXCEPT ![r] = NoTask]
          /\ lock' = IF lock = r THEN "free" ELSE lock
Goto(r, pc) == task' = [task EXCEPT ![r].pc = pc] /\ UNCHANGED lock
Conclude(r, verdict) ==
    task' = [task EXCEPT ![r].pc = "outcome", ![r].verdict = verdict] /\ UNCHANGED lock

\* Cancelled in the queue of the lock: nothing was claimed.
Leave(r) ==
    /\ task[r].pc = "wait" /\ task[r].cancelled
    /\ End(r)
    /\ UNCHANGED <<review, steps, request>> /\ Env /\ History

Take(r) ==
    /\ task[r].pc = "wait" /\ ~task[r].cancelled
    /\ lock = "free"
    /\ lock' = r
    /\ task' = [task EXCEPT ![r].pc = "claim"]
    /\ UNCHANGED <<review, steps, request>> /\ Env /\ History

Refused(r) ==
    /\ task[r].pc = "claim"
    /\ Current(r) # "pending" \/ task[r].cancelled
    /\ SetStatus(r, Current(r))
    /\ End(r)
    /\ UNCHANGED <<steps, request>> /\ Env /\ History

Reject(r) ==
    /\ task[r].pc = "claim" /\ Current(r) = "pending"
    /\ review' = [review EXCEPT ![r].status = "rejected", ![r].decision = "reject"]
    /\ End(r)
    /\ UNCHANGED <<steps, request>> /\ Env /\ History

\* The claim commits; a cancellation that came meanwhile is raised after it,
\* and an error after the commit leaves a running review without a task.
Approve(r) ==
    /\ task[r].pc = "claim" /\ Current(r) = "pending"
    /\ review' = [review EXCEPT ![r].status = "running", ![r].decision = "approve"]
    /\ \/ ~task[r].cancelled /\ Goto(r, "prepare")
       \/ task[r].cancelled /\ Conclude(r, "cancelled")
       \/ End(r)
    /\ UNCHANGED <<steps, request>> /\ Env /\ History

\* prepared_pipeline: the applied source and the same plan, read again.
PreparePipeline(r) ==
    /\ task[r].pc = "prepare"
    /\ \/ task[r].cancelled /\ Conclude(r, "cancelled")
       \/ ~task[r].cancelled /\ r \in stale /\ Conclude(r, "failed")
       \/ ~task[r].cancelled /\ Conclude(r, "indeterminate")
       \/ ~task[r].cancelled /\ r \notin stale /\ Goto(r, "start")
    /\ UNCHANGED <<review, steps, request>> /\ Env /\ History

\* The head of _run_plan's loop: the plan is over, or no more the reviewed one.
PlanOver(r) == Complete(r)

EndPlan(r) ==
    /\ task[r].pc = "start"
    /\ PlanOver(r)
    /\ Conclude(r, IF task[r].cancelled THEN "cancelled" ELSE "completed")
    /\ UNCHANGED <<review, steps, request>> /\ Env /\ History

StalePlan(r) ==
    /\ task[r].pc \in {"start", "launch"}
    /\ r \in stale
    /\ ~PlanOver(r)
    /\ Conclude(r, "failed")
    /\ UNCHANGED <<review, steps, request>> /\ Env /\ History

\* Fault: the process starts first and its intent is written with its result.
StartStepLater(r) ==
    /\ task[r].pc = "start"
    /\ ~PlanOver(r) /\ r \notin stale
    /\ Goto(r, "launch")
    /\ UNCHANGED <<review, steps, request>> /\ Env /\ History

\* start_step: the intent is durable before the process exists.
StartStep(r) ==
    /\ task[r].pc = "start"
    /\ ~PlanOver(r) /\ r \notin stale
    /\ Status(r) = "running" /\ ~Unknown(r)
    /\ \/ /\ steps' = [steps EXCEPT ![r] = Append(@, "running")]
          /\ \/ ~task[r].cancelled /\ Goto(r, "launch")
             \/ Conclude(r, IF task[r].cancelled THEN "cancelled" ELSE "indeterminate")
       \/ UNCHANGED steps /\ Conclude(r, "indeterminate")
    /\ UNCHANGED <<review, request>> /\ Env /\ History

Launch(r) ==
    /\ task[r].pc = "launch"
    /\ ~task[r].cancelled /\ r \notin stale
    /\ launches' = [launches EXCEPT ![r][Len(results[r]) + 1] = @ + 1]
    /\ Goto(r, "run")
    /\ UNCHANGED <<review, steps, request, results>> /\ Env

\* run_binary returned: the process is gone and its result known.
Exit(r) ==
    /\ task[r].pc = "run"
    /\ \E x \in Results :
          /\ results' = [results EXCEPT ![r] = Append(@, x)]
          /\ task' = [task EXCEPT ![r].pc = "seal", ![r].last = x]
    /\ UNCHANGED <<review, steps, lock, request, launches>> /\ Env

\* The cleanup of the process failed, or the operation's deadline killed it.
Break(r) ==
    /\ task[r].pc \in {"launch", "run"}
    /\ \/ Conclude(r, "failed")
       \/ Conclude(r, "indeterminate")
    /\ UNCHANGED <<review, steps, request>> /\ Env /\ History

\* The cancellation reaches the supervisor, which kills the process first.
Kill(r) ==
    /\ task[r].pc \in {"start", "launch", "run"} /\ task[r].cancelled
    /\ Conclude(r, "cancelled")
    /\ UNCHANGED <<review, steps, request>> /\ Env /\ History

\* seal_step drains before a cancellation is raised; it may fail or be refused.
SealStep(r) ==
    /\ task[r].pc = "seal"
    /\ \/ /\ steps' = [steps EXCEPT ![r][Len(steps[r])] = task[r].last]
          /\ IF task[r].cancelled THEN Conclude(r, "cancelled") ELSE Goto(r, "start")
       \/ UNCHANGED steps /\ Conclude(r, "indeterminate")
    /\ UNCHANGED <<review, request>> /\ Env /\ History

\* outcome writes only over a running review; it may fail too.
Outcome(r) ==
    /\ task[r].pc = "outcome"
    /\ \/ SetStatus(r, IF Status(r) = "running" THEN task[r].verdict ELSE Status(r))
       \/ UNCHANGED review
    /\ End(r)
    /\ UNCHANGED <<steps, request>> /\ Env /\ History

-----------------------------------------------------------------------------
(* reconcile, cancel *)

\* _reconcile_row: stored evidence only.
Reconciled(r) ==
    IF Status(r) \in {"running", "indeterminate"}
    THEN IF Complete(r) THEN "completed" ELSE "indeterminate"
    ELSE Current(r)

Reconcile(r) ==
    /\ Open /\ lock = "free"
    /\ Status(r) # "none"
    /\ ~Decides(r) /\ ~Fenced(r)
    /\ SetStatus(r, Reconciled(r))
    /\ UNCHANGED <<steps, task, lock, request>> /\ Env /\ History

\* The fence rises and the task is cancelled without an await in between.
Cancel(c, r) ==
    /\ Open
    /\ request[c].pc = "idle"
    /\ Status(r) # "none"
    /\ request' = [request EXCEPT ![c] = [pc |-> "drain", r |-> r]]
    /\ task' = [task EXCEPT ![r].cancelled = Decides(r)]
    /\ UNCHANGED <<review, steps, lock>> /\ Env /\ History

\* The cancelled task is over.
Drained(c) == ~Decides(request[c].r)

Drain(c) ==
    /\ request[c].pc = "drain"
    /\ Drained(c)
    /\ request' = [request EXCEPT ![c].pc = "settle"]
    /\ UNCHANGED <<review, steps, task, lock>> /\ Env /\ History

\* cancel_pending, then reconcile, under the lock; the fence falls with the last.
SettleCancel(c) ==
    LET r == request[c].r IN
    /\ request[c].pc = "settle"
    /\ lock = "free"
    /\ review' = IF Current(r) = "pending"
                 THEN [review EXCEPT ![r].status = "cancelled", ![r].decision = "cancel"]
                 ELSE [review EXCEPT ![r].status = Reconciled(r)]
    /\ request' = [request EXCEPT ![c].pc = "done"]
    /\ UNCHANGED <<steps, task, lock>> /\ Env /\ History

FailCancel(c) ==
    /\ request[c].pc = "settle"
    /\ lock = "free"
    /\ request' = [request EXCEPT ![c] = NoRequest]
    /\ UNCHANGED <<review, steps, task, lock>> /\ Env /\ History

-----------------------------------------------------------------------------
(* Clock, user, crash, start *)

Overdue(r) ==
    /\ Status(r) = "pending" /\ ~review[r].overdue
    /\ review' = [review EXCEPT ![r].overdue = TRUE]
    /\ UNCHANGED <<steps, task, lock, request>> /\ Env /\ History

\* The file's identity is part of a plan: a changed one is never the same again.
EditConfig ==
    /\ stale' = {r \in Reviews : Status(r) # "none"}
    /\ stale' # stale
    /\ UNCHANGED <<review, steps, stops, task, lock, request, booting, crashes>> /\ History

Crash ==
    /\ crashes < MaxCrashes
    /\ crashes' = crashes + 1
    /\ task' = [r \in Reviews |-> NoTask]
    /\ request' = [c \in Cancels |-> NoRequest]
    /\ lock' = "free"
    /\ booting' = TRUE
    /\ UNCHANGED <<review, steps, stops, stale>> /\ History

\* recover_running: a page of the metadata, which start may also skip.
Recover(r) ==
    /\ booting
    /\ Reconciled(r) # Status(r)
    /\ SetStatus(r, Reconciled(r))
    /\ UNCHANGED <<steps, task, lock, request>> /\ Env /\ History

Serve ==
    /\ booting
    /\ booting' = FALSE
    /\ UNCHANGED <<review, steps, stops, stale, task, lock, request, crashes>> /\ History

Next ==
    \/ \E r \in Reviews :
          Prepare(r) \/ Expire(r) \/ Decide(r) \/ Leave(r) \/ Take(r) \/ Refused(r) \/ Reject(r)
          \/ Approve(r) \/ PreparePipeline(r) \/ EndPlan(r) \/ StalePlan(r) \/ StartStep(r)
          \/ Launch(r) \/ Exit(r) \/ Break(r) \/ Kill(r) \/ SealStep(r) \/ Outcome(r)
          \/ Reconcile(r) \/ Overdue(r) \/ Recover(r)
    \/ \E c \in Cancels : (\E r \in Reviews : Cancel(c, r)) \/ Drain(c) \/ SettleCancel(c)
                          \/ FailCancel(c)
    \/ EditConfig \/ Crash \/ Serve

Spec == Init /\ [][Next]_vars

-----------------------------------------------------------------------------
(* Properties *)

\* A process exists only after its durable intent, and no command is started
\* twice whatever is decided, cancelled, reconciled or restarted.
IntentBeforeLaunch ==
    \A r \in Reviews : \A i \in 1..NCommands :
        /\ launches[r][i] <= 1
        /\ launches[r][i] = 1 => i <= Len(steps[r]) /\ review[r].decision = "approve"

\* completed is a statement about every command: what the rows say is what the
\* processes did, in order, and no command of the plan is missing.
CompletedIsProven ==
    \A r \in Reviews : Status(r) = "completed" =>
        /\ steps[r] = results[r]
        /\ results[r] # <<>>
        /\ Len(results[r]) < NCommands => stops[r] /\ results[r][Len(results[r])] # "ok"

\* Both: the evidence of a review is never ahead of its commands.
EvidenceIsReal == IntentBeforeLaunch /\ CompletedIsProven

\* From the moment a cancel request is accepted no command is started for its
\* review, and once it returned none ever will be: the review is neither pending
\* nor running.
CancelSettles ==
    /\ [](\A c \in Cancels : request[c].pc = "done" =>
              LET r == request[c].r IN
              Status(r) \notin {"pending", "running"} /\ task[r].pc \in {"none", "wait", "claim"})
    /\ [][\A r \in Reviews : launches'[r] # launches[r] => ~Fenced(r)]_vars
(***************************************************************************)
(* Why they hold.  While a decision works its review runs and the lock is   *)
(* its own, so nobody else settles the review; its rows are what its        *)
(* commands did, up to one row whose command is not known to have ended.    *)
(***************************************************************************)
\* A plan has a command, and no review is called "free".
PlanNames == NCommands \in Nat \ {0} /\ "free" \notin Reviews

Working == {"prepare", "start", "launch", "run", "seal", "outcome"}

VerificationTypes ==
    /\ review \in [Reviews -> [status : Statuses, overdue : BOOLEAN,
                               decision : {"", "approve", "reject", "cancel"}]]
    /\ steps \in [Reviews -> Seq(Results \cup {"running"})]
    /\ results \in [Reviews -> Seq(Results)]
    /\ launches \in [Reviews -> [1..NCommands -> Nat]]
    /\ stops \in [Reviews -> BOOLEAN] /\ stale \subseteq Reviews /\ booting \in BOOLEAN
    /\ task \in [Reviews -> [pc : Working \cup {"none", "wait", "claim"}, cancelled : BOOLEAN,
                             verdict : {"", "completed", "failed", "indeterminate", "cancelled"},
                             last : Results \cup {""}]]
    /\ lock \in Reviews \cup {"free"}
    /\ request \in [Cancels -> [pc : {"idle", "drain", "settle", "done"}, r : Reviews \cup {""}]]

\* The command of the last row is not known to have ended, or its row is not sealed.
Begun(r) == steps[r] = Append(results[r], "running")
Unsealed(r) ==
    /\ Len(steps[r]) = Len(results[r]) /\ Len(steps[r]) # 0
    /\ steps[r][Len(steps[r])] = "running"
    /\ \A i \in 1..(Len(steps[r]) - 1) : steps[r][i] = results[r][i]

RowsTold(r) ==
    /\ steps[r] = results[r] \/ Begun(r) \/ Unsealed(r)
    /\ Len(steps[r]) <= NCommands
    /\ \A i \in 1..NCommands :
          launches[r][i] <= 1 /\ (launches[r][i] # 0 => i <= Len(steps[r]))
    /\ steps[r] # <<>> => review[r].decision = "approve"
    /\ Status(r) \in {"none", "pending"} \/ task[r].pc = "prepare" => steps[r] = <<>>
    /\ Status(r) = "completed" => Complete(r)

TaskKnows(r) ==
    /\ task[r].pc = "claim" => lock = r
    /\ task[r].pc \in Working => lock = r /\ Status(r) = "running" /\ review[r].decision = "approve"
    /\ task[r].pc = "start" => steps[r] = results[r]
    /\ task[r].pc = "launch" => Begun(r) /\ launches[r][Len(steps[r])] = 0
    /\ task[r].pc = "run" => Begun(r)
    /\ task[r].pc = "seal" => Unsealed(r) /\ task[r].last = results[r][Len(steps[r])]
    /\ task[r].pc = "outcome" =>
          task[r].verdict # "" /\ (task[r].verdict = "completed" => Complete(r))

\* A fence leaves no task that would start a command, and outlasts every task it met.
RequestHolds(c) ==
    LET r == request[c].r IN
    /\ request[c].pc # "idle" => r \in Reviews /\ Status(r) # "none"
    /\ request[c].pc = "drain" /\ Decides(r) => task[r].cancelled
    /\ request[c].pc = "settle" => ~Decides(r)
    /\ request[c].pc = "done" => Status(r) \notin {"pending", "running"}

VerificationInv ==
    /\ VerificationTypes
    /\ \A r \in Reviews : RowsTold(r) /\ TaskKnows(r)
    /\ \A c \in Cancels : RequestHolds(c)
    /\ booting => \A r \in Reviews : ~Decides(r)
=============================================================================
