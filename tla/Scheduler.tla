------------------------------ MODULE Scheduler ------------------------------
(***************************************************************************)
(* AsyncRunScheduler: a bounded FIFO queue of jobs, a fixed pool of worker *)
(* tasks, cooperative cancellation and a draining shutdown.  One action is *)
(* one uninterrupted stretch of the event loop: no critical section of the *)
(* scheduler's asyncio.Lock contains an await, so each of submit, cancel   *)
(* and the first half of shutdown is atomic.                               *)
(*                                                                         *)
(* A job is a run identifier with the generation of its submission; the    *)
(* same identifier is submitted again when an approval resumes a run or a  *)
(* subagent is followed up.  cancel makes a status terminal at once, while *)
(* the job is still queued or its operation still drains, and submit asks  *)
(* for a terminal status only: so two generations of one identifier may    *)
(* live side by side, and _jobs, _statuses and _running have room for one. *)
(***************************************************************************)
EXTENDS Naturals, Sequences, FiniteSets

CONSTANTS
    Runs,           \* stable run identifiers
    Workers,        \* the max_active worker tasks
    QueueCapacity,  \* maxsize of the asyncio queue
    MaxGen,         \* bound: submissions of one identifier
    MaxJobs,        \* bound: submissions of all identifiers together
    MaxSessions     \* bound: calls of start that build a worker pool

ASSUME SchedulerAssumption ==
    /\ IsFiniteSet(Workers) /\ Workers # {}
    /\ QueueCapacity \in Nat \ {0}
    /\ MaxGen \in Nat \ {0}
    /\ MaxJobs \in Nat \ {0}
    /\ MaxSessions \in Nat \ {0}

VARIABLES
    queue,      \* _queue: jobs and STOP marks, oldest first
    gen,        \* _jobs: the generation last submitted for an identifier, 0 if none
    status,     \* _statuses
    running,    \* _running: the generation whose task is registered, 0 if none
    hasty,      \* history: identifiers submitted while an older generation lived
    future,     \* job -> state of the future handed to the submitter
    token,      \* job -> its cancellation token is set
    started,    \* job -> _invoke has entered the operation
    hit,        \* job -> task.cancel() was called on its task
    task,       \* job -> state of the asyncio task that runs _invoke
    worker,     \* worker -> state of its loop
    held,       \* worker -> the job it is awaiting
    accepting,  \* _accepting
    pool,       \* _workers is not empty
    closer,     \* progress of the shutdown call
    stops,      \* STOP marks shutdown still has to put
    sessions    \* calls of start so far

jobVars  == <<future, token, started, hit, task>>
mapVars  == <<gen, status, running, hasty>>
poolVars == <<worker, held>>
lifeVars == <<accepting, pool, closer, stops, sessions>>
vars     == <<queue, mapVars, jobVars, poolVars, lifeVars>>

Job      == Runs \X (1..MaxGen)
STOP     == <<>>
NoJob    == <<>>
Terminal == {"completed", "failed", "cancelled"}

Latest(r)  == <<r, gen[r]>>
Queued(j)  == \E i \in 1..Len(queue) : queue[i] = j
HeldBy(j)  == {w \in Workers : held[w] = j}

\* The future of j is still pending, so cancel or a result may settle it.
Settle(f, j, outcome) == IF f[j] = "pending" THEN [f EXCEPT ![j] = outcome] ELSE f

\* A worker will still meet j, or is awaiting it.
Live(j) == Queued(j) \/ HeldBy(j) # {}

Init ==
    /\ queue = <<>>
    /\ gen = [r \in Runs |-> 0]
    /\ status = [r \in Runs |-> "none"]
    /\ running = [r \in Runs |-> 0]
    /\ hasty = {}
    /\ future = [j \in Job |-> "none"]
    /\ token = [j \in Job |-> FALSE]
    /\ started = [j \in Job |-> FALSE]
    /\ hit = [j \in Job |-> FALSE]
    /\ task = [j \in Job |-> "none"]
    /\ worker = [w \in Workers |-> "absent"]
    /\ held = [w \in Workers |-> NoJob]
    /\ accepting = FALSE
    /\ pool = FALSE
    /\ closer = "idle"
    /\ stops = 0
    /\ sessions = 0

\* start: build the worker pool; both owners call it only before any shutdown
\* or after the previous one has returned.
Start ==
    /\ ~pool
    /\ closer = "idle"
    /\ sessions < MaxSessions
    /\ sessions' = sessions + 1
    /\ accepting' = TRUE
    /\ pool' = TRUE
    /\ worker' = [w \in Workers |-> "idle"]
    /\ UNCHANGED <<queue, mapVars, jobVars, held, closer, stops>>

\* submit: refused when not accepting, when the identifier is still scheduled
\* or when the queue is full; otherwise a fresh generation is queued, whether
\* or not an older one has drained.
Submit(r) ==
    /\ accepting
    /\ gen[r] # 0 => status[r] \in Terminal
    /\ gen[r] < MaxGen
    /\ Cardinality({j \in Job : future[j] # "none"}) < MaxJobs
    /\ Len(queue) < QueueCapacity
    /\ gen' = [gen EXCEPT ![r] = @ + 1]
    /\ queue' = Append(queue, <<r, gen[r] + 1>>)
    /\ status' = [status EXCEPT ![r] = "queued"]
    /\ future' = [future EXCEPT ![<<r, gen[r] + 1>>] = "pending"]
    /\ hasty' = IF \E j \in Job : j[1] = r /\ Live(j) THEN hasty \cup {r} ELSE hasty \ {r}
    /\ UNCHANGED <<running, token, started, hit, task, poolVars, lifeVars>>

\* Fault: the worker skips the STOP mark instead of returning.
TakeStopAndContinue(w) ==
    /\ worker[w] = "idle"
    /\ queue # <<>>
    /\ Head(queue) = STOP
    /\ queue' = Tail(queue)
    /\ UNCHANGED <<mapVars, jobVars, poolVars, lifeVars>>

\* _worker, item is STOP: the worker returns.
TakeStop(w) ==
    /\ worker[w] = "idle"
    /\ queue # <<>>
    /\ Head(queue) = STOP
    /\ queue' = Tail(queue)
    /\ worker' = [worker EXCEPT ![w] = "exited"]
    /\ UNCHANGED <<mapVars, jobVars, held, lifeVars>>

\* _worker, the job's token is already set: it is dropped without a task.
TakeCancelled(w) ==
    /\ worker[w] = "idle"
    /\ queue # <<>>
    /\ Head(queue) # STOP
    /\ token[Head(queue)]
    /\ queue' = Tail(queue)
    /\ future' = Settle(future, Head(queue), "cancelled")
    /\ status' = [status EXCEPT ![Head(queue)[1]] = "cancelled"]
    /\ UNCHANGED <<gen, running, hasty, token, started, hit, task, poolVars, lifeVars>>

\* Fault: the worker forgets to look at the token of a dequeued job.
TakeJobIgnoringToken(w) ==
    /\ worker[w] = "idle"
    /\ queue # <<>>
    /\ Head(queue) # STOP
    /\ queue' = Tail(queue)
    /\ task' = [task EXCEPT ![Head(queue)] = "ready"]
    /\ running' = [running EXCEPT ![Head(queue)[1]] = Head(queue)[2]]
    /\ status' = [status EXCEPT ![Head(queue)[1]] = "running"]
    /\ worker' = [worker EXCEPT ![w] = "busy"]
    /\ held' = [held EXCEPT ![w] = Head(queue)]
    /\ UNCHANGED <<gen, hasty, future, token, started, hit, lifeVars>>

\* _worker, the job is live: its task is created and registered.
TakeJob(w) ==
    /\ worker[w] = "idle"
    /\ queue # <<>>
    /\ Head(queue) # STOP
    /\ ~token[Head(queue)]
    /\ queue' = Tail(queue)
    /\ task' = [task EXCEPT ![Head(queue)] = "ready"]
    /\ running' = [running EXCEPT ![Head(queue)[1]] = Head(queue)[2]]
    /\ status' = [status EXCEPT ![Head(queue)[1]] = "running"]
    /\ worker' = [worker EXCEPT ![w] = "busy"]
    /\ held' = [held EXCEPT ![w] = Head(queue)]
    /\ UNCHANGED <<gen, hasty, future, token, started, hit, lifeVars>>

\* First step of the task.  asyncio throws a cancellation requested before it
\* into the unstarted coroutine, which then never reaches the operation.
Invoke(j) ==
    /\ task[j] = "ready"
    /\ IF hit[j]
       THEN /\ task' = [task EXCEPT ![j] = "cancelled"]
            /\ UNCHANGED started
       ELSE /\ task' = [task EXCEPT ![j] = "executing"]
            /\ started' = [started EXCEPT ![j] = TRUE]
    /\ UNCHANGED <<queue, mapVars, future, token, hit, poolVars, lifeVars>>

\* The operation of the submitter ends: it may return in spite of a
\* cancellation and may raise CancelledError on its own.
Finish(j) ==
    /\ task[j] = "executing"
    /\ \E outcome \in {"returned", "raised", "cancelled"} :
          task' = [task EXCEPT ![j] = outcome]
    /\ UNCHANGED <<queue, mapVars, future, token, started, hit, poolVars, lifeVars>>

Outcome(j) ==
    CASE task[j] = "returned" -> [status |-> "completed", future |-> "result"]
      [] task[j] = "raised"   -> [status |-> "failed", future |-> "exception"]
      [] OTHER                -> [status |-> "cancelled", future |-> "cancelled"]

\* _worker resumes from `await task`: status, future and registration in one
\* stretch, then the loop turns.
Collect(w) ==
    /\ worker[w] = "busy"
    /\ task[held[w]] \in {"returned", "raised", "cancelled"}
    /\ status' = [status EXCEPT ![held[w][1]] = Outcome(held[w]).status]
    /\ future' = Settle(future, held[w], Outcome(held[w]).future)
    /\ running' = [running EXCEPT ![held[w][1]] = 0]
    /\ worker' = [worker EXCEPT ![w] = "idle"]
    /\ held' = [held EXCEPT ![w] = NoJob]
    /\ UNCHANGED <<queue, gen, hasty, token, started, hit, task, lifeVars>>

\* Fault: the task is cancelled although it has not entered its operation.
CancelTaskAtOnce(r) == hit' = [hit EXCEPT ![<<r, running[r]>>] = TRUE]

\* task.cancel() of a registered task, withheld until the operation is entered.
CancelTask(r) ==
    hit' = IF started[Latest(r)] THEN [hit EXCEPT ![<<r, running[r]>>] = TRUE] ELSE hit

\* cancel: False for an unknown or terminal identifier, else the token is set
\* and the task, or the future of a job still queued, is cancelled.
Cancel(r) ==
    /\ gen[r] # 0
    /\ status[r] \notin Terminal
    /\ token' = [token EXCEPT ![Latest(r)] = TRUE]
    /\ IF running[r] # 0
       THEN CancelTask(r) /\ UNCHANGED future
       ELSE future' = Settle(future, Latest(r), "cancelled") /\ UNCHANGED hit
    /\ status' = [status EXCEPT ![r] = "cancelled"]
    /\ UNCHANGED <<queue, gen, running, hasty, started, task, poolVars, lifeVars>>

\* The identifiers shutdown cancels in memory and the tasks it cancels.
Pending(cancelPending)  == {r \in Runs : cancelPending /\ gen[r] # 0 /\ status[r] = "queued"}
Active(cancelRunning)   == {r \in Runs : cancelRunning /\ running[r] # 0}

\* shutdown up to its first await.
Shutdown(cancelPending, cancelRunning) ==
    LET P == Pending(cancelPending)
        A == Active(cancelRunning)
        stopped == {Latest(r) : r \in P \cup A}
    IN  /\ pool
        /\ accepting' = FALSE
        /\ pool' = FALSE
        /\ token' = [j \in Job |-> token[j] \/ j \in stopped]
        /\ future' = [j \in Job |-> IF j \in {Latest(r) : r \in P} /\ future[j] = "pending"
                                    THEN "cancelled" ELSE future[j]]
        /\ status' = [r \in Runs |-> IF r \in P THEN "cancelled" ELSE status[r]]
        /\ hit' = [j \in Job |-> hit[j] \/ \E r \in A : j = <<r, running[r]>> /\ started[Latest(r)]]
        /\ closer' = IF cancelPending THEN "stopping" ELSE "joining"
        /\ stops' = Cardinality(Workers)
        /\ UNCHANGED <<queue, gen, running, hasty, started, task, poolVars, sessions>>

\* await self._queue.join(): every item put was marked done.
Join ==
    /\ closer = "joining"
    /\ queue = <<>>
    /\ \A w \in Workers : worker[w] # "busy"
    /\ closer' = "stopping"
    /\ UNCHANGED <<queue, mapVars, jobVars, poolVars, accepting, pool, stops, sessions>>

\* await self._queue.put(self._STOP) waits for a free slot.
PutStop ==
    /\ closer = "stopping"
    /\ stops > 0
    /\ Len(queue) < QueueCapacity
    /\ queue' = Append(queue, STOP)
    /\ stops' = stops - 1
    /\ UNCHANGED <<mapVars, jobVars, poolVars, accepting, pool, closer, sessions>>

\* asyncio.gather over the workers returns: shutdown is complete.
Gather ==
    /\ closer = "stopping"
    /\ stops = 0
    /\ \A w \in Workers : worker[w] = "exited"
    /\ closer' = "idle"
    /\ UNCHANGED <<queue, mapVars, jobVars, poolVars, accepting, pool, stops, sessions>>

\* Nothing is left to do once the last session has been shut down.
Done ==
    /\ ~pool
    /\ closer = "idle"
    /\ sessions = MaxSessions
    /\ UNCHANGED vars

Next ==
    \/ Start
    \/ \E r \in Runs : Submit(r) \/ Cancel(r)
    \/ \E w \in Workers : TakeStop(w) \/ TakeCancelled(w) \/ TakeJob(w) \/ Collect(w)
    \/ \E j \in Job : Invoke(j) \/ Finish(j)
    \/ \E p, a \in BOOLEAN : Shutdown(p, a)
    \/ Join \/ PutStop \/ Gather \/ Done

(***************************************************************************)
(* The event loop runs every ready callback, the operations handed in end  *)
(* (each has a deadline or is cancelled), and a shutdown once called is    *)
(* not abandoned: its owner drains it through await_durable.  Nothing      *)
(* obliges a caller to submit, cancel or shut down.                        *)
(***************************************************************************)
Fairness ==
    /\ \A w \in Workers : WF_vars(TakeStop(w)) /\ WF_vars(TakeCancelled(w))
                          /\ WF_vars(TakeJob(w)) /\ WF_vars(Collect(w))
    /\ \A j \in Job : WF_vars(Invoke(j)) /\ WF_vars(Finish(j))
    /\ WF_vars(Join) /\ WF_vars(PutStop) /\ WF_vars(Gather)

Spec == Init /\ [][Next]_vars
FairSpec == Spec /\ Fairness

-----------------------------------------------------------------------------
Mark == Job \cup {STOP}

\* Every variable has its type, and the queue never exceeds its maxsize.
TypeOK ==
    /\ queue \in Seq(Mark) /\ Len(queue) =< QueueCapacity
    /\ gen \in [Runs -> 0..MaxGen]
    /\ status \in [Runs -> {"none", "queued", "running"} \cup Terminal]
    /\ running \in [Runs -> 0..MaxGen]
    /\ hasty \subseteq Runs
    /\ future \in [Job -> {"none", "pending", "result", "exception", "cancelled"}]
    /\ token \in [Job -> BOOLEAN]
    /\ started \in [Job -> BOOLEAN]
    /\ hit \in [Job -> BOOLEAN]
    /\ task \in [Job -> {"none", "ready", "executing", "returned", "raised", "cancelled"}]
    /\ worker \in [Workers -> {"absent", "idle", "busy", "exited"}]
    /\ held \in [Workers -> Job \cup {NoJob}]
    /\ accepting \in BOOLEAN
    /\ pool \in BOOLEAN
    /\ closer \in {"idle", "joining", "stopping"}
    /\ stops \in 0..Cardinality(Workers)
    /\ sessions \in 0..MaxSessions

\* _running and the workers agree: a registered generation is one a worker
\* awaits, and what a worker awaits is registered, so cancel and shutdown reach
\* the task that is really executing.  The end of an older generation takes the
\* registration of the newer one with it, so the second half is for identifiers
\* that were not submitted over a living generation.
RegistrationFaithful ==
    /\ \A r \in Runs : running[r] # 0 => HeldBy(<<r, running[r]>>) # {}
    /\ \A w \in Workers :
          worker[w] = "busy" /\ held[w][1] \notin hasty => running[held[w][1]] = held[w][2]

\* A job that is queued or executing and that nobody has cancelled is never
\* reported terminal: cancel cannot return False for live, uncancelled work,
\* with the same exception.
LiveWorkCancellable ==
    \A j \in Job : Live(j) /\ ~token[j] /\ j[1] \notin hasty => status[j[1]] \notin Terminal

\* The exception needs a cancellation: a generation is submitted over a living
\* one only after some older generation was cancelled.
HastyAfterCancel ==
    \A r \in hasty : \E j \in Job : j[1] = r /\ j[2] < gen[r] /\ token[j]

\* The comment in _invoke: no cancellation ends a task before its operation
\* was entered, so the operation's own try/finally always runs.  This holds of
\* every generation, although cancel and shutdown read `started` of the latest
\* job and cancel the task registered under the identifier.
OperationAlwaysEntered ==
    \A j \in Job : task[j] \in {"returned", "raised", "cancelled"} => started[j]

\* What cancel and shutdown rely on: a job that lives is found where it lives,
\* it is not reported over unless its identifier was cancelled and submitted
\* again too early, and none ends before it was entered.
CancelReachesWork ==
    /\ TypeOK
    /\ RegistrationFaithful
    /\ LiveWorkCancellable
    /\ HastyAfterCancel
    /\ OperationAlwaysEntered

\* When shutdown has returned nothing is left behind: no queued item, no
\* executing operation, no worker, and no submitter with a pending future.
ShutdownLeavesNothing ==
    ~pool /\ closer = "idle" =>
        /\ queue = <<>>
        /\ \A w \in Workers : worker[w] \notin {"idle", "busy"}
        /\ \A j \in Job : future[j] # "pending" /\ task[j] \notin {"ready", "executing"}

\* A submitter that was told its queued job is cancelled never sees it run:
\* the job still sits in the queue and is dropped when a worker reaches it.
CancelledInQueueNeverRuns ==
    [][\A j \in Job : future[j] = "cancelled" /\ task[j] = "none" => task'[j] = "none"]_vars

\* Every accepted job settles its future, whatever is cancelled or shut down.
EveryFutureSettles ==
    \A j \in Job : (future[j] = "pending") ~> (future[j] # "pending")

\* A shutdown, once called, returns: its STOP marks get through the bounded
\* queue and reach every worker, even the busy ones.
ShutdownReturns == (closer # "idle") ~> (closer = "idle")

\* Nobody is left waiting: every future settles, and a shutdown returns with
\* nothing left behind.
SchedulerSettles == EveryFutureSettles /\ ShutdownReturns /\ []ShutdownLeavesNothing

(***************************************************************************)
(* Why the above holds.  The queue is first in, first out, so generations  *)
(* of one identifier are taken in their order and a registration is never  *)
(* of an older generation than the newest one taken: the `started` a       *)
(* cancellation reads is that of the task it cancels.  An identifier never *)
(* submitted over a living generation has one live job, the latest.        *)
(***************************************************************************)
QueueDistinct ==
    \A i, k \in 1..Len(queue) : queue[i] = queue[k] /\ queue[i] # STOP => i = k

QueueInOrder ==
    \A i, k \in 1..Len(queue) :
        queue[i] # STOP /\ queue[k] # STOP /\ i < k /\ queue[i][1] = queue[k][1]
        => queue[i][2] < queue[k][2]

TakenInOrder ==
    \A j, k \in Job : task[j] # "none" /\ Queued(k) /\ j[1] = k[1] => j[2] < k[2]

NewestRegistered ==
    \A j \in Job : task[j] # "none" /\ running[j[1]] # 0 => j[2] =< running[j[1]]

LiveIsLatest ==
    \A j \in Job :
        Live(j) => j[2] =< gen[j[1]] /\ (j[1] \notin hasty => j[2] = gen[j[1]])

QueuedUntouched == \A j \in Job : Queued(j) => HeldBy(j) = {} /\ task[j] = "none"

HeldByOne ==
    /\ \A v, w \in Workers : held[v] = held[w] /\ held[v] # NoJob => v = w
    /\ \A w \in Workers : worker[w] = "busy" <=> held[w] # NoJob

FutureGenerationsUntouched ==
    \A j \in Job : gen[j[1]] < j[2] => ~token[j] /\ task[j] = "none"

EnteredOnce ==
    \A j \in Job : /\ started[j] <=> task[j] \notin {"none", "ready"}
                   /\ hit[j] => started[j]

NoWorkerOutsideSession ==
    ~pool /\ closer = "idle" => \A w \in Workers : worker[w] \notin {"idle", "busy"}

\* The inductive invariant behind CancelReachesWork.
SchedulerInv ==
    /\ TypeOK
    /\ QueueDistinct
    /\ QueueInOrder
    /\ TakenInOrder
    /\ NewestRegistered
    /\ LiveIsLatest
    /\ QueuedUntouched
    /\ HeldByOne
    /\ FutureGenerationsUntouched
    /\ EnteredOnce
    /\ NoWorkerOutsideSession
    /\ RegistrationFaithful
    /\ LiveWorkCancellable
    /\ HastyAfterCancel

\* Why a withdrawn job is dropped: whoever cancels the future of a job that has
\* no task yet has set its token, and a worker looks at the token first.
WithdrawnIsMarked ==
    \A j \in Job : future[j] = "cancelled" /\ task[j] = "none" => token[j]

(***************************************************************************)
(* Why a shutdown leaves nothing, reused identifiers or not: submissions   *)
(* stop before the first STOP mark is put, so the marks are the tail of    *)
(* the queue and a worker that has met one has seen the last job; and the  *)
(* marks put, to put and already taken are one for each worker.            *)
(***************************************************************************)
Exited == {w \in Workers : worker[w] = "exited"}

MarksAfter(k) ==
    /\ k \in 0..Len(queue)
    /\ \A i \in 1..Len(queue) : queue[i] = STOP <=> i > k

OneMarkEach ==
    \E k \in 0..Len(queue) :
        /\ MarksAfter(k)
        /\ Exited # {} => k = 0
        /\ (Len(queue) - k) + stops + Cardinality(Exited) = Cardinality(Workers)

SessionShape ==
    /\ accepting => pool
    /\ pool => closer = "idle"
    /\ pool \/ closer = "joining" => MarksAfter(Len(queue)) /\ Exited = {}
    /\ closer = "joining" => stops = Cardinality(Workers)
    /\ closer = "stopping" => OneMarkEach
    /\ pool \/ closer # "idle" => \A w \in Workers : worker[w] # "absent"

PendingIsLive ==
    \A j \in Job : /\ future[j] = "pending" => Queued(j) \/ HeldBy(j) # {}
                   /\ task[j] \in {"ready", "executing"} => HeldBy(j) # {}

HeldIsBusy == \A w \in Workers : held[w] # NoJob => worker[w] = "busy"

ShutdownInv ==
    /\ TypeOK
    /\ SessionShape
    /\ PendingIsLive
    /\ HeldIsBusy
    /\ ShutdownLeavesNothing
=============================================================================
