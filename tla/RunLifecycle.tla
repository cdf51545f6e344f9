---------------------------- MODULE RunLifecycle ----------------------------
(***************************************************************************)
(* The turns of one conversation: RunService.create, its operation, cancel *)
(* and resume, over the rows RunStore keeps in SQLite and the statuses the *)
(* scheduler keeps in memory.  One action is one SQLite transaction or one *)
(* stretch of the event loop; everything between two awaits of the service *)
(* interleaves.                                                            *)
(*                                                                         *)
(* The scheduler is Scheduler.tla seen by this service: its queue and its  *)
(* workers are abstracted to "some queued job is taken", its terminal      *)
(* statuses, which the service never tells apart, to "ended".  The runtime *)
(* (the agent graph and the model behind it) is external: it completes,    *)
(* fails, asks for an approval or raises.                                  *)
(***************************************************************************)
EXTENDS Naturals, FiniteSets

CONSTANTS
    Runs,        \* run identifiers: the turns users try to start
    Cancellers,  \* concurrent calls of cancel, each made once
    Resumers,    \* concurrent calls of resume, each made once
    Approvals,   \* TRUE if the runtime may interrupt a turn to ask for an approval
    MaxGen,      \* bound: operations scheduled for one run
    MaxRestarts  \* bound: process crashes

ASSUME RunLifecycleAssumption ==
    /\ Approvals \in BOOLEAN
    /\ MaxGen \in Nat \ {0}
    /\ MaxRestarts \in Nat

VARIABLES
    status,     \* runtime_runs.status, "none" before the row exists
    lease,      \* runtime_runs.lease_active
    flagged,    \* runtime_runs.cancel_requested
    approval,   \* the generation whose interrupts metadata_json holds, 0 if none
    creator,    \* run -> progress of create
    gen,        \* run -> scheduler generation last submitted
    sched,      \* run -> scheduler.status
    registered, \* run -> generation in scheduler._running, 0 if none
    op,         \* job -> progress of its operation
    verdict,    \* job -> the RuntimeResult.status it is about to write
    hit,        \* job -> its token is set and its task cancelled
    canceller,  \* call of cancel -> its progress and local variables
    resumer,    \* call of resume -> its progress and local variables
    stranded,   \* history: run -> a store failed to write its end, since the last start
    restarts    \* crashes so far

rows  == <<status, lease, flagged, approval>>
jobs  == <<gen, sched, registered, op, verdict, hit>>
calls == <<creator, canceller, resumer>>
life  == <<stranded, restarts>>
vars  == <<rows, jobs, calls, life>>

Job      == Runs \X (1..MaxGen)
Terminal == {"completed", "failed", "cancelled", "interrupted_expired"}
Active   == {"queued", "running", "interrupted"}
Live     == {"queued", "running"}       \* scheduler statuses that are not terminal

\* The row of r no longer holds the conversation.
Idle(r) == ~lease[r] /\ status[r] \notin Active

\* Fault: a cancelled turn keeps its lease.
ReleaseUnlessCancelled(r) ==
    lease' = [lease EXCEPT ![r] = @ /\ status[r] \notin {"completed", "failed", "interrupted_expired"}]

\* release_conversation_turn: the lease ends only with a terminal status.
Release(r) == lease' = [lease EXCEPT ![r] = @ /\ status[r] \notin Terminal]

Call == [pc |-> "idle"]

Init ==
    /\ status = [r \in Runs |-> "none"]
    /\ lease = [r \in Runs |-> FALSE]
    /\ flagged = [r \in Runs |-> FALSE]
    /\ approval = [r \in Runs |-> 0]
    /\ creator = [r \in Runs |-> "idle"]
    /\ gen = [r \in Runs |-> 0]
    /\ sched = [r \in Runs |-> "none"]
    /\ registered = [r \in Runs |-> 0]
    /\ op = [j \in Job |-> "none"]
    /\ verdict = [j \in Job |-> "none"]
    /\ hit = [j \in Job |-> FALSE]
    /\ canceller = [c \in Cancellers |-> Call]
    /\ resumer = [h \in Resumers |-> Call]
    /\ stranded = [r \in Runs |-> FALSE]
    /\ restarts = 0

-----------------------------------------------------------------------------
(* Writes of the row: RunStore.update keeps the lease and replaces the      *)
(* metadata, so a pending approval survives only its own status.            *)
Update(r, s, a) ==
    /\ status' = [status EXCEPT ![r] = s]
    /\ approval' = [approval EXCEPT ![r] = a]
    /\ UNCHANGED <<lease, flagged>>

\* scheduler.submit of the next generation of r.
Enqueue(r) ==
    /\ gen' = [gen EXCEPT ![r] = @ + 1]
    /\ sched' = [sched EXCEPT ![r] = "queued"]
    /\ op' = [op EXCEPT ![<<r, gen[r] + 1>>] = "queued"]
    /\ UNCHANGED <<registered, verdict, hit>>

\* The database or the event log raises just when the end of r is to be written.
Strand(r) == stranded' = [stranded EXCEPT ![r] = TRUE]

-----------------------------------------------------------------------------
(* create *)

\* RunStore.create with bind_turn: the conversation must have no open turn.
Create(r) ==
    /\ creator[r] = "idle"
    /\ status[r] = "none"
    /\ \A q \in Runs : Idle(q)
    /\ status' = [status EXCEPT ![r] = "queued"]
    /\ lease' = [lease EXCEPT ![r] = TRUE]
    /\ creator' = [creator EXCEPT ![r] = "accepted"]
    /\ UNCHANGED <<flagged, approval, jobs, canceller, resumer, life>>

CreateSubmit(r) ==
    /\ creator[r] = "accepted"
    /\ gen[r] < MaxGen
    /\ Enqueue(r)
    /\ creator' = [creator EXCEPT ![r] = "done"]
    /\ UNCHANGED <<rows, canceller, resumer, life>>

\* The queue is full or the caller went away: the accepted row is finished
\* here, in one transaction for the status and one for the lease.
CreateAbort(r) ==
    /\ creator[r] = "accepted"
    /\ \E s \in {"failed", "cancelled"} : Update(r, s, 0)
    /\ creator' = [creator EXCEPT ![r] = "releasing"]
    /\ UNCHANGED <<jobs, canceller, resumer, life>>

CreateRelease(r) ==
    /\ creator[r] = "releasing"
    /\ Release(r)
    /\ creator' = [creator EXCEPT ![r] = "done"]
    /\ UNCHANGED <<status, flagged, approval, jobs, canceller, resumer, life>>

\* An event or an update raises: the error of the store is not in the except
\* list, or leaves the except branch, and the accepted row stays as it is.
CreateFails(r) ==
    /\ creator[r] \in {"accepted", "releasing"}
    /\ Strand(r)
    /\ creator' = [creator EXCEPT ![r] = "done"]
    /\ UNCHANGED <<rows, jobs, canceller, resumer, restarts>>

-----------------------------------------------------------------------------
(* operation, the same in create and in resume *)

\* A worker drops the job, its token is already set.
OpDrop(j) ==
    /\ op[j] = "queued"
    /\ hit[j]
    /\ op' = [op EXCEPT ![j] = "dropped"]
    /\ sched' = [sched EXCEPT ![j[1]] = "ended"]
    /\ UNCHANGED <<gen, registered, verdict, hit, rows, calls, life>>

\* A worker takes the job and its task enters the operation.
OpEnter(j) ==
    /\ op[j] = "queued"
    /\ ~hit[j]
    /\ op' = [op EXCEPT ![j] = "entered"]
    /\ sched' = [sched EXCEPT ![j[1]] = "running"]
    /\ registered' = [registered EXCEPT ![j[1]] = j[2]]
    /\ UNCHANGED <<gen, verdict, hit, rows, calls, life>>

\* Fault: the flag a pending dispatch relies on is not read.
OpCheckIgnoringFlag(j) ==
    /\ op[j] = "entered"
    /\ op' = [op EXCEPT ![j] = IF hit[j] THEN "cancelling" ELSE "admitted"]
    /\ UNCHANGED <<gen, sched, registered, verdict, hit, rows, calls, life>>

\* Token, deadline and the cancel_requested read before the first write.
OpCheck(j) ==
    /\ op[j] = "entered"
    /\ op' = [op EXCEPT ![j] = IF hit[j] \/ flagged[j[1]] THEN "cancelling" ELSE "admitted"]
    /\ UNCHANGED <<gen, sched, registered, verdict, hit, rows, calls, life>>

\* update(run_id, "running"), drained before a cancellation is seen.
OpRunning(j) ==
    /\ op[j] = "admitted"
    /\ Update(j[1], "running", 0)
    /\ op' = [op EXCEPT ![j] = IF hit[j] THEN "cancelling" ELSE "running"]
    /\ UNCHANGED <<gen, sched, registered, verdict, hit, calls, life>>

\* The runtime returns a result.
OpResult(j) ==
    /\ op[j] = "running"
    /\ ~hit[j]
    /\ \E v \in {"completed", "failed", "interrupted"} :
          /\ v = "interrupted" => Approvals
          /\ verdict' = [verdict EXCEPT ![j] = v]
    /\ op' = [op EXCEPT ![j] = "writing"]
    /\ UNCHANGED <<gen, sched, registered, hit, rows, calls, life>>

\* The cancellation is delivered at some await after the check.
OpInterruptedByCancel(j) ==
    /\ op[j] \in {"running", "writing", "written"}
    /\ hit[j]
    /\ op' = [op EXCEPT ![j] = "cancelling"]
    /\ UNCHANGED <<gen, sched, registered, verdict, hit, rows, calls, life>>

\* Any exception, and the deadline, which may expire while the outcome is being
\* written: its cancellation waits for the commit and then becomes a TimeoutError.
OpRaise(j) ==
    /\ op[j] \in {"entered", "admitted", "running", "writing", "written"}
    /\ op[j] \in {"entered", "written"} => ~hit[j]
    /\ op' = [op EXCEPT ![j] = "failing"]
    /\ UNCHANGED <<gen, sched, registered, verdict, hit, rows, calls, life>>

\* update(run_id, result.status) commits.
OpWrite(j) ==
    /\ op[j] = "writing"
    /\ Update(j[1], verdict[j], IF verdict[j] = "interrupted" THEN j[2] ELSE 0)
    /\ op' = [op EXCEPT ![j] = "written"]
    /\ UNCHANGED <<gen, sched, registered, verdict, hit, calls, life>>

\* The task sees the commit; from here _release_turn swallows a cancellation.
OpWritten(j) ==
    /\ op[j] = "written"
    /\ ~hit[j]
    /\ op' = [op EXCEPT ![j] = "releasing"]
    /\ UNCHANGED <<gen, sched, registered, verdict, hit, rows, calls, life>>

\* _record_cancelled: the status in one transaction, the lease in the next; if
\* that one raises, the operation ends with its error.
OpCancelled(j) ==
    /\ op[j] = "cancelling"
    /\ Update(j[1], "cancelled", 0)
    /\ op' = [op EXCEPT ![j] = "releasing"]
    /\ \E v \in {"cancelled", "failed"} : verdict' = [verdict EXCEPT ![j] = v]
    /\ UNCHANGED <<gen, sched, registered, hit, calls, life>>

\* _record_failed.
OpFailed(j) ==
    /\ op[j] = "failing"
    /\ Update(j[1], "failed", 0)
    /\ op' = [op EXCEPT ![j] = "releasing"]
    /\ verdict' = [verdict EXCEPT ![j] = "failed"]
    /\ UNCHANGED <<gen, sched, registered, hit, calls, life>>

\* The event of _record_cancelled or _record_failed, or the update, raises: the
\* outcome is not written, and the finally block releases what is terminal.
OpUnwritten(j) ==
    /\ op[j] \in {"cancelling", "failing"}
    /\ Strand(j[1])
    /\ op' = [op EXCEPT ![j] = "releasing"]
    /\ verdict' = [verdict EXCEPT ![j] = "failed"]
    /\ UNCHANGED <<gen, sched, registered, hit, rows, calls, restarts>>

\* _release_turn.
OpRelease(j) ==
    /\ op[j] = "releasing"
    /\ Release(j[1])
    /\ op' = [op EXCEPT ![j] = "leaving"]
    /\ UNCHANGED <<status, flagged, approval, gen, sched, registered, verdict, hit, calls, life>>

\* release_conversation_turn raises.
OpUnreleased(j) ==
    /\ op[j] = "releasing"
    /\ Strand(j[1])
    /\ op' = [op EXCEPT ![j] = "leaving"]
    /\ verdict' = [verdict EXCEPT ![j] = "failed"]
    /\ UNCHANGED <<gen, sched, registered, hit, rows, calls, restarts>>

\* The maintenance of _release_turn is over and the worker collects the task.
OpLeave(j) ==
    /\ op[j] = "leaving"
    /\ op' = [op EXCEPT ![j] = "done"]
    /\ sched' = [sched EXCEPT ![j[1]] = "ended"]
    /\ registered' = [registered EXCEPT ![j[1]] = 0]
    /\ UNCHANGED <<gen, verdict, hit, rows, calls, life>>

-----------------------------------------------------------------------------
(* _cancel_owned *)

\* The row as cancel first reads it; a terminal one returns False.
CancelRead(c, r) ==
    /\ canceller[c].pc = "idle"
    /\ status[r] \in Active
    /\ canceller' = [canceller EXCEPT ![c] = [pc |-> "flag", run |-> r, record |-> status[r]]]
    /\ UNCHANGED <<rows, jobs, creator, resumer, life>>

CancelFlag(c) ==
    /\ canceller[c].pc = "flag"
    /\ flagged' = [flagged EXCEPT ![canceller[c].run] = TRUE]
    /\ canceller' = [canceller EXCEPT ![c].pc = "signal"]
    /\ UNCHANGED <<status, lease, approval, jobs, creator, resumer, life>>

\* What scheduler.cancel does to r: a registered task is cancelled, a job still
\* queued stays so and is dropped later, the status is terminal at once.
SchedulerCancel(r) ==
    LET latest == <<r, gen[r]>>
    IN  IF sched[r] \notin Live
        THEN UNCHANGED <<sched, hit>>
        ELSE /\ sched' = [sched EXCEPT ![r] = "ended"]
             /\ hit' = [j \in Job |-> \/ hit[j] \/ j = latest
                                      \/ j = <<r, registered[r]>> /\ op[latest] # "queued"]

\* The row says queued and no job holds it: the dispatch itself will see the flag.
PendingDispatch(record, previous) == record = "queued" /\ previous \notin Live

\* Fault: cancel writes the outcome of a running operation as well.
SettlesLive(record, previous) == previous \in Live \/ record = "interrupted"

\* Fault: a dropped queued job is left for an operation that never runs.
SettlesInterrupted(record, previous) == record = "interrupted"

\* A job that never ran and an interrupted turn have no operation to write the
\* outcome: cancel itself does.
SettlesHere(record, previous) == previous = "queued" \/ record = "interrupted"

\* scheduler.cancel, and what the stale record makes of its answer.
CancelSignal(c) ==
    /\ canceller[c].pc = "signal"
    /\ LET r == canceller[c].run
           record == canceller[c].record
           told == sched[r] \in Live \/ PendingDispatch(record, sched[r]) \/ record = "interrupted"
       IN  /\ SchedulerCancel(r)
           /\ canceller' = [canceller EXCEPT ![c] =
                [pc |-> IF SettlesHere(record, sched[r]) THEN "settle" ELSE "done",
                 run |-> r, told |-> told]]
    /\ UNCHANGED <<rows, gen, registered, op, verdict, creator, resumer, life>>

\* After process_supervisor.cancel_run: update(run_id, "cancelled").
CancelSettle(c) ==
    /\ canceller[c].pc = "settle"
    /\ Update(canceller[c].run, "cancelled", 0)
    /\ canceller' = [canceller EXCEPT ![c].pc = "release"]
    /\ UNCHANGED <<jobs, creator, resumer, life>>

CancelRelease(c) ==
    /\ canceller[c].pc = "release"
    /\ Release(canceller[c].run)
    /\ canceller' = [canceller EXCEPT ![c].pc = "done"]
    /\ UNCHANGED <<status, flagged, approval, jobs, creator, resumer, life>>

\* A write or an event of cancel raises, and cancel with it: nobody is told.
CancelFails(c) ==
    /\ canceller[c].pc \in {"flag", "settle", "release"}
    /\ IF canceller[c].pc = "flag" THEN UNCHANGED stranded ELSE Strand(canceller[c].run)
    /\ canceller' = [canceller EXCEPT ![c] = [pc |-> "lost"]]
    /\ UNCHANGED <<rows, jobs, creator, resumer, restarts>>

-----------------------------------------------------------------------------
(* resume *)

\* The row must be interrupted; the decision names one of its approvals.
ResumeRead(h, r) ==
    /\ resumer[h].pc = "idle"
    /\ status[r] = "interrupted"
    /\ gen[r] < MaxGen
    /\ resumer' = [resumer EXCEPT ![h] = [pc |-> "claim", run |-> r, id |-> approval[r]]]
    /\ UNCHANGED <<rows, jobs, creator, canceller, life>>

\* Fault: any decision that names a known approval is accepted.
ClaimableById(r, id) == ~flagged[r] /\ approval[r] = id

\* claim_interrupt: one transaction decides between refusal, expiry and claim.
Claimable(r, id) == status[r] = "interrupted" /\ ~flagged[r] /\ approval[r] = id

ResumeRefused(h) ==
    /\ resumer[h].pc = "claim"
    /\ ~Claimable(resumer[h].run, resumer[h].id)
    /\ resumer' = [resumer EXCEPT ![h].pc = "refused"]
    /\ UNCHANGED <<rows, jobs, creator, canceller, life>>

\* The approval outlived its TTL, 15 minutes: the operation that asked is long gone.
ResumeExpired(h) ==
    /\ resumer[h].pc = "claim"
    /\ Claimable(resumer[h].run, resumer[h].id)
    /\ op[<<resumer[h].run, resumer[h].id>>] \in {"done", "lost"}
    /\ status' = [status EXCEPT ![resumer[h].run] = "interrupted_expired"]
    /\ lease' = [lease EXCEPT ![resumer[h].run] = FALSE]
    /\ resumer' = [resumer EXCEPT ![h].pc = "refused"]
    /\ UNCHANGED <<flagged, approval, jobs, creator, canceller, life>>

ResumeClaim(h) ==
    /\ resumer[h].pc = "claim"
    /\ Claimable(resumer[h].run, resumer[h].id)
    /\ status' = [status EXCEPT ![resumer[h].run] = "queued"]
    /\ resumer' = [resumer EXCEPT ![h].pc = "claimed"]
    /\ UNCHANGED <<lease, flagged, approval, jobs, creator, canceller, life>>

\* _resume_claimed: wait for the previous generation if it is still scheduled.
ResumeWait(h) ==
    /\ resumer[h].pc = "claimed"
    /\ sched[resumer[h].run] \in Live
    /\ resumer' = [resumer EXCEPT ![h].pc = "wait"]
    /\ UNCHANGED <<rows, jobs, creator, canceller, life>>

\* The previous generation ended, and how.
Awaited(h, verdicts) ==
    LET j == <<resumer[h].run, gen[resumer[h].run]>>
    IN  /\ resumer[h].pc = "wait"
        /\ op[j] = "done"
        /\ verdict[j] \in verdicts

\* The awaited generation was cancelled: its CancelledError reaches resume.
ResumeAwaitedCancelled(h) ==
    /\ Awaited(h, {"cancelled"})
    /\ resumer' = [resumer EXCEPT ![h].pc = "cancelling"]
    /\ UNCHANGED <<rows, jobs, creator, canceller, life>>

\* Nothing, or nothing any more, stands between the claim and submit.
Dispatchable(h) ==
    \/ resumer[h].pc = "claimed" /\ sched[resumer[h].run] \notin Live
    \/ Awaited(h, {"interrupted"})

ResumeSubmit(h) ==
    /\ Dispatchable(h)
    /\ sched[resumer[h].run] \notin Live
    /\ Enqueue(resumer[h].run)
    /\ resumer' = [resumer EXCEPT ![h].pc = "scheduled"]
    /\ UNCHANGED <<rows, creator, canceller, life>>

\* A full queue refuses the job, or the awaited generation ended by an exception.
ResumeRejected(h) ==
    /\ Dispatchable(h) \/ Awaited(h, {"failed"})
    /\ resumer' = [resumer EXCEPT ![h].pc = "failing"]
    /\ UNCHANGED <<rows, jobs, creator, canceller, life>>

\* The caller of resume is cancelled after its claim and before its submit.
ResumeAbandon(h) ==
    /\ resumer[h].pc \in {"claimed", "wait"}
    /\ resumer' = [resumer EXCEPT ![h].pc = "cancelling"]
    /\ UNCHANGED <<rows, jobs, creator, canceller, life>>

\* A consumed decision is never put back: the row is finished instead.
ResumeFinish(h) ==
    /\ resumer[h].pc \in {"cancelling", "failing"}
    /\ Update(resumer[h].run, IF resumer[h].pc = "failing" THEN "failed" ELSE "cancelled", 0)
    /\ resumer' = [resumer EXCEPT ![h].pc = "releasing"]
    /\ UNCHANGED <<jobs, creator, canceller, life>>

ResumeRelease(h) ==
    /\ resumer[h].pc = "releasing"
    /\ Release(resumer[h].run)
    /\ resumer' = [resumer EXCEPT ![h].pc = "finished"]
    /\ UNCHANGED <<status, flagged, approval, jobs, creator, canceller, life>>

\* An event or a write of that end raises.
ResumeFails(h) ==
    /\ resumer[h].pc \in {"cancelling", "failing", "releasing"}
    /\ Strand(resumer[h].run)
    /\ resumer' = [resumer EXCEPT ![h].pc = "finished"]
    /\ UNCHANGED <<rows, jobs, creator, canceller, restarts>>

-----------------------------------------------------------------------------
\* The process dies between any two transactions and a new one starts:
\* recover_incomplete fails what was queued or running, keeps interrupted
\* turns with their lease, and releases every terminal one.
Recovered(r) == IF status[r] \in {"queued", "running"} THEN "failed" ELSE status[r]

Lost(call) == IF call.pc \in {"idle", "done", "refused", "scheduled", "finished"}
              THEN call ELSE [pc |-> "lost"]

Restart ==
    /\ restarts < MaxRestarts
    /\ restarts' = restarts + 1
    /\ stranded' = [r \in Runs |-> FALSE]
    /\ status' = [r \in Runs |-> Recovered(r)]
    /\ lease' = [r \in Runs |-> lease[r] /\ Recovered(r) \notin Terminal]
    /\ creator' = [r \in Runs |-> IF creator[r] = "idle" THEN "idle" ELSE "done"]
    /\ sched' = [r \in Runs |-> "none"]
    /\ registered' = [r \in Runs |-> 0]
    /\ op' = [j \in Job |-> IF op[j] \in {"none", "done", "dropped"} THEN op[j] ELSE "lost"]
    /\ canceller' = [c \in Cancellers |-> Lost(canceller[c])]
    /\ resumer' = [h \in Resumers |-> Lost(resumer[h])]
    /\ UNCHANGED <<flagged, approval, gen, verdict, hit>>

CreateEnds(r) == CreateSubmit(r) \/ CreateAbort(r) \/ CreateRelease(r) \/ CreateFails(r)
CreateStep(r) == Create(r) \/ CreateEnds(r)

OpStep(j) ==
    \/ OpDrop(j) \/ OpEnter(j) \/ OpCheck(j) \/ OpRunning(j) \/ OpResult(j) \/ OpInterruptedByCancel(j)
    \/ OpRaise(j) \/ OpWrite(j) \/ OpWritten(j) \/ OpCancelled(j) \/ OpFailed(j)
    \/ OpUnwritten(j) \/ OpRelease(j) \/ OpUnreleased(j) \/ OpLeave(j)

CancelStep(c) ==
    CancelFlag(c) \/ CancelSignal(c) \/ CancelSettle(c) \/ CancelRelease(c) \/ CancelFails(c)

ResumeStep(h) ==
    \/ ResumeRefused(h) \/ ResumeExpired(h) \/ ResumeClaim(h) \/ ResumeWait(h)
    \/ ResumeAwaitedCancelled(h) \/ ResumeSubmit(h) \/ ResumeRejected(h) \/ ResumeAbandon(h)
    \/ ResumeFinish(h) \/ ResumeRelease(h) \/ ResumeFails(h)

Next ==
    \/ \E r \in Runs : CreateStep(r)
    \/ \E j \in Job : OpStep(j)
    \/ \E c \in Cancellers : CancelStep(c) \/ \E r \in Runs : CancelRead(c, r)
    \/ \E h \in Resumers : ResumeStep(h) \/ \E r \in Runs : ResumeRead(h, r)
    \/ Restart

Spec == Init /\ [][Next]_vars

(***************************************************************************)
(* What was started goes on: create, cancel and resume are drained through *)
(* await_durable, workers take queued jobs and the runtime ends, by its    *)
(* own or at its deadline.  Nobody is obliged to call anything.            *)
(***************************************************************************)
Fairness ==
    /\ \A r \in Runs : WF_vars(CreateEnds(r))
    /\ \A j \in Job : WF_vars(OpStep(j))
    /\ \A c \in Cancellers : WF_vars(CancelStep(c))
    /\ \A h \in Resumers : WF_vars(ResumeStep(h))

FairSpec == Spec /\ Fairness

-----------------------------------------------------------------------------
OpStates == {"none", "queued", "dropped", "entered", "admitted", "running", "writing", "written",
             "cancelling", "failing", "releasing", "leaving", "done", "lost"}

TypeOK ==
    /\ status \in [Runs -> {"none"} \cup Active \cup Terminal]
    /\ lease \in [Runs -> BOOLEAN]
    /\ flagged \in [Runs -> BOOLEAN]
    /\ approval \in [Runs -> 0..MaxGen]
    /\ creator \in [Runs -> {"idle", "accepted", "releasing", "done"}]
    /\ gen \in [Runs -> 0..MaxGen]
    /\ sched \in [Runs -> Live \cup {"none", "ended"}]
    /\ registered \in [Runs -> 0..MaxGen]
    /\ op \in [Job -> OpStates]
    /\ verdict \in [Job -> {"none", "interrupted"} \cup Terminal]
    /\ hit \in [Job -> BOOLEAN]
    /\ \A c \in Cancellers : canceller[c].pc \in
          {"idle", "flag", "signal", "settle", "release", "done", "lost"}
    /\ \A h \in Resumers : resumer[h].pc \in
          {"idle", "claim", "refused", "claimed", "wait", "scheduled", "cancelling", "failing",
           "releasing", "finished", "lost"}
    /\ stranded \in [Runs -> BOOLEAN]
    /\ restarts \in 0..MaxRestarts

\* The docstring of release_conversation_turn: a turn gives the conversation
\* up only after its operation has drained all durable writes, so the next
\* turn never starts beside one that still runs or is still to run.
ReleaseAfterDrain ==
    \A j \in Job : Idle(j[1]) =>
        \/ op[j] \in {"none", "dropped", "releasing", "leaving", "done", "lost"}
        \/ op[j] = "queued" /\ hit[j]

\* The part of it a next turn would notice most: the conversation is not free
\* while the runtime of its last turn still executes.
RuntimeHoldsTurn == \A j \in Job : op[j] \in {"running", "writing"} => ~Idle(j[1])

\* Two turns of one conversation never use the agent runtime, and with it the
\* checkpoint thread, at the same time.
OneRuntimePerConversation ==
    Cardinality({j \in Job : op[j] \in {"running", "writing"}}) =< 1

\* The turns of a conversation keep apart, from the lease to the runtime.
TurnsApart == TypeOK /\ ReleaseAfterDrain /\ OneRuntimePerConversation

\* The decision of the call x was accepted.
Won(x) == resumer[x].pc \in {"claimed", "wait", "scheduled", "cancelling", "failing",
                             "releasing", "finished"}

\* Concurrent approvals of one interrupt have one winner (claim_interrupt:
\* "Consume one pending interrupt"); the losers never dispatch anything.
ApprovalConsumedOnce ==
    \A g, h \in Resumers :
        Won(g) /\ Won(h) /\ g # h
          => <<resumer[g].run, resumer[g].id>> # <<resumer[h].run, resumer[h].id>>

\* The comment in _release_turn: once a turn has released the conversation its
\* committed outcome is never rewritten, by a late cancellation or a restart.
OutcomeFinal ==
    [][\A r \in Runs : status[r] \in Terminal /\ ~lease[r] => status'[r] = status[r]]_vars

Acknowledged(r) ==
    \E c \in Cancellers : canceller[c].pc = "done" /\ canceller[c].run = r /\ canceller[c].told

\* After cancel has answered True no runtime of that run is ever entered again,
\* whichever of queue, dispatch, approval or execution it caught the run in.
AcknowledgedCancelStopsRuntime ==
    [][\A j \in Job : Acknowledged(j[1]) /\ op'[j] = "running" => op[j] = "running"]_vars

\* No turn stays finished and keeps the conversation for ever, unless a store
\* failed to write its end; then the next start gives the lease back.
LeaseEnds == \A r \in Runs : []<>(status[r] \in Terminal => ~lease[r] \/ stranded[r])

\* An accepted run, or a claimed approval, is not left queued or running before
\* the next start, unless a store failed to write its end.
RunSettles ==
    \A r \in Runs : (status[r] \in {"queued", "running"})
                        ~> (status[r] \in Terminal \cup {"interrupted"} \/ stranded[r])

\* A turn ends: its run settles and the conversation gets its lease back.
TurnEnds == LeaseEnds /\ RunSettles

\* tests/test_service_cancellation.py: a cancellation that answered True must
\* reach one durable terminal state, unless a store fails to write it.
CancelTakesEffect == \A r \in Runs : Acknowledged(r) ~> (status[r] \in Terminal \/ stranded[r])

\* An outcome comes where it was promised, and once released it stays.
OutcomesHold == OutcomeFinal /\ CancelTakesEffect

-----------------------------------------------------------------------------
\* Why an approval has one winner: the operation that asked is past its write
\* and never asks again, so that a claimed approval cannot come back.
Past == {"written", "cancelling", "failing", "releasing", "leaving", "done", "lost"}

Shapes ==
    /\ status \in [Runs -> {"none"} \cup Active \cup Terminal]
    /\ approval \in [Runs -> Nat]
    /\ gen \in [Runs -> Nat]
    /\ op \in [Job -> OpStates]
    /\ verdict \in [Job -> {"none", "interrupted"} \cup Terminal]
    /\ resumer \in [Resumers ->
          [pc : {"idle", "lost"}] \cup
          [pc : {"claim", "refused", "claimed", "wait", "scheduled", "cancelling", "failing",
                 "releasing", "finished"}, run : Runs, id : Nat]]

Submitted == \A j \in Job : op[j] # "none" => j[2] =< gen[j[1]]

AskedByPast ==
    \A r \in Runs : status[r] = "interrupted" =>
        <<r, approval[r]>> \in Job /\ op[<<r, approval[r]>>] \in Past

ConsumedStays ==
    \A h \in Resumers : Won(h) =>
        LET r == resumer[h].run
            j == <<r, resumer[h].id>>
        IN  /\ j \in Job /\ op[j] \in Past
            /\ status[r] = "interrupted" => approval[r] # resumer[h].id

ApprovalInv == Shapes /\ Submitted /\ AskedByPast /\ ConsumedStays /\ ApprovalConsumedOnce
-----------------------------------------------------------------------------
\* What a call of cancel remembers at each step.
CancelShapes ==
    canceller \in [Cancellers ->
        [pc : {"idle", "lost"}] \cup
        [pc : {"flag", "signal"}, run : Runs, record : Active] \cup
        [pc : {"settle", "release", "done"}, run : Runs, told : BOOLEAN]]

\* Why turns keep apart when nothing asks for an approval: a run has one
\* generation, its operation keeps the lease until it has drained, cancel
\* settles only a job that will be dropped, and one run has the lease.
Drained(j) ==
    \/ op[j] \in {"none", "dropped", "releasing", "leaving", "done", "lost"}
    \/ op[j] = "queued" /\ hit[j]

NoQuestion ==
    /\ \A r \in Runs : status[r] # "interrupted"
    /\ \A j \in Job : verdict[j] # "interrupted"
    /\ \A h \in Resumers : resumer[h].pc = "idle"
    /\ \A c \in Cancellers : canceller[c].pc \in {"flag", "signal"} => canceller[c].record # "interrupted"

OneGeneration ==
    /\ \A r \in Runs : gen[r] \in {0, 1}
    /\ \A r \in Runs : creator[r] # "done" => gen[r] = 0
    /\ \A j \in Job : op[j] # "none" => j[2] = 1 /\ gen[j[1]] = 1
    /\ \A j \in Job : hit[j] => gen[j[1]] = 1
    /\ \A r \in Runs : sched[r] \in Live => gen[r] = 1
    /\ \A r \in Runs : sched[r] = "queued" => gen[r] = 1 /\ op[<<r, 1>>] = "queued" /\ ~hit[<<r, 1>>]

Settling(c, r) == canceller[c].pc \in {"settle", "release"} /\ canceller[c].run = r

SettlesDropped ==
    \A c \in Cancellers, r \in Runs : Settling(c, r) =>
        /\ gen[r] = 1 /\ sched[r] # "queued"
        /\ op[<<r, 1>>] = "dropped" \/ (op[<<r, 1>>] = "queued" /\ hit[<<r, 1>>])
        /\ canceller[c].pc = "settle" => lease[r] /\ \A d \in Cancellers : Settling(d, r) => d = c

LeaseKept ==
    /\ \A j \in Job : Drained(j) \/ lease[j[1]]
    /\ \A r \in Runs : creator[r] = "accepted" => lease[r]
    /\ \A q, r \in Runs : lease[q] /\ lease[r] => q = r

TurnInv == TypeOK /\ CancelShapes /\ NoQuestion /\ OneGeneration /\ SettlesDropped /\ LeaseKept

\* Why an acknowledged cancellation stops the runtime, approvals or not: the
\* flag comes first and admits nothing new, and what was admitted before is
\* the latest job, which the signal hits.
Busy == {"queued", "entered", "admitted", "running", "writing", "written", "cancelling", "failing",
         "releasing", "leaving"}

FlagFirst ==
    /\ \A j \in Job : hit[j] => flagged[j[1]]
    /\ \A c \in Cancellers :
          canceller[c].pc \in {"signal", "settle", "release", "done"} => flagged[canceller[c].run]

OneBusy ==
    \A j \in Job : (op[j] \in Busy /\ ~flagged[j[1]]) \/ (op[j] = "admitted" /\ ~hit[j]) =>
        /\ sched[j[1]] \in Live
        /\ gen[j[1]] = j[2]
        /\ \A i \in Job : i[1] = j[1] /\ i # j => op[i] \notin Busy

NothingBefore ==
    \A r \in Runs : creator[r] # "done" =>
        sched[r] \notin Live /\ \A j \in Job : j[1] = r => op[j] = "none"

SignalStops ==
    \A c \in Cancellers : canceller[c].pc \in {"settle", "release", "done"} =>
        \A j \in Job : j[1] = canceller[c].run /\ op[j] = "admitted" => hit[j]

StopShapes ==
    /\ CancelShapes
    /\ flagged \in [Runs -> BOOLEAN]
    /\ creator \in [Runs -> {"idle", "accepted", "releasing", "done"}]
    /\ sched \in [Runs -> Live \cup {"none", "ended"}]
    /\ hit \in [Job -> BOOLEAN]

StopInv == StopShapes /\ FlagFirst /\ OneBusy /\ NothingBefore /\ SignalStops
=============================================================================
