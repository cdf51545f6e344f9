------------------------------ MODULE Subagents ------------------------------
(***************************************************************************)
(* AsyncSubagentManager for one stable child identifier: its durable row,  *)
(* the mutation lock that serializes claims and cancellations, and the     *)
(* operation of each generation, which writes the same row.  Children      *)
(* share nothing but the manager's scheduler; of that scheduler only what  *)
(* concerns this identifier is kept (see module Scheduler), a full queue   *)
(* is a refusal that may happen at any submission.                         *)
(*                                                                         *)
(* The updates of the row name the child and not the generation, so that   *)
(* an operation that outlives its generation writes into the next one.  A  *)
(* follow-up may name the generation it was reviewed with, or none, as the *)
(* HTTP route does; then only the status guards its claim.                 *)
(***************************************************************************)
EXTENDS Naturals, FiniteSets

CONSTANTS
    Callers,        \* requests that spawn or follow up the child
    SinkFails,      \* TRUE: the parent-timeline event sink may raise
    MaxGen,         \* bound: turns of the child
    MaxRestarts     \* bound: process restarts

ASSUME SubagentsAssumption ==
    /\ SinkFails \in BOOLEAN
    /\ MaxGen \in Nat \ {0}
    /\ MaxRestarts \in Nat
    /\ "none" \notin Callers

Gen  == 1..MaxGen
NONE == "none"

VARIABLES
    row,        \* async_subagents: status and generation, generation 0 before create
    sched,      \* scheduler._statuses of the child
    job,        \* scheduler._jobs: the generation last submitted, 0 if none
    reg,        \* scheduler._running: the generation registered, 0 if none
    settled,    \* generation -> its future is done
    token,      \* generation -> its token is set
    hit,        \* generation -> its task was cancelled
    op,         \* generation -> progress of its operation
    lock,       \* holder of the child's mutation lock
    pc,         \* caller -> progress
    pin,        \* caller -> the generation it named, 0 if it named none
    borrowed,   \* caller -> the generation whose completion it awaits, 0 if none
    claimed,    \* caller -> the generation it claimed
    open,       \* the manager accepts requests
    restarts

schedVars == <<sched, job, reg, settled, token, hit>>
callVars  == <<lock, pc, pin, borrowed, claimed>>
lifeVars  == <<open, restarts>>
vars      == <<row, schedVars, op, callVars, lifeVars>>

Settling  == {"queued", "running"}
Terminal  == {"completed", "failed", "cancelled"}
Ended     == {"returned", "raised", "cancelled"}
Executing == {"taken", "starting", "started", "asking", "answered", "completing",
              "cancelling", "failing"} \cup Ended

Unstarted == {"queued", "taken", "dropped"}

Written(s) == [row EXCEPT !.status = s]

Init ==
    /\ row = [status |-> NONE, gen |-> 0]
    /\ sched = NONE
    /\ job = 0
    /\ reg = 0
    /\ settled = [g \in Gen |-> FALSE]
    /\ token = [g \in Gen |-> FALSE]
    /\ hit = [g \in Gen |-> FALSE]
    /\ op = [g \in Gen |-> NONE]
    /\ lock = NONE
    /\ pc = [c \in Callers |-> "idle"]
    /\ pin = [c \in Callers |-> 0]
    /\ borrowed = [c \in Callers |-> 0]
    /\ claimed = [c \in Callers |-> 0]
    /\ open = TRUE
    /\ restarts = 0

-----------------------------------------------------------------------------
(* The operation of a generation and the worker that runs it.              *)

Goto(g, next) == op' = [op EXCEPT ![g] = next]

\* The worker reaches a job that was cancelled in the queue.
Drop(g) ==
    /\ op[g] = "queued"
    /\ token[g]
    /\ Goto(g, "dropped")
    /\ settled' = [settled EXCEPT ![g] = TRUE]
    /\ sched' = "cancelled"
    /\ UNCHANGED <<row, job, reg, token, hit, callVars, lifeVars>>

\* The worker registers the task of a live job.
Take(g) ==
    /\ op[g] = "queued"
    /\ ~token[g]
    /\ Goto(g, "taken")
    /\ reg' = g
    /\ sched' = "running"
    /\ UNCHANGED <<row, job, settled, token, hit, callVars, lifeVars>>

\* token.raise_if_cancelled: a cancellation between registration and the
\* task's first step was only recorded in the token.
Enter(g) ==
    /\ op[g] = "taken"
    /\ Goto(g, IF token[g] THEN "cancelling" ELSE "starting")
    /\ UNCHANGED <<row, schedVars, callVars, lifeVars>>

\* A durable write in a thread: await_durable lets it land and only then
\* raises the cancellation.
OpWrite(g, at, s, next) ==
    /\ op[g] = at
    /\ row' = Written(s)
    /\ Goto(g, IF hit[g] THEN "cancelling" ELSE next)
    /\ UNCHANGED <<schedVars, callVars, lifeVars>>

\* sink.emit under await_durable: it may raise, else a cancellation shows.
OpEmit(g, at, next) ==
    /\ op[g] = at
    /\ \/ Goto(g, IF hit[g] THEN "cancelling" ELSE next)
       \/ SinkFails /\ Goto(g, IF hit[g] THEN "cancelling" ELSE "failing")
    /\ UNCHANGED <<row, schedVars, callVars, lifeVars>>

\* The runner answers, raises, or is thrown the cancellation.
Runner(g) ==
    /\ op[g] = "asking"
    /\ \E next \in (IF hit[g] THEN {"cancelling"} ELSE {"answered", "failing"}) : Goto(g, next)
    /\ UNCHANGED <<row, schedVars, callVars, lifeVars>>

Operation(g) ==
    \/ Enter(g)
    \/ OpWrite(g, "starting", "running", "started")
    \/ OpEmit(g, "started", "asking")
    \/ Runner(g)
    \/ OpWrite(g, "answered", "completed", "completing")
    \/ OpEmit(g, "completing", "returned")

\* _finish in an except branch: the row, then the event; a second
\* cancellation waits for both, a sink that raises replaces the outcome.
FinishAs(g, at, s, outcome) ==
    /\ op[g] = at
    /\ row' = Written(s)
    /\ Goto(g, outcome)
    /\ UNCHANGED <<schedVars, callVars, lifeVars>>

\* Fault: the except branches leave the row to whoever comes next.
FinishUnwritten(g) ==
    /\ op[g] \in {"cancelling", "failing"}
    /\ Goto(g, IF op[g] = "failing" THEN "raised" ELSE "cancelled")
    /\ UNCHANGED <<row, schedVars, callVars, lifeVars>>

Finish(g) ==
    \/ FinishAs(g, "cancelling", "cancelled", "cancelled")
    \/ SinkFails /\ FinishAs(g, "cancelling", "cancelled", "raised")
    \/ FinishAs(g, "failing", "failed", "raised")

\* The worker resumes from the task and releases the identifier, whatever
\* generation is registered by now.
Collect(g) ==
    /\ op[g] \in Ended
    /\ Goto(g, "drained")
    /\ sched' = CASE op[g] = "returned" -> "completed"
                  [] op[g] = "raised" -> "failed"
                  [] OTHER -> "cancelled"
    /\ settled' = [settled EXCEPT ![g] = TRUE]
    /\ reg' = 0
    /\ UNCHANGED <<row, job, token, hit, callVars, lifeVars>>

-----------------------------------------------------------------------------
(* Requests.                                                               *)

CallGoto(c, next) == pc' = [pc EXCEPT ![c] = next]
Leave(c) == CallGoto(c, "done") /\ lock' = NONE

\* spawn: a fresh identifier, created under its own lock; a cancellation of
\* the caller waits for the insert and then finishes the row.
Spawn(c) ==
    /\ pc[c] = "idle"
    /\ open
    /\ row.gen = 0
    /\ \/ /\ row' = [status |-> "queued", gen |-> 1]
          /\ CallGoto(c, "claimed")
          /\ lock' = c
       \/ /\ row' = [status |-> "cancelled", gen |-> 1]
          /\ CallGoto(c, "done")
          /\ UNCHANGED lock
    /\ claimed' = [claimed EXCEPT ![c] = 1]
    /\ UNCHANGED <<schedVars, op, pin, borrowed, lifeVars>>

\* Fault: the completion of the previous generation is not borrowed.
BorrowNothing == 0

\* scheduler.completion: the job last submitted, whatever became of it.
Borrow == job

\* follow_up, first section under the lock: read, compare with the generation
\* named, if one is, and borrow.
FollowRead(c) ==
    /\ pc[c] = "idle"
    /\ open
    /\ lock = NONE
    /\ row.gen # 0
    /\ \E p \in Gen \cup {0} :
          /\ pin' = [pin EXCEPT ![c] = p]
          /\ IF p # 0 /\ (row.gen # p \/ row.status # "completed")
             THEN CallGoto(c, "done") /\ UNCHANGED borrowed
             ELSE CallGoto(c, "waiting") /\ borrowed' = [borrowed EXCEPT ![c] = Borrow]
    /\ UNCHANGED <<row, schedVars, op, lock, claimed, lifeVars>>

\* The borrowed completion settles, with any outcome; or the caller is
\* cancelled while it waits.
FollowWait(c) ==
    /\ pc[c] = "waiting"
    /\ borrowed[c] # 0 => settled[borrowed[c]]
    /\ CallGoto(c, "ready")
    /\ UNCHANGED <<row, schedVars, op, lock, pin, borrowed, claimed, lifeVars>>

FollowCancelled(c) ==
    /\ pc[c] \in {"waiting", "ready"}
    /\ CallGoto(c, "done")
    /\ UNCHANGED <<row, schedVars, op, lock, pin, borrowed, claimed, lifeVars>>

\* The compare-and-set of AsyncSubagentStore.follow_up.
Claimable(c) ==
    /\ pin[c] # 0 => row.gen = pin[c]
    /\ row.status = "completed"

\* follow_up, second section: the claim; a caller cancelled meanwhile drains
\* it and finishes the claimed turn.
FollowClaim(c) ==
    /\ pc[c] = "ready"
    /\ lock = NONE
    /\ Claimable(c) => row.gen < MaxGen
    /\ IF Claimable(c)
       THEN /\ claimed' = [claimed EXCEPT ![c] = row.gen + 1]
            /\ \/ /\ row' = [status |-> "queued", gen |-> row.gen + 1]
                  /\ CallGoto(c, "claimed")
                  /\ lock' = c
               \/ /\ row' = [status |-> "cancelled", gen |-> row.gen + 1]
                  /\ CallGoto(c, "done")
                  /\ UNCHANGED lock
       ELSE /\ CallGoto(c, "done")
            /\ UNCHANGED <<row, lock, claimed>>
    /\ UNCHANGED <<schedVars, op, pin, borrowed, lifeVars>>

\* _submit accepted: a fresh job for the identifier.
Submit(c) ==
    LET g == claimed[c] IN
    /\ pc[c] = "claimed"
    /\ sched \in Terminal \cup {NONE}
    /\ job' = g
    /\ sched' = "queued"
    /\ op' = [op EXCEPT ![g] = "queued"]
    /\ CallGoto(c, "submitted")
    /\ UNCHANGED <<row, reg, settled, token, hit, lock, pin, borrowed, claimed, lifeVars>>

\* _submit refused: still scheduled, the queue is full, or shut down.
Reject(c) ==
    /\ pc[c] = "claimed"
    /\ row' = Written("failed")
    /\ Leave(c)
    /\ UNCHANGED <<schedVars, op, pin, borrowed, claimed, lifeVars>>

\* The queued event settles, or its sink raises after the job was accepted.
Announce(c) ==
    /\ pc[c] = "submitted"
    /\ Leave(c)
    /\ UNCHANGED <<row, schedVars, op, pin, borrowed, claimed, lifeVars>>

\* _cancel_unlocked: scheduler.cancel, and the row of a child that was only
\* queued; a running operation writes its own terminal row.
ScheduledCancel ==
    IF sched \in Settling
    THEN /\ token' = [token EXCEPT ![job] = TRUE]
         /\ IF reg # 0
            THEN /\ hit' = IF op[job] \in Unstarted THEN hit ELSE [hit EXCEPT ![reg] = TRUE]
                 /\ UNCHANGED settled
            ELSE /\ settled' = [settled EXCEPT ![job] = TRUE]
                 /\ UNCHANGED hit
         /\ row' = IF sched = "queued" THEN Written("cancelled") ELSE row
         /\ sched' = "cancelled"
         /\ UNCHANGED <<job, reg>>
    ELSE UNCHANGED <<row, schedVars>>

\* The caller is cancelled while it announces: it cancels its own claim.
AnnounceCancelled(c) ==
    /\ pc[c] = "submitted"
    /\ ScheduledCancel
    /\ Leave(c)
    /\ UNCHANGED <<op, pin, borrowed, claimed, lifeVars>>

\* cancel, under the lock from its read to its last write; it names the
\* current generation, or none.
Cancel ==
    /\ open
    /\ lock = NONE
    /\ row.gen # 0
    /\ sched \in Settling
    /\ ScheduledCancel
    /\ UNCHANGED <<op, callVars, lifeVars>>

\* close, once the service has joined its requests: scheduler.shutdown cancels
\* what is queued in memory only, the row is left to the next start.
Close ==
    /\ open
    /\ \A c \in Callers : pc[c] \in {"idle", "done"}
    /\ open' = FALSE
    /\ token' = [g \in Gen |-> token[g] \/ (g = job /\ (sched = "queued" \/ reg # 0))]
    /\ settled' = [g \in Gen |-> settled[g] \/ (g = job /\ sched = "queued")]
    /\ hit' = [g \in Gen |-> hit[g] \/ (g = reg /\ op[job] \notin Unstarted)]
    /\ sched' = IF sched = "queued" THEN "cancelled" ELSE sched
    /\ UNCHANGED <<row, job, reg, op, callVars, restarts>>

\* fail_incomplete_after_restart.
FailIncomplete == IF row.status \in Settling THEN Written("failed") ELSE row

\* The process dies, or has closed, and a new manager starts on its database.
Restart ==
    /\ restarts < MaxRestarts
    /\ open' = TRUE
    /\ restarts' = restarts + 1
    /\ row' = FailIncomplete
    /\ sched' = NONE
    /\ job' = 0
    /\ reg' = 0
    /\ settled' = [g \in Gen |-> FALSE]
    /\ token' = [g \in Gen |-> FALSE]
    /\ hit' = [g \in Gen |-> FALSE]
    /\ op' = [g \in Gen |-> NONE]
    /\ lock' = NONE
    /\ pc' = [c \in Callers |-> IF pc[c] = "idle" THEN "idle" ELSE "done"]
    /\ borrowed' = [c \in Callers |-> 0]
    /\ UNCHANGED <<pin, claimed>>

Next ==
    \/ \E g \in Gen : Drop(g) \/ Take(g) \/ Operation(g) \/ Finish(g) \/ Collect(g)
    \/ \E c \in Callers :
          \/ Spawn(c) \/ FollowRead(c) \/ FollowWait(c) \/ FollowCancelled(c) \/ FollowClaim(c)
          \/ Submit(c) \/ Reject(c) \/ Announce(c) \/ AnnounceCancelled(c)
    \/ Cancel \/ Close \/ Restart

(***************************************************************************)
(* The event loop runs every ready task: workers take jobs, operations and *)
(* threads end, and a request that holds the lock goes on.  Nobody has to  *)
(* spawn, follow up, cancel or restart.                                    *)
(***************************************************************************)
Fairness ==
    /\ \A g \in Gen : WF_vars(Drop(g)) /\ WF_vars(Take(g)) /\ WF_vars(Operation(g))
                      /\ WF_vars(Finish(g)) /\ WF_vars(Collect(g))
    /\ \A c \in Callers : WF_vars(FollowWait(c)) /\ WF_vars(FollowClaim(c))
                          /\ WF_vars(Submit(c) \/ Reject(c)) /\ WF_vars(Announce(c))

Spec == Init /\ [][Next]_vars
FairSpec == Spec /\ Fairness

-----------------------------------------------------------------------------
\* Every variable has its type.
TypeOK ==
    /\ row \in [status : Settling \cup Terminal \cup {NONE}, gen : 0..MaxGen]
    /\ sched \in Settling \cup Terminal \cup {NONE}
    /\ job \in 0..MaxGen
    /\ reg \in 0..MaxGen
    /\ settled \in [Gen -> BOOLEAN]
    /\ token \in [Gen -> BOOLEAN]
    /\ hit \in [Gen -> BOOLEAN]
    /\ op \in [Gen -> Executing \cup {NONE, "queued", "dropped", "drained"}]
    /\ lock \in Callers \cup {NONE}
    /\ pc \in [Callers -> {"idle", "waiting", "ready", "claimed", "submitted", "done"}]
    /\ pin \in [Callers -> 0..MaxGen]
    /\ borrowed \in [Callers -> 0..MaxGen]
    /\ claimed \in [Callers -> 0..MaxGen]
    /\ open \in BOOLEAN
    /\ restarts \in 0..MaxRestarts

\* The generation that follows g was claimed by a request that named none.
Overtaken(g) == \E c \in Callers : pin[c] = 0 /\ claimed[c] = g + 1

\* The updates of a row do not name a generation.  An operation writes the row
\* of its own generation unless a request that named none has claimed the next
\* one meanwhile: a request that names what it reviewed never moves the row
\* away from under an operation, by "Wait for that generation to be released"
\* and the comparison in its claim.
WritesOwnGeneration == \A g \in Gen : op[g] \in Executing => row.gen = g \/ Overtaken(g)

\* A row of an open manager that says queued or running is somebody's: a
\* request still admits it, or a job nobody has cancelled in the queue or an
\* operation that still has its last write to do will settle it.
NoOrphanRow ==
    row.status \in Settling /\ open =>
        \/ \E c \in Callers : pc[c] = "claimed" /\ claimed[c] = row.gen
        \/ op[row.gen] = "queued" /\ ~token[row.gen]
        \/ op[row.gen] \in Executing \ Ended

\* The row is its operation's or was claimed by a request that named no
\* generation, and in either case somebody settles it.
RowsBelong == TypeOK /\ WritesOwnGeneration /\ NoOrphanRow

\* The comment in follow_up: "A post-persistence event-sink failure must not
\* make a durable, completed child impossible to continue."
CompletedStaysContinuable ==
    [][row.status = "completed" => row'.status # "failed"]_vars

\* A turn once admitted is settled in the row, whatever is cancelled or
\* refused on the way; a turn still queued at close waits for the next start.
\* A follow-up that waits for the previous generation is let through or
\* refused: the completion it borrowed always settles and the lock is freed.
TurnSettles ==
    /\ (row.status \in Settling) ~> (row.status \in Terminal \/ ~open)
    /\ (\E c \in Callers : pc[c] = "waiting") ~> (\A c \in Callers : pc[c] # "waiting")

\* The comment in follow_up: "Wait for that generation to be released before
\* reusing the stable subagent id."  While an operation executes no other
\* generation of its child is in the queue or executes.
OneGenerationLives ==
    \A g, h \in Gen : op[g] \in Executing /\ op[h] \in {"queued"} \cup Executing => g = h

(***************************************************************************)
(* Why RowsBelong holds: nothing can be claimed over a generation that has *)
(* not completed; a follow-up that names its generation claims the next    *)
(* one only when the completion it borrowed says that the generation it    *)
(* named is over; and one that names none leaves its claim in the history. *)
(***************************************************************************)
Early == {"queued", "taken", "starting", "started", "asking", "answered"}
Live  == {"queued"} \cup Executing

\* Where the operations are: one that has not completed is the row's, one that
\* executes is the row's or overtaken.
OperationsSound ==
    /\ job <= row.gen
    /\ \A g \in Gen :
          /\ op[g] # NONE => g <= job
          /\ op[g] \in Early => g = row.gen /\ row.status # "completed"
          /\ op[g] = "completing" /\ g = row.gen => row.status \in Terminal
          /\ op[g] \in Executing => g = row.gen \/ Overtaken(g)
          /\ token[g] \/ settled[g] => op[g] # NONE
          /\ settled[g] => op[g] \in {"queued", "dropped", "drained"}
          /\ settled[g] /\ op[g] = "queued" => token[g]

\* What the scheduler says while a job waits or runs is about the last job, and
\* the last job is one.
ScheduleSound ==
    /\ job # 0 => op[job] # NONE
    /\ sched = "queued" => job # 0 /\ op[job] = "queued"
    /\ sched = "running" => job # 0 /\ reg = job /\ op[job] \in Executing
    /\ row.status = "completed" => job \in {0, row.gen}

\* The lock is held from a claim to its announcement, what is claimed is new,
\* and a request claims once.
LockHeld ==
    \A c \in Callers :
        /\ pc[c] \in {"claimed", "submitted"} <=> lock = c
        /\ pc[c] = "claimed" => claimed[c] = row.gen /\ job < row.gen /\ row.status # "completed"
        /\ pc[c] # "idle" => row.gen # 0
        /\ pc[c] \in {"idle", "waiting", "ready"} => claimed[c] = 0

\* A follow-up that names a generation names one that is past its queue, waits
\* for that one's completion, and goes on when it is over.
FollowSound ==
    \A c \in Callers : pc[c] \in {"waiting", "ready"} /\ pin[c] # 0 =>
        /\ pin[c] <= row.gen
        /\ \A d \in Callers : pc[d] = "claimed" => pin[c] < row.gen
        /\ borrowed[c] \in {0, pin[c]}
        /\ op[pin[c]] # "queued"
        /\ pc[c] = "ready" \/ borrowed[c] = 0 => op[pin[c]] \notin Live

SubagentsInv ==
    TypeOK /\ OperationsSound /\ ScheduleSound /\ LockHeld /\ FollowSound /\ NoOrphanRow
=============================================================================
