---------------------------- MODULE CheckpointLease ----------------------------
(***************************************************************************)
(* One lease of the SQLite checkpointer: the connection's worker thread opens *)
(* it, sets it up, hands out cursors and closes it, while the run that owns    *)
(* the lease may be cancelled, again and again, at every await.               *)
(*                                                                         *)
(* The worker does each queued job in order whether or not anyone still waits *)
(* for its result; a failure of a job does not tell whether it took effect.   *)
(***************************************************************************)
EXTENDS Naturals, FiniteSets

CONSTANTS
    Cursors,
    MaxCancels   \* bound on cancellations of the caller

VARIABLES
    at,          \* where sqlite_checkpointer is
    job,         \* the worker's latest job and the cursor it is for
    result,      \* its outcome: "none", "ok" or "failed"
    awaited,     \* the lease waits for that job
    open,        \* the connection exists in the worker
    cursor,      \* cursor -> [known, native, closing]
    unclear,     \* cleanup_uncertain, which the owner is told of
    cancels, cancelled,  \* a cancellation that no await has raised yet
    erred,       \* the body has raised
    told         \* what the caller got

vars == <<at, job, result, awaited, open, cursor, unclear, cancels, cancelled, erred, told>>
caller == <<cancelled, erred, told>>

NoCursor == [known |-> FALSE, native |-> FALSE, closing |-> FALSE]
NoJob == <<"none", "none">>
Whole(kind) == <<kind, "none">>
Acquire(c) == <<"acquire", c>>
Dispose(c) == <<"dispose", c>>

Init ==
    /\ at = "start" /\ job = NoJob /\ result = "ok" /\ awaited = FALSE /\ open = FALSE
    /\ cursor = [c \in Cursors |-> NoCursor]
    /\ unclear = FALSE /\ cancels = 0 /\ cancelled = FALSE /\ erred = FALSE /\ told = "none"

\* the worker gets to a new job when it has done the one before, awaited or not
Queue(j) == result # "none" /\ job' = j /\ result' = "none" /\ awaited' = TRUE
Quiet == awaited' = FALSE /\ UNCHANGED <<job, result>>
work == <<job, result, awaited>>

-----------------------------------------------------------------------------
(* The worker thread: a job is done, or failed with or without its effect *)

Works(j) == job = j /\ result = "none" /\ UNCHANGED <<at, job, awaited, unclear, cancels>> /\ UNCHANGED caller

WorkOpen ==
    /\ Works(Whole("open"))
    /\ \/ result' = "ok" /\ open' = TRUE
       \/ result' = "failed" /\ open' \in BOOLEAN
    /\ UNCHANGED cursor

WorkSetup == Works(Whole("setup")) /\ result' \in {"ok", "failed"} /\ UNCHANGED <<open, cursor>>

WorkClose ==
    /\ Works(Whole("close"))
    /\ \/ result' = "ok" /\ open' = FALSE
       \/ result' = "failed" /\ open' \in BOOLEAN
    /\ UNCHANGED cursor

Native(c, value) == cursor' = [cursor EXCEPT ![c].native = value]

WorkAcquire(c) ==
    /\ Works(Acquire(c))
    /\ \/ result' = "ok" /\ Native(c, TRUE)
       \/ result' = "failed" /\ \E b \in BOOLEAN : Native(c, b)
    /\ UNCHANGED open

WorkDispose(c) ==
    /\ Works(Dispose(c))
    /\ \/ result' = "ok" /\ Native(c, FALSE)
       \/ result' = "failed" /\ \E b \in BOOLEAN : Native(c, b)
    /\ UNCHANGED open

-----------------------------------------------------------------------------
(* Opening *)

Cancel ==
    /\ at \in {"opening", "setup", "body", "disposing", "closed"} /\ cancels < MaxCancels
    /\ cancels' = cancels + 1 /\ cancelled' = TRUE
    /\ UNCHANGED <<at, open, cursor, unclear, erred, told>> /\ UNCHANGED work

\* open_original: the proxy's factory fails or cannot be used, or the worker has the job
Factory ==
    /\ at = "start"
    /\ \/ at' = "opening" /\ Queue(Whole("open")) /\ UNCHANGED <<open, unclear, told>>
       \/ /\ at' = "ended" /\ unclear' = TRUE /\ told' = "unclear" /\ open' \in BOOLEAN
          /\ UNCHANGED work
    /\ UNCHANGED <<cursor, cancels, cancelled, erred>>

\* Fault: a cancellation abandons the job that the caller waits for.
DrainedOrCancelled == result # "none" \/ cancelled

\* _drain_owned_task: a cancellation is remembered and the job is waited for
Drained == result # "none"

\* a failed job, then a remembered cancellation, end the lease before its body
GiveUp(lost) ==
    /\ at' = "closing" /\ erred' = TRUE /\ cancelled' = FALSE
    /\ unclear' = (unclear \/ lost)
    /\ Quiet /\ UNCHANGED told

Opened ==
    /\ at = "opening" /\ Drained
    /\ \/ result # "ok" /\ GiveUp(result = "failed")
       \/ result = "ok" /\ cancelled /\ GiveUp(FALSE)
       \/ /\ result = "ok" /\ ~cancelled /\ at' = "setup" /\ Queue(Whole("setup"))
          /\ UNCHANGED unclear /\ UNCHANGED caller
    /\ UNCHANGED <<open, cursor, cancels>>

\* the task of the setup is lost while its job may be queued: close_original refuses
SetupLost ==
    /\ at = "setup" /\ result = "none"
    /\ unclear' = TRUE /\ at' = "ended" /\ told' = "unclear"
    /\ UNCHANGED <<open, cursor, cancels, cancelled, erred>> /\ UNCHANGED work

\* a failed statement is unclear, a failed commit is an error like any other
SetUp ==
    /\ at = "setup" /\ Drained
    /\ \/ result # "ok" /\ \E lost \in BOOLEAN : GiveUp(lost)
       \/ result = "ok" /\ cancelled /\ GiveUp(FALSE)
       \/ result = "ok" /\ ~cancelled /\ at' = "body" /\ Quiet /\ UNCHANGED unclear /\ UNCHANGED caller
    /\ UNCHANGED <<open, cursor, cancels>>

-----------------------------------------------------------------------------
(* The body: the saver's statements, each with a cursor *)

\* bind_sdk_cursors_original: nothing new once the source is unclear
Use(c) ==
    /\ at = "body" /\ ~unclear /\ ~cancelled /\ ~erred /\ cursor[c] = NoCursor /\ ~awaited
    /\ Queue(Acquire(c))
    /\ UNCHANGED <<at, open, cursor, unclear, cancels>> /\ UNCHANGED caller

\* the statement failed, or its caller was cancelled while the worker may still do it
Lost == result = "failed" \/ cancelled

\* _acquire_sdk_cursor
Acquired(c) ==
    /\ at = "body" /\ job = Acquire(c) /\ awaited /\ (result # "none" \/ cancelled)
    /\ Quiet
    /\ IF result = "ok" /\ ~cancelled
       THEN cursor' = [cursor EXCEPT ![c].known = TRUE] /\ UNCHANGED <<cancelled, erred, unclear>>
       ELSE /\ erred' = TRUE /\ cancelled' = FALSE /\ unclear' = (unclear \/ Lost)
            /\ UNCHANGED cursor
    /\ UNCHANGED <<at, open, cancels, told>>

Held(c) == cursor[c].known /\ ~cursor[c].closing

\* the statement's context closes its cursor, also on the way out of an error
Leave(c) ==
    /\ at = "body" /\ Held(c) /\ ~awaited /\ Queue(Dispose(c))
    /\ cursor' = [cursor EXCEPT ![c].closing = TRUE]
    /\ UNCHANGED <<at, open, unclear, cancels>> /\ UNCHANGED caller

\* _close_sdk_cursor, called by the body or by close_original
Left(c) ==
    /\ at \in {"body", "disposing"} /\ job = Dispose(c) /\ awaited /\ (result # "none" \/ cancelled)
    /\ at' = IF at = "disposing" THEN "closing" ELSE at
    /\ Quiet
    /\ IF result = "ok" /\ ~cancelled
       THEN UNCHANGED <<cancelled, erred, unclear>>
       ELSE erred' = TRUE /\ cancelled' = FALSE /\ unclear' = TRUE
    /\ UNCHANGED <<open, cursor, cancels, told>>

\* the body returns, raises or is cancelled; an iterator may have left its cursor open
BodyEnds ==
    /\ at = "body" /\ ~awaited /\ at' = "closing"
    /\ erred' \in {TRUE, erred \/ cancelled} /\ cancelled' = FALSE
    /\ UNCHANGED <<open, cursor, unclear, cancels, told>> /\ UNCHANGED work

-----------------------------------------------------------------------------
(* close_original *)

CloseCursor(c) ==
    /\ at = "closing" /\ Held(c) /\ Queue(Dispose(c)) /\ at' = "disposing"
    /\ cursor' = [cursor EXCEPT ![c].closing = TRUE]
    /\ UNCHANGED <<open, unclear, cancels>> /\ UNCHANGED caller

\* every cursor that is known has been closed, or was asked to
AllAsked == \A c \in Cursors : ~Held(c)

\* the connection is closed once, whatever is unclear already
CloseConnection ==
    /\ at = "closing" /\ AllAsked /\ Queue(Whole("close")) /\ at' = "closed"
    /\ UNCHANGED <<open, cursor, unclear, cancels>> /\ UNCHANGED caller

\* any failure of the lease makes it unclear; a repeated cancellation does not
Closed ==
    /\ at = "closed" /\ Drained
    /\ at' = "ended" /\ unclear' = (unclear \/ result = "failed")
    /\ told' = IF unclear' THEN "unclear" ELSE IF erred \/ cancelled THEN "raised" ELSE "returned"
    /\ Quiet /\ UNCHANGED <<open, cursor, cancels, cancelled, erred>>

-----------------------------------------------------------------------------
Worker == WorkOpen \/ WorkSetup \/ WorkClose \/ \E c \in Cursors : WorkAcquire(c) \/ WorkDispose(c)
Leasing == Factory \/ Opened \/ SetupLost \/ SetUp \/ BodyEnds \/ CloseConnection \/ Closed
Using == \E c \in Cursors : Use(c) \/ Acquired(c) \/ Leave(c) \/ Left(c) \/ CloseCursor(c)

Next == Worker \/ Leasing \/ Using \/ Cancel

Spec == Init /\ [][Next]_vars

-----------------------------------------------------------------------------
(* When the lease ends and is not unclear, the worker has neither a job nor a     *)
(* connection nor a cursor left, however often the caller was cancelled and       *)
(* whatever it abandoned: checkpoints.py:156 "Shield its SAME task through         *)
(* repeated caller cancellation before permitting connection close".               *)
LeaseEndsClean ==
    told \in {"returned", "raised"} =>
        result # "none" /\ ~open /\ \A c \in Cursors : ~cursor[c].native

-----------------------------------------------------------------------------
(* Why it holds: as long as nothing is unclear, the lease waits for every job     *)
(* and knows of every native cursor.                                              *)

TypeOK ==
    /\ at \in {"start", "opening", "setup", "body", "closing", "disposing", "closed", "ended"}
    /\ result \in {"none", "ok", "failed"}
    /\ awaited \in BOOLEAN /\ open \in BOOLEAN /\ unclear \in BOOLEAN
    /\ cursor \in [Cursors -> [known : BOOLEAN, native : BOOLEAN, closing : BOOLEAN]]
    /\ cancelled \in BOOLEAN /\ erred \in BOOLEAN
    /\ told \in {"none", "unclear", "raised", "returned"}

Stages ==
    /\ at = "start" => job = NoJob
    /\ at = "opening" => job = Whole("open")
    /\ at = "setup" => job = Whole("setup")
    /\ at \in {"start", "opening", "setup"} => \A c \in Cursors : cursor[c] = NoCursor
    /\ at = "closing" => ~awaited
    /\ at = "closed" => job = Whole("close") /\ AllAsked

JobAwaited == result = "none" /\ ~unclear => awaited

CursorsKnown ==
    ~unclear => \A c \in Cursors :
        cursor[c].native => Held(c) \/ (awaited /\ job \in {Acquire(c), Dispose(c)})

Outcomes ==
    /\ job = Whole("close") /\ result = "ok" => ~open
    /\ \A c \in Cursors : job = Dispose(c) /\ result = "ok" => ~cursor[c].native
    /\ \A c \in Cursors : job = Acquire(c) /\ awaited => ~cursor[c].known /\ ~cursor[c].closing

ToldAtEnd == told \in {"returned", "raised"} => at = "ended"

LeaseInv ==
    /\ TypeOK
    /\ Stages
    /\ JobAwaited
    /\ CursorsKnown
    /\ Outcomes
    /\ LeaseEndsClean
    /\ ToldAtEnd
=============================================================================
