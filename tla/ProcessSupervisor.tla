-------------------------- MODULE ProcessSupervisor --------------------------
(***************************************************************************)
(* ProcessSupervisor: external commands, the processes they start, and the  *)
(* proof that nothing of them is left before their registration goes.       *)
(*                                                                         *)
(* Between two awaits the event loop does its steps alone; what runs beside *)
(* it are the process, its descendants and the reader threads, one of which *)
(* may terminate the tree itself when the output is too long.  Every native *)
(* call may fail: what it did is then unknown, the supervisor is            *)
(* quarantined and the registration stays for ever.                         *)
(***************************************************************************)
EXTENDS Naturals, FiniteSets

CONSTANTS
    Ops,   \* calls of run and run_binary, each of a run of its own
    Kinds  \* call -> what it may be: "text" for run, "binary" for run_binary,
           \* "strict" for run_binary with require_tree_ownership

VARIABLES
    platform,    \* "nt" or "posix"
    op,          \* call -> [pc, kind, sup, uncertain]
    tree,        \* call -> [parent, child]: the process and a descendant
    reader,      \* call -> the threads that read its pipes
    term,        \* call -> the one termination of its tree
    kills,       \* call -> native terminations tried (history)
    open,        \* calls whose pipes or spools are open
    registered,  \* calls in _active, _drainers and _operations
    failed,      \* cleanup_failed
    closing,     \* _closing
    close        \* the close task: [pc, left]

vars == <<platform, op, tree, reader, term, kills, open, registered, failed, closing, close>>

Idle == [pc |-> "idle", kind |-> "text", sup |-> "none", uncertain |-> FALSE]

Init ==
    /\ platform \in {"nt", "posix"}
    /\ op = [o \in Ops |-> Idle]
    /\ tree = [o \in Ops |-> [parent |-> "none", child |-> "none"]]
    /\ reader = [o \in Ops |-> "none"]
    /\ term = [o \in Ops |-> "no"]
    /\ kills = [o \in Ops |-> 0]
    /\ open = {}
    /\ registered = {}
    /\ failed = FALSE
    /\ closing = FALSE
    /\ close = [pc |-> "no", left |-> {}]

TypeOK ==
    /\ \A o \in Ops : op[o].pc \in {"idle", "wait", "join", "empty", "close", "done", "refused",
                                    "unproved"}
    /\ \A o \in Ops : op[o].sup \in {"none", "job", "group", "fallback"}
    /\ tree \in [Ops -> [parent : {"none", "live", "exited"}, child : {"none", "member", "escaped"}]]
    /\ reader \in [Ops -> {"none", "reading", "eof", "overflowing", "overflow", "failed", "bad"}]
    /\ term \in [Ops -> {"no", "running", "ok", "failed"}]
    /\ open \subseteq Ops /\ registered \subseteq Ops
    /\ close.pc \in {"no", "cancel", "drain", "ok", "raised"}

PC(o) == op[o].pc
Goto(o, pc) == op' = [op EXCEPT ![o].pc = pc]
\* _fail_original: the call is abandoned with its registration and all of its sources.
Abandon(o) ==
    /\ op' = [op EXCEPT ![o].pc = "unproved", ![o].uncertain = TRUE]
    /\ failed' = TRUE

Closed == UNCHANGED <<platform, closing, close>>

-----------------------------------------------------------------------------
(* Start: admission, Popen, job and registration, in one step of the loop *)

Admitted == ~failed /\ ~closing

Supervision(kind) ==
    IF platform = "posix" THEN {"group"}
    ELSE IF kind = "strict" THEN {"job"} ELSE {"job", "fallback"}

Start(o, kind) ==
    /\ PC(o) = "idle"
    /\ Admitted
    /\ \E sup \in Supervision(kind) :
          op' = [op EXCEPT ![o].pc = "wait", ![o].kind = kind, ![o].sup = sup]
    /\ tree' = [tree EXCEPT ![o].parent = "live"]
    /\ reader' = [reader EXCEPT ![o] = IF kind = "text" THEN "eof" ELSE "reading"]
    /\ open' = open \cup {o}
    /\ registered' = registered \cup {o}
    /\ UNCHANGED <<term, kills, failed>> /\ Closed

\* A strict start whose job or resume is refused kills and reaps the suspended process.
StartRefused(o) ==
    /\ PC(o) = "idle"
    /\ Admitted
    /\ platform = "nt"
    /\ Goto(o, "refused")
    /\ UNCHANGED <<tree, reader, term, kills, open, registered, failed>> /\ Closed

\* Popen, the job or the cleanup after them fails with an unknown effect.
StartUnproved(o, kind) ==
    /\ PC(o) = "idle"
    /\ Admitted
    /\ op' = [op EXCEPT ![o].pc = "unproved", ![o].kind = kind, ![o].uncertain = TRUE]
    /\ failed' = TRUE
    /\ \E parent \in {"none", "live"} : tree' = [tree EXCEPT ![o].parent = parent]
    /\ registered' \in {registered, registered \cup {o}}
    /\ open' = open \cup {o}
    /\ UNCHANGED <<reader, term, kills>> /\ Closed

-----------------------------------------------------------------------------
(* The processes and the reader threads *)

Live(o) == tree[o].parent = "live" \/ tree[o].child # "none"

Spawn(o) ==
    /\ PC(o) # "unproved"
    /\ tree[o].parent = "live" /\ tree[o].child = "none"
    /\ \E c \in {"member"} \cup (IF op[o].sup = "group" THEN {"escaped"} ELSE {}) :
          tree' = [tree EXCEPT ![o].child = c]
    /\ UNCHANGED <<op, reader, term, kills, open, registered, failed>> /\ Closed

ParentExits(o) ==
    /\ tree[o].parent = "live"
    /\ tree' = [tree EXCEPT ![o].parent = "exited"]
    /\ UNCHANGED <<op, reader, term, kills, open, registered, failed>> /\ Closed

ChildExits(o) ==
    /\ tree[o].child # "none"
    /\ tree' = [tree EXCEPT ![o].child = "none"]
    /\ UNCHANGED <<op, reader, term, kills, open, registered, failed>> /\ Closed

\* The pipes end with the last process that holds them; a read may fail before.
Read(o) ==
    /\ reader[o] = "reading"
    /\ \/ ~Live(o) /\ reader' = [reader EXCEPT ![o] = "eof"]
       \/ reader' = [reader EXCEPT ![o] = "failed"]
    /\ UNCHANGED <<op, tree, term, kills, open, registered, failed>> /\ Closed

\* What a termination may leave: a group does not reach who left it; taskkill
\* needs the parent, and what it failed to kill is not asked for.
Killed(o) ==
    IF op[o].sup # "fallback"
    THEN {[parent |-> "exited", child |-> IF tree[o].child = "escaped" THEN "escaped" ELSE "none"]}
    ELSE IF tree[o].parent # "live" THEN {tree[o]}
    ELSE [parent : {"live", "exited"}, child : {"none", tree[o].child}]

Kill(o) == \E t \in Killed(o) : tree' = [tree EXCEPT ![o] = t]

\* One byte too many: the reader thread is the first to terminate, or joins.
Overflow(o) ==
    /\ reader[o] = "reading"
    /\ reader' = [reader EXCEPT ![o] = "overflowing"]
    /\ IF term[o] = "no"
       THEN term' = [term EXCEPT ![o] = "running"] /\ kills' = [kills EXCEPT ![o] = @ + 1]
       ELSE UNCHANGED <<term, kills>>
    /\ UNCHANGED <<op, tree, open, registered, failed>> /\ Closed

OverflowKills(o) ==
    /\ reader[o] = "overflowing"
    /\ term[o] = "running"
    /\ Kill(o)
    /\ IF failed \/ op[o].uncertain
       THEN term' = [term EXCEPT ![o] = "failed"] /\ reader' = [reader EXCEPT ![o] = "bad"]
       ELSE term' = [term EXCEPT ![o] = "ok"] /\ reader' = [reader EXCEPT ![o] = "overflow"]
    /\ op' = [op EXCEPT ![o].uncertain = @ \/ failed]
    /\ UNCHANGED <<kills, open, registered, failed>> /\ Closed

OverflowKillFails(o) ==
    /\ reader[o] = "overflowing"
    /\ term[o] = "running"
    /\ term' = [term EXCEPT ![o] = "failed"]
    /\ reader' = [reader EXCEPT ![o] = "bad"]
    /\ op' = [op EXCEPT ![o].uncertain = TRUE]
    /\ failed' = TRUE
    /\ UNCHANGED <<tree, kills, open, registered>> /\ Closed

OverflowJoins(o) ==
    /\ reader[o] = "overflowing"
    /\ term[o] \in {"ok", "failed"}
    /\ IF term[o] = "ok" /\ ~failed
       THEN reader' = [reader EXCEPT ![o] = "overflow"] /\ UNCHANGED <<op, failed>>
       ELSE /\ reader' = [reader EXCEPT ![o] = "bad"]
            /\ op' = [op EXCEPT ![o].uncertain = TRUE] /\ failed' = TRUE
    /\ UNCHANGED <<tree, term, kills, open, registered>> /\ Closed

-----------------------------------------------------------------------------
(* _terminate_original on the loop *)

\* Fault: every party terminates the tree itself.
TerminatesAgain(o) ==
    /\ term[o] \in {"no", "running", "ok"} /\ ~failed
    /\ term' = [term EXCEPT ![o] = "ok"]
    /\ kills' = [kills EXCEPT ![o] = @ + 1]
    /\ Kill(o)

\* The first attempt, which a quarantine makes worthless, or the result of an earlier one.
Terminates(o) ==
    \/ /\ term[o] = "no" /\ ~failed /\ ~op[o].uncertain
       /\ term' = [term EXCEPT ![o] = "ok"]
       /\ kills' = [kills EXCEPT ![o] = @ + 1]
       /\ Kill(o)
    \/ term[o] = "ok" /\ ~failed /\ ~op[o].uncertain /\ UNCHANGED <<term, kills, tree>>

\* A native failure, a quarantine meanwhile, or ten seconds for somebody else's attempt.
TerminationFails(o) ==
    \/ /\ term[o] = "no"
       /\ term' = [term EXCEPT ![o] = "failed"]
       /\ kills' = [kills EXCEPT ![o] = @ + 1]
       /\ UNCHANGED tree \/ Kill(o)
    \/ term[o] \in {"running", "failed"} /\ UNCHANGED <<term, kills, tree>>
    \/ term[o] = "ok" /\ (failed \/ op[o].uncertain) /\ UNCHANGED <<term, kills, tree>>

\* The deadline, a cancellation of the caller, or a reader that failed.
Interrupt(o) ==
    /\ PC(o) = "wait"
    /\ \/ Terminates(o) /\ Goto(o, "join") /\ UNCHANGED failed
       \/ TerminationFails(o) /\ Abandon(o)
    /\ UNCHANGED <<reader, open, registered>> /\ Closed

\* cancel_run: the same termination; the call itself does the rest.
CancelRun(o) ==
    /\ o \in registered
    /\ ~failed
    /\ \/ Terminates(o) /\ UNCHANGED <<op, failed>>
       \/ /\ TerminationFails(o)
          /\ op' = [op EXCEPT ![o].uncertain = TRUE] /\ failed' = TRUE
    /\ UNCHANGED <<reader, open, registered>> /\ Closed

-----------------------------------------------------------------------------
(* The end of a call *)

ReadersDone(o) == reader[o] \notin {"reading", "overflowing"}

\* run: the parent is reaped, its descendants are not asked for.
TextReturns(o) ==
    /\ PC(o) = "wait" /\ op[o].kind = "text"
    /\ tree[o].parent = "exited"
    /\ Goto(o, "close")
    /\ UNCHANGED <<tree, reader, term, kills, open, registered, failed>> /\ Closed

\* run_binary: the pipes are read too; a strict call drains all the same.
BinaryReturns(o) ==
    /\ PC(o) = "wait" /\ op[o].kind # "text"
    /\ tree[o].parent = "exited" /\ reader[o] \in {"eof", "overflow"}
    /\ IF op[o].kind = "strict"
       THEN \/ Terminates(o) /\ Goto(o, "join") /\ UNCHANGED failed
            \/ TerminationFails(o) /\ Abandon(o)
       ELSE Goto(o, "close") /\ UNCHANGED <<tree, term, kills, failed>>
    /\ UNCHANGED <<reader, open, registered>> /\ Closed

\* The workers are joined and what they returned is inspected.
Join(o) ==
    /\ PC(o) = "join"
    /\ tree[o].parent = "exited" /\ ReadersDone(o)
    /\ \/ /\ reader[o] # "bad"
          /\ Goto(o, IF op[o].kind = "strict" /\ op[o].sup = "job" THEN "empty" ELSE "close")
          /\ UNCHANGED failed
       \/ Abandon(o)
    /\ UNCHANGED <<tree, reader, term, kills, open, registered>> /\ Closed

\* wait_empty: the job's own count of its processes, for ten seconds.
Empty(o) ==
    /\ PC(o) = "empty"
    /\ \/ tree[o].child = "none" /\ Goto(o, "close") /\ UNCHANGED failed
       \/ Abandon(o)
    /\ UNCHANGED <<tree, reader, term, kills, open, registered>> /\ Closed

\* Pipes or spools and the job are closed, which kills what the job still has;
\* only then the registration goes.
Retire(o) ==
    /\ PC(o) = "close"
    /\ ~op[o].uncertain
    /\ open' = open \ {o}
    /\ tree' = IF op[o].sup = "job" THEN [tree EXCEPT ![o].child = "none"] ELSE tree
    /\ registered' = registered \ {o}
    /\ Goto(o, "done")
    /\ UNCHANGED <<reader, term, kills, failed>> /\ Closed

RetireFails(o) ==
    /\ PC(o) = "close"
    /\ open' \in {open, open \ {o}}
    /\ Abandon(o)
    /\ UNCHANGED <<tree, reader, term, kills, registered>> /\ Closed

-----------------------------------------------------------------------------
(* close *)

CloseRaises == close' = [close EXCEPT !.pc = "raised"] /\ failed' = TRUE

Close ==
    /\ ~closing
    /\ closing' = TRUE
    /\ IF failed THEN CloseRaises
       ELSE close' = [pc |-> "cancel", left |-> registered] /\ UNCHANGED failed
    /\ UNCHANGED <<platform, op, tree, reader, term, kills, open, registered>>

\* One cancel_run per call of the snapshot that is still registered.
CloseCancels(o) ==
    /\ close.pc = "cancel" /\ o \in close.left
    /\ \/ /\ IF o \in registered THEN Terminates(o) ELSE UNCHANGED <<tree, term, kills>>
          /\ close' = [close EXCEPT !.left = @ \ {o}]
          /\ UNCHANGED <<op, failed>>
       \/ /\ o \in registered
          /\ IF failed THEN UNCHANGED <<tree, term, kills>> ELSE TerminationFails(o)
          /\ op' = [op EXCEPT ![o].uncertain = TRUE]
          /\ CloseRaises
    /\ UNCHANGED <<platform, reader, open, registered, closing>>

\* The parents are reaped; their drainers get ten seconds.
CloseJoins ==
    /\ close.pc = "cancel" /\ close.left = {}
    /\ \A o \in registered : tree[o].parent # "live"
    /\ IF failed THEN CloseRaises ELSE close' = [close EXCEPT !.pc = "drain"] /\ UNCHANGED failed
    /\ UNCHANGED <<platform, op, tree, reader, term, kills, open, registered, closing>>

\* Fault: the drainers are awaited without a deadline.
CloseConcludesPatient ==
    /\ close.pc = "drain"
    /\ registered = {} /\ ~failed
    /\ close' = [close EXCEPT !.pc = "ok"] /\ UNCHANGED failed
    /\ UNCHANGED <<platform, op, tree, reader, term, kills, open, registered, closing>>

CloseConcludes ==
    /\ close.pc = "drain"
    /\ \/ /\ registered = {} /\ ~failed
          /\ close' = [close EXCEPT !.pc = "ok"] /\ UNCHANGED failed
       \/ /\ registered # {} \/ failed
          /\ CloseRaises
    /\ UNCHANGED <<platform, op, tree, reader, term, kills, open, registered, closing>>

-----------------------------------------------------------------------------
Processes == \E o \in Ops : Spawn(o) \/ ParentExits(o) \/ ChildExits(o)
Threads == \E o \in Ops :
    Read(o) \/ Overflow(o) \/ OverflowKills(o) \/ OverflowKillFails(o) \/ OverflowJoins(o)
CallSteps(o) == TextReturns(o) \/ BinaryReturns(o) \/ Join(o) \/ Empty(o) \/ Retire(o) \/ RetireFails(o)
CloseSteps == CloseJoins \/ CloseConcludes \/ \E o \in Ops : CloseCancels(o)

Next ==
    \/ \E o \in Ops : \E kind \in Kinds[o] : Start(o, kind) \/ StartUnproved(o, kind)
    \/ \E o \in Ops : StartRefused(o) \/ Interrupt(o) \/ CancelRun(o) \/ CallSteps(o)
    \/ Processes \/ Threads \/ Close \/ CloseSteps

\* The loop runs its ready callbacks and the reader threads theirs; processes
\* may run for ever and callers need not cancel them.
Fairness ==
    /\ WF_vars(CloseSteps)
    /\ \A o \in Ops : WF_vars(OverflowKills(o) \/ OverflowKillFails(o)) /\ WF_vars(CallSteps(o))

Spec == Init /\ [][Next]_vars /\ Fairness

-----------------------------------------------------------------------------
(* Properties *)

\* A call gives its registration back only with the proof: its process is
\* reaped, its files are closed and, under a job, no descendant is left.  A
\* tree is terminated at most once, whoever asks.
ReleasedIsSettled ==
    /\ \A o \in Ops : PC(o) = "done" =>
          /\ tree[o].parent = "exited"
          /\ o \notin open
          /\ op[o].sup = "job" => tree[o].child = "none"
          /\ op[o].kind = "strict" => tree[o].child # "member"
    /\ \A o \in Ops : kills[o] <= 1

\* close returns normally only when nothing was left behind: no process the
\* supervisor ever started lives, no file is open, and nothing starts later.
CloseIsProof ==
    close.pc = "ok" =>
        /\ registered = {} /\ open = {}
        /\ \A o \in Ops : tree[o].parent # "live" /\ PC(o) \notin {"wait", "join", "unproved"}

ReleaseNeedsProof == ReleasedIsSettled /\ CloseIsProof

\* A process that outlives its termination: the fallback does not look at what
\* taskkill did, and no wait for such a process has a deadline.
Survives(o) ==
    op[o].sup = "fallback" /\ term[o] = "ok" /\ o \in registered /\ tree[o].parent = "live"

\* close returns or raises, unless a survivor of the fallback lives for ever: a
\* descendant that keeps the pipes open or a termination that fails cannot hang it.
CloseReturns == (closing ~> close.pc \in {"ok", "raised"}) \/ <>[](\E o \in Ops : Survives(o))
-----------------------------------------------------------------------------
(* What every step preserves *)

KindsAreKnown == \A o \in Ops : Kinds[o] \subseteq {"text", "binary", "strict"}

OpRecords == [pc : {"idle", "wait", "join", "empty", "close", "done", "refused", "unproved"},
              kind : {"text", "binary", "strict"}, sup : {"none", "job", "group", "fallback"},
              uncertain : BOOLEAN]

CloseTasks == [pc : {"no", "cancel", "drain", "ok", "raised"}, left : SUBSET Ops]

Types == TypeOK /\ op \in [Ops -> OpRecords] /\ kills \in [Ops -> 0..1] /\ close \in CloseTasks

\* What a call, its tree and its files are, by the place the call is at.
CallHolds(o) ==
    /\ PC(o) \in {"idle", "refused"} =>
          /\ term[o] = "no" /\ reader[o] = "none" /\ tree[o] = [parent |-> "none", child |-> "none"]
          /\ o \notin open /\ o \notin registered
    /\ PC(o) \in {"wait", "join", "empty", "close"} => o \in registered
    /\ PC(o) \in {"empty", "close", "done"} => tree[o].parent = "exited"
    /\ PC(o) \in {"wait", "join", "empty", "close", "done"} /\ op[o].kind = "strict" =>
          op[o].sup \in {"job", "group"}
    /\ PC(o) \in {"join", "empty", "close"} /\ op[o].kind = "strict" => term[o] = "ok"
    /\ term[o] = "ok" /\ op[o].sup = "group" =>
          tree[o].parent = "exited" /\ tree[o].child # "member"
    /\ PC(o) = "done" => o \notin open /\ o \notin registered
    /\ PC(o) = "done" /\ op[o].sup = "job" => tree[o].child = "none"
    /\ PC(o) = "done" /\ op[o].kind = "strict" => tree[o].child # "member"
    /\ term[o] = "no" => kills[o] = 0
    /\ o \in open \/ tree[o].parent = "live" => o \in registered \/ failed
    /\ op[o].uncertain \/ PC(o) = "unproved" => failed

CloseHolds ==
    /\ close.pc # "no" => closing
    /\ close.pc = "ok" =>
          registered = {} /\ open = {} /\ \A o \in Ops : PC(o) \in {"idle", "refused", "done"}

SupervisorInv == Types /\ (\A o \in Ops : CallHolds(o)) /\ CloseHolds
=============================================================================
