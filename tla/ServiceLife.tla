----------------------------- MODULE ServiceLife -----------------------------
(***************************************************************************)
(* The life of the run service in a process, and the ownership of its       *)
(* workspace between processes.                                             *)
(*                                                                         *)
(* A process starts the service once: it takes the workspace's file lock,   *)
(* reads the journals of provider calls, legacy operations and tools, and   *)
(* either recovers and opens admission or, when a journal holds an effect   *)
(* whose outcome is unknown, serves metadata only.  Operations are joined   *)
(* by close, background work is drained by the resources it closes.  The     *)
(* lock is released only when everything was seen to end; the operating      *)
(* system releases it when the process dies.                                *)
(***************************************************************************)
EXTENDS Naturals, FiniteSets

CONSTANTS
    Procs,        \* processes; one life of the service each
    Ops,          \* operations with an effect outside the database
    Readers       \* reads of stored evidence

VARIABLES
    holder,    \* the process that holds the file lock, or "none"
    svc,       \* process -> what its service does
    life,      \* process -> who holds its lifecycle lock
    serving,   \* processes that may serve metadata: _started or _metadata_ready
    asked,     \* processes whose close task exists
    broken,    \* processes with a fault: no new effect is admitted
    uncertain, \* processes that saw a cleanup of unknown outcome
    op,        \* operation -> [pc, proc, joined]; joined: close waits for it by itself
    run,       \* operation -> the status of its run in the database
    journal,   \* operation -> its row in a journal
    read       \* reader -> [pc, proc]

vars == <<holder, svc, life, serving, asked, broken, uncertain, op, run, journal, read>>

None == "none"
Free == "free"

Init ==
    /\ holder = None
    /\ svc = [p \in Procs |-> "down"]
    /\ life = [p \in Procs |-> Free]
    /\ serving = {} /\ asked = {} /\ broken = {} /\ uncertain = {}
    /\ op = [o \in Ops |-> [pc |-> "idle", proc |-> None, joined |-> TRUE]]
    /\ run = [o \in Ops |-> None]
    /\ journal = [o \in Ops |-> None]
    /\ read = [q \in Readers |-> [pc |-> "idle", proc |-> None]]

Alive(p) == svc[p] # "gone"
Acting(o) == op[o].pc \in {"admitted", "effect"}
Reading(q) == read[q].pc = "sql"
Database == UNCHANGED <<run, journal>>
Faults == UNCHANGED <<broken, uncertain>>

-----------------------------------------------------------------------------
(* start *)

\* The lifecycle lock, then the file lock of another process or of nobody.
Start(p) ==
    /\ svc[p] = "down"
    /\ life[p] = Free /\ p \notin asked /\ p \notin uncertain
    /\ holder = None
    /\ holder' = p
    /\ svc' = [svc EXCEPT ![p] = "reading"]
    /\ life' = [life EXCEPT ![p] = "start"]
    /\ UNCHANGED <<serving, asked, op, read>> /\ Faults /\ Database

\* The file cannot be locked and its handle is not seen to close: no second try.
LoseLockFile(p) ==
    /\ svc[p] = "down"
    /\ life[p] = Free /\ p \notin asked /\ p \notin uncertain
    /\ uncertain' = uncertain \cup {p}
    /\ broken' = broken \cup {p}
    /\ UNCHANGED <<holder, svc, life, serving, asked, op, read>> /\ Database

\* Fault: a row is unresolved only while its run still seems to run.
CleanByStatus == \A o \in Ops : journal[o] = "open" => run[o] # "running"

\* The recovery queries: no effect of an earlier life has an unknown outcome.
Clean == \A o \in Ops : journal[o] # "open"

\* An unreadable journal or unreadable settings quarantine like an open row.
ReadJournals(p) ==
    /\ svc[p] = "reading"
    /\ \/ /\ Clean /\ p \notin asked
          /\ svc' = [svc EXCEPT ![p] = "recovering"]
          /\ UNCHANGED <<life, serving, broken>>
       \/ /\ p \notin asked
          /\ broken' = broken \cup {p}
          /\ svc' = [svc EXCEPT ![p] = "meta"]
          /\ serving' = serving \cup {p}
          /\ life' = [life EXCEPT ![p] = Free]
    /\ UNCHANGED <<holder, asked, uncertain, op, read>> /\ Database

\* recover_incomplete: runs of an earlier life are interrupted.
Recover(p) ==
    /\ svc[p] = "recovering"
    /\ run' = [o \in Ops |-> IF run[o] = "running" THEN "interrupted" ELSE run[o]]
    /\ svc' = [svc EXCEPT ![p] = "ready"]
    /\ serving' = serving \cup {p}
    /\ life' = [life EXCEPT ![p] = Free]
    /\ UNCHANGED <<holder, asked, op, journal, read>> /\ Faults

\* Any step of start fails, or close was asked meanwhile: the resources close.
FailStart(p) ==
    /\ svc[p] \in {"reading", "recovering"}
    /\ svc' = [svc EXCEPT ![p] = "drain"]
    /\ serving' \in {serving} \cup (IF svc[p] = "recovering" THEN {serving \cup {p}} ELSE {})
    /\ UNCHANGED <<holder, life, serving, asked, op, read>> /\ Faults /\ Database

-----------------------------------------------------------------------------
(* Operations: _owned_operation *)

\* It waits for the lifecycle lock; the entry into _operations follows without an await.
Enter(o, p) ==
    /\ op[o].pc = "idle"
    /\ svc[p] = "ready" /\ life[p] = Free
    /\ p \notin asked /\ p \notin broken
    /\ op' = [op EXCEPT ![o] = [pc |-> "admitted", proc |-> p, joined |-> TRUE]]
    /\ run' = [run EXCEPT ![o] = "running"]
    /\ UNCHANGED <<holder, svc, life, serving, asked, journal, read>> /\ Faults

\* The operation returns and leaves its run to the scheduler.
Background(o) ==
    /\ op[o].pc = "admitted" /\ op[o].joined
    /\ op' = [op EXCEPT ![o].joined = FALSE]
    /\ UNCHANGED <<holder, svc, life, serving, asked, read>> /\ Faults /\ Database

\* The intent is durable before the effect.
Intent(o) ==
    /\ op[o].pc = "admitted"
    /\ op[o].proc \notin broken
    /\ journal' = [journal EXCEPT ![o] = "open"]
    /\ op' = [op EXCEPT ![o].pc = "effect"]
    /\ UNCHANGED <<holder, svc, life, serving, asked, run, read>> /\ Faults

\* The effect ended and its row is sealed.
Seal(o) ==
    /\ op[o].pc = "effect"
    /\ journal' = [journal EXCEPT ![o] = "sealed"]
    /\ run' = [run EXCEPT ![o] = "completed"]
    /\ op' = [op EXCEPT ![o].pc = "done"]
    /\ UNCHANGED <<holder, svc, life, serving, asked, read>> /\ Faults

\* The effect or its seal is not known: the run fails, the row stays, admission ends.
FailSeal(o) ==
    LET p == op[o].proc IN
    /\ op[o].pc = "effect"
    /\ broken' = broken \cup {p}
    /\ uncertain' \in {uncertain, uncertain \cup {p}}
    /\ run' = [run EXCEPT ![o] = "failed"]
    /\ op' = [op EXCEPT ![o].pc = "done"]
    /\ UNCHANGED <<holder, svc, life, serving, asked, journal, read>>

\* Refused or cancelled before its effect.
Withdraw(o) ==
    /\ op[o].pc = "admitted"
    /\ run' = [run EXCEPT ![o] = "cancelled"]
    /\ op' = [op EXCEPT ![o].pc = "done"]
    /\ UNCHANGED <<holder, svc, life, serving, asked, journal, read>> /\ Faults

-----------------------------------------------------------------------------
(* _read_held_evidence *)

\* Metadata is read by a service that is up, in quarantine too, or whose close failed.
MayRead(p) ==
    /\ p \in serving
    /\ \/ svc[p] \in {"ready", "meta"} /\ p \notin asked
       \/ svc[p] = "stuck" /\ p \in asked

Read(q, p) ==
    /\ read[q].pc = "idle"
    /\ life[p] = Free
    /\ MayRead(p)
    /\ read' = [read EXCEPT ![q] = [pc |-> "sql", proc |-> p]]
    /\ life' = [life EXCEPT ![p] = q]
    /\ UNCHANGED <<holder, svc, serving, asked, op>> /\ Faults /\ Database

\* The worker is joined even when its caller was cancelled.
ReadEnds(q) ==
    /\ Reading(q)
    /\ read' = [read EXCEPT ![q].pc = "done"]
    /\ life' = [life EXCEPT ![read[q].proc] = Free]
    /\ UNCHANGED <<holder, svc, serving, asked, op>> /\ Faults /\ Database

-----------------------------------------------------------------------------
(* close, _shutdown_resources *)

Close(p) ==
    /\ Alive(p) /\ p \notin asked
    /\ asked' = asked \cup {p}
    /\ UNCHANGED <<holder, svc, life, serving, op, read>> /\ Faults /\ Database

\* _close_owned holds the lifecycle lock; admission is closed before it.
CloseOwned(p) ==
    /\ p \in asked
    /\ svc[p] \in {"down", "ready", "meta", "failed"} /\ life[p] = Free
    /\ life' = [life EXCEPT ![p] = "close"]
    /\ svc' = [svc EXCEPT ![p] = "join"]
    /\ UNCHANGED <<holder, serving, asked, op, read>> /\ Faults /\ Database

\* A shutdown that fails: close keeps its exception, after a failed start it is tried again.
Failed(p) == IF life[p] = "start" THEN "failed" ELSE "stuck"

Join(p) ==
    /\ svc[p] = "join"
    /\ \A o \in Ops : op[o].proc = p /\ op[o].joined => ~Acting(o)
    /\ svc' = [svc EXCEPT ![p] = "drain"]
    /\ UNCHANGED <<holder, life, serving, asked, op, read>> /\ Faults /\ Database

\* The orchestrator, the subagents, the scheduler, the supervisor, the providers and
\* the MCP client each returned from close.
Drain(p) ==
    /\ svc[p] = "drain"
    /\ \A o \in Ops : op[o].proc = p /\ ~op[o].joined => ~Acting(o)
    /\ svc' = [svc EXCEPT ![p] = "final"]
    /\ UNCHANGED <<holder, life, serving, asked, op, read>> /\ Faults /\ Database

\* One of them raised: the lock is kept until the process is gone.
FailDrain(p) ==
    /\ svc[p] = "drain"
    /\ svc' = [svc EXCEPT ![p] = Failed(p)]
    /\ life' = [life EXCEPT ![p] = Free]
    /\ UNCHANGED <<holder, serving, asked, op, read>> /\ Faults /\ Database

\* The last look is at the cleanup faults; then the file is closed.
Release(p) ==
    /\ svc[p] = "final"
    /\ IF p \in uncertain
       THEN svc' = [svc EXCEPT ![p] = Failed(p)] /\ UNCHANGED <<holder, serving>>
       ELSE /\ svc' = [svc EXCEPT ![p] = "closed"]
            /\ serving' = serving \ {p}
            /\ holder' = IF holder = p THEN None ELSE holder
    /\ life' = [life EXCEPT ![p] = Free]
    /\ UNCHANGED <<asked, op, read>> /\ Faults /\ Database

\* The handle's close raised; the operating system may have released the lock.
FailRelease(p) ==
    /\ svc[p] = "final" /\ holder = p /\ p \notin uncertain
    /\ svc' = [svc EXCEPT ![p] = Failed(p)]
    /\ serving' = serving \ {p}
    /\ holder' \in {p, None}
    /\ uncertain' = uncertain \cup {p}
    /\ broken' = broken \cup {p}
    /\ life' = [life EXCEPT ![p] = Free]
    /\ UNCHANGED <<asked, op, read>> /\ Database

-----------------------------------------------------------------------------
(* The process dies *)

Crash(p) ==
    /\ Alive(p)
    /\ svc' = [svc EXCEPT ![p] = "gone"]
    /\ holder' = IF holder = p THEN None ELSE holder
    /\ op' = [o \in Ops |-> IF op[o].proc = p /\ Acting(o) THEN [op[o] EXCEPT !.pc = "done"] ELSE op[o]]
    /\ read' = [q \in Readers |-> IF read[q].proc = p THEN [read[q] EXCEPT !.pc = "done"] ELSE read[q]]
    /\ UNCHANGED <<life, serving, asked>> /\ Faults /\ Database

-----------------------------------------------------------------------------

Next ==
    \/ \E p \in Procs :
          Start(p) \/ LoseLockFile(p) \/ ReadJournals(p) \/ Recover(p) \/ FailStart(p)
          \/ Close(p) \/ CloseOwned(p) \/ Join(p) \/ Drain(p) \/ FailDrain(p) \/ Release(p)
          \/ FailRelease(p) \/ Crash(p)
    \/ \E o \in Ops : (\E p \in Procs : Enter(o, p)) \/ Background(o) \/ Intent(o)
                      \/ Seal(o) \/ FailSeal(o) \/ Withdraw(o)
    \/ \E q \in Readers : (\E p \in Procs : Read(q, p)) \/ ReadEnds(q)

Spec == Init /\ [][Next]_vars

-----------------------------------------------------------------------------
(* Properties *)

\* The names that stand for nobody are not those of processes and readers.
Names == None \notin Procs /\ Readers \cap {Free, "start", "close"} = {}

\* Whoever acts on the workspace or reads its evidence holds its lock: whatever fails to
\* close, no second process works beside work that is still going on.
ActsUnderLock ==
    /\ \A o \in Ops : Acting(o) => op[o].proc = holder
    /\ \A q \in Readers : Reading(q) => read[q].proc = holder

\* An effect whose outcome is unknown stops every later life: none begins another effect,
\* and none rewrites the run it belongs to.
UnknownQuarantines ==
    /\ \A o, x \in Ops : Acting(o) /\ journal[x] = "open" => op[x].proc = op[o].proc
    /\ \A o \in Ops : journal[o] = "open" => run[o] # "interrupted"

OwnershipHolds == ActsUnderLock /\ UnknownQuarantines

-----------------------------------------------------------------------------
(* Why: a process that may begin work holds the lock and knows the journals,  *)
(* and it gives the lock up only where nothing of it works any more.          *)

TypeOK ==
    /\ holder \in Procs \cup {None}
    /\ svc \in [Procs -> {"down", "reading", "recovering", "ready", "meta", "failed", "stuck",
                          "join", "drain", "final", "closed", "gone"}]
    /\ life \in [Procs -> Readers \cup {Free, "start", "close"}]
    /\ serving \subseteq Procs /\ asked \subseteq Procs
    /\ op \in [Ops -> [pc : {"idle", "admitted", "effect", "done"}, proc : Procs \cup {None},
                       joined : BOOLEAN]]
    /\ run \in [Ops -> {None, "running", "completed", "failed", "cancelled", "interrupted"}]
    /\ journal \in [Ops -> {None, "open", "sealed"}]
    /\ read \in [Readers -> [pc : {"idle", "sql", "done"}, proc : Procs \cup {None}]]

\* Every effect of unknown outcome was begun by the process p.
OpenIsOf(p) == \A x \in Ops : journal[x] = "open" => op[x].proc = p

ProcSound(p) ==
    /\ svc[p] \in {"reading", "recovering", "ready", "meta"} => holder = p
    /\ p \in serving /\ svc[p] # "gone" => holder = p
    /\ svc[p] \in {"reading", "recovering"} => life[p] = "start"
    /\ svc[p] \in {"join", "drain", "final"} => life[p] \in {"start", "close"}
    /\ svc[p] = "recovering" => Clean
    /\ svc[p] = "ready" => OpenIsOf(p)

OpSound(o) ==
    /\ op[o].pc = "idle" => journal[o] = None
    /\ journal[o] = "open" => run[o] # "interrupted"
    /\ Acting(o) => /\ op[o].proc \in Procs /\ op[o].proc = holder
                    /\ svc[op[o].proc] \in {"ready", "join", "drain", "stuck"}
                    /\ svc[op[o].proc] = "drain" => ~op[o].joined
                    /\ life[op[o].proc] # "start"
                    /\ run[o] = "running"
                    /\ OpenIsOf(op[o].proc)

ReadSound(q) ==
    Reading(q) => /\ read[q].proc \in Procs /\ read[q].proc = holder
                  /\ life[read[q].proc] = q

ServiceInv ==
    /\ TypeOK
    /\ \A p \in Procs : ProcSound(p)
    /\ \A o \in Ops : OpSound(o)
    /\ \A q \in Readers : ReadSound(q)
=============================================================================
