--------------------------- MODULE WorkspaceLock ---------------------------
(***************************************************************************)
(* _AsyncRWLock of workspace_locks.py: the writer-preferring lock every run *)
(* and every maintenance job of a workspace goes through.                  *)
(*                                                                         *)
(* The condition's own mutex is released before each suspension, so no     *)
(* task is ever suspended while it holds it and acquiring it never blocks: *)
(* one action is one whole stretch under the mutex.  What remains of       *)
(* asyncio is the order of wake-ups, first notified first run, and that a  *)
(* cancellation can still reach a task that was notified and not yet run.  *)
(***************************************************************************)
EXTENDS Naturals, Sequences, FiniteSets, SequencesExt

CONSTANTS
    ReadTasks,   \* tasks that acquire the lock to read, once each
    WriteTasks,  \* tasks that acquire it to write, once each
    MaxCancels   \* bound: tasks cancelled while they wait

ASSUME WorkspaceLockAssumption ==
    /\ IsFiniteSet(ReadTasks) /\ IsFiniteSet(WriteTasks)
    /\ ReadTasks \cap WriteTasks = {}
    /\ MaxCancels \in Nat

VARIABLES
    readers,        \* _readers
    writer,         \* _writer
    waitingWriters, \* _waiting_writers
    waiters,        \* tasks waiting on the condition, in the order they came
    ready,          \* tasks the event loop will resume, in that order
    hit,            \* tasks with a cancellation under way
    pc              \* task -> its progress

vars == <<readers, writer, waitingWriters, waiters, ready, hit, pc>>

Tasks == ReadTasks \cup WriteTasks
Places == {"idle", "waiting", "in", "done", "cancelled"}

Init ==
    /\ readers = 0
    /\ writer = FALSE
    /\ waitingWriters = 0
    /\ waiters = <<>>
    /\ ready = <<>>
    /\ hit = {}
    /\ pc = [t \in Tasks |-> "idle"]

CanRead == ~writer /\ waitingWriters = 0

CanWrite == ~writer /\ readers = 0

-----------------------------------------------------------------------------
Suspend(t) ==
    /\ pc' = [pc EXCEPT ![t] = "waiting"]
    /\ waiters' = Append(waiters, t)

\* acquire_read from its call, or from a wake-up of wait_for.
Read(t) ==
    \/ /\ CanRead
       /\ readers' = readers + 1
       /\ pc' = [pc EXCEPT ![t] = "in"]
       /\ UNCHANGED waiters
    \/ /\ ~CanRead
       /\ Suspend(t)
       /\ UNCHANGED readers

\* acquire_write once it is counted as waiting: others is the count without it.
Write(t, others) ==
    \/ /\ CanWrite
       /\ writer' = TRUE
       /\ waitingWriters' = others
       /\ pc' = [pc EXCEPT ![t] = "in"]
       /\ UNCHANGED waiters
    \/ /\ ~CanWrite
       /\ waitingWriters' = others + 1
       /\ Suspend(t)
       /\ UNCHANGED writer

AcquireRead(t) ==
    /\ t \in ReadTasks
    /\ pc[t] = "idle"
    /\ Read(t)
    /\ UNCHANGED <<writer, waitingWriters, ready, hit>>

AcquireWrite(t) ==
    /\ t \in WriteTasks
    /\ pc[t] = "idle"
    /\ Write(t, waitingWriters)
    /\ UNCHANGED <<readers, ready, hit>>

\* The event loop resumes the next notified task, which looks again.
Resume(t) ==
    /\ ready # <<>>
    /\ t = Head(ready)
    /\ t \notin hit
    /\ ready' = Tail(ready)
    /\ \/ t \in ReadTasks /\ Read(t) /\ UNCHANGED <<writer, waitingWriters>>
       \/ t \in WriteTasks /\ Write(t, waitingWriters - 1) /\ UNCHANGED readers
    /\ UNCHANGED hit

\* Fault: a cancelled writer stays counted as waiting.
AbandonCounted(t) ==
    /\ ready # <<>>
    /\ t = Head(ready)
    /\ t \in hit
    /\ ready' = Tail(ready)
    /\ pc' = [pc EXCEPT ![t] = "cancelled"]
    /\ UNCHANGED <<readers, writer, waitingWriters, waiters, hit>>

\* The cancelled task leaves: a writer takes itself off the count, and nobody
\* is notified that the count changed.
Abandon(t) ==
    /\ ready # <<>>
    /\ t = Head(ready)
    /\ t \in hit
    /\ ready' = Tail(ready)
    /\ waitingWriters' = IF t \in WriteTasks THEN waitingWriters - 1 ELSE waitingWriters
    /\ pc' = [pc EXCEPT ![t] = "cancelled"]
    /\ UNCHANGED <<readers, writer, waiters, hit>>

\* Fault: notify in place of notify_all.
NotifyOne ==
    IF waiters = <<>> THEN UNCHANGED <<waiters, ready>>
    ELSE /\ ready' = Append(ready, Head(waiters))
         /\ waiters' = Tail(waiters)

NotifyAll ==
    /\ ready' = ready \o waiters
    /\ waiters' = <<>>

\* release_read and release_write: never suspended, so never cut short.
Release(t) ==
    /\ pc[t] = "in"
    /\ \/ t \in ReadTasks /\ readers' = readers - 1 /\ UNCHANGED writer
       \/ t \in WriteTasks /\ writer' = FALSE /\ UNCHANGED readers
    /\ NotifyAll
    /\ pc' = [pc EXCEPT ![t] = "done"]
    /\ UNCHANGED <<waitingWriters, hit>>

\* task.cancel: a task that waits is scheduled, a notified one stays so.
Cancel(t) ==
    /\ pc[t] = "waiting"
    /\ t \notin hit
    /\ Cardinality(hit) < MaxCancels
    /\ hit' = hit \cup {t}
    /\ \/ \E i \in 1..Len(waiters) :
             /\ waiters[i] = t
             /\ waiters' = RemoveAt(waiters, i)
             /\ ready' = Append(ready, t)
       \/ /\ \A i \in 1..Len(waiters) : waiters[i] # t
          /\ UNCHANGED <<waiters, ready>>
    /\ UNCHANGED <<readers, writer, waitingWriters, pc>>

Next ==
    \E t \in Tasks : \/ AcquireRead(t) \/ AcquireWrite(t) \/ Resume(t) \/ Abandon(t)
                     \/ Release(t) \/ Cancel(t)

Spec == Init /\ [][Next]_vars

\* The loop runs what is ready and who holds the lock gives it back.
Fairness == \A t \in Tasks : WF_vars(Resume(t) \/ Abandon(t)) /\ WF_vars(Release(t))

FairSpec == Spec /\ Fairness

-----------------------------------------------------------------------------
In(S) == {t \in S : pc[t] = "in"}
Waiting(S) == {t \in S : pc[t] = "waiting"}

TypeOK ==
    /\ readers \in 0..Cardinality(ReadTasks)
    /\ writer \in BOOLEAN
    /\ waitingWriters \in 0..Cardinality(WriteTasks)
    /\ waiters \in Seq(Tasks)
    /\ ready \in Seq(Tasks)
    /\ hit \subseteq Tasks
    /\ pc \in [Tasks -> Places]

\* A workspace that is written is used by nobody else, also when waiting tasks
\* are cancelled ("write waits" in test_workspace_locking.py).
WriterAlone == \A w \in In(WriteTasks) : In(Tasks) = {w}

\* The counters of the lock are those of the tasks, whatever was cancelled: a
\* counter that drifted would lock the workspace for good.
CountersAgree ==
    /\ readers = Cardinality(In(ReadTasks))
    /\ writer <=> In(WriteTasks) # {}
    /\ waitingWriters = Cardinality(Waiting(WriteTasks))

\* What the lock promises at every moment, over any order of cancellations.
LockSafe == TypeOK /\ WriterAlone /\ CountersAgree

\* Whoever waits is served or cancelled, and everybody is in the end: a writer
\* also when other tasks are cancelled; a reader as long as no writer is, since
\* the writer it gave way to leaves without a notification, see Abandon.  (A
\* task waits in one stretch only, so that nobody waits any more says it for
\* each of them.)
EveryWaiterServed ==
    <>[](/\ Waiting(WriteTasks) = {}
         /\ Waiting(ReadTasks) = {} \/ hit \cap WriteTasks # {})

-----------------------------------------------------------------------------
\* Why the lock is safe: a task that waits is in one place of one queue, so
\* that a wake-up or a cancellation changes the counters for it once.
QueuesSound ==
    /\ \A i, k \in 1..Len(waiters) : waiters[i] = waiters[k] => i = k
    /\ \A i, k \in 1..Len(ready) : ready[i] = ready[k] => i = k
    /\ \A i \in 1..Len(waiters), k \in 1..Len(ready) : waiters[i] # ready[k]
    /\ \A i \in 1..Len(waiters) : pc[waiters[i]] = "waiting"
    /\ \A k \in 1..Len(ready) : pc[ready[k]] = "waiting"

LockInv == TypeOK /\ QueuesSound /\ CountersAgree /\ WriterAlone
=============================================================================
