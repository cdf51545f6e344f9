--------------------------- MODULE SchedulerProofs ---------------------------
(***************************************************************************)
(* Proofs about Scheduler for any set of runs, any finite pool of workers  *)
(* and any queue capacity, with identifiers submitted again as soon as     *)
(* submit allows it.  What that costs is in the statements themselves: a   *)
(* cancellation may miss a generation submitted over a living one, and     *)
(* only that.                                                              *)
(***************************************************************************)
EXTENDS Scheduler, FiniteSetTheorems, TLAPS

\* The pool is finite, so shutdown knows how many STOP marks to put.
LEMMA WorkerCount == Cardinality(Workers) \in Nat
BY SchedulerAssumption, FS_CardinalityType

\* A STOP mark is not a job.
LEMMA StopIsNoJob == STOP \notin Job /\ NoJob \notin Job
<1>1. SUFFICES ASSUME <<>> \in Runs \X (1..MaxGen) PROVE FALSE
  BY DEF STOP, NoJob, Job
<1>2. PICK a \in Runs, b \in 1..MaxGen : <<>> = <<a, b>>
  BY <1>1
<1> QED BY <1>2

\* A pair of an identifier and a generation is a job, and a job is one.
LEMMA JobShape ==
    /\ \A r \in Runs, g \in 1..MaxGen : <<r, g>> \in Job
    /\ \A j \in Job : j[1] \in Runs /\ j[2] \in 1..MaxGen /\ j = <<j[1], j[2]>>
BY DEF Job

\* Appending keeps every member and adds one.
LEMMA AppendMembers ==
    ASSUME NEW S, NEW q \in Seq(S), NEW x \in S
    PROVE  /\ Append(q, x) \in Seq(S)
           /\ Len(Append(q, x)) = Len(q) + 1
           /\ \A i \in 1..Len(q) : Append(q, x)[i] = q[i]
           /\ Append(q, x)[Len(q) + 1] = x
OBVIOUS

\* Taking the head shifts the others.
LEMMA TailMembers ==
    ASSUME NEW S, NEW q \in Seq(S), q # <<>>
    PROVE  /\ Tail(q) \in Seq(S)
           /\ Len(q) \in Nat \ {0}
           /\ Len(Tail(q)) = Len(q) - 1
           /\ \A i \in 1..Len(Tail(q)) : Tail(q)[i] = q[i + 1]
           /\ Head(q) = q[1]
           /\ Head(q) \in S
OBVIOUS

\* An update at any point, inside the domain or not, keeps a function's type.
LEMMA Update ==
    ASSUME NEW S, NEW T, NEW f \in [S -> T], NEW x, NEW v \in T
    PROVE  [f EXCEPT ![x] = v] \in [S -> T]
OBVIOUS

-----------------------------------------------------------------------------
\* An empty scheduler is well typed.
LEMMA TypeInit == Init => TypeOK
<1> SUFFICES ASSUME Init PROVE TypeOK
  OBVIOUS
<1>1. queue \in Seq(Mark) /\ Len(queue) =< QueueCapacity
  BY SchedulerAssumption DEF Init
<1>2. 0 \in 0..MaxGen /\ 0 \in 0..MaxSessions /\ 0 \in 0..Cardinality(Workers)
  BY WorkerCount, SchedulerAssumption
<1> QED BY <1>1, <1>2 DEF Init, TypeOK, Terminal

\* Every variable keeps its type across every step of the scheduler.
LEMMA TypeNext == TypeOK /\ [Next]_vars => TypeOK'
<1> SUFFICES ASSUME TypeOK, [Next]_vars PROVE TypeOK'
  OBVIOUS
<1> USE SchedulerAssumption, WorkerCount DEF TypeOK, Mark, Terminal
<1>1. CASE Start
  BY <1>1 DEF Start, mapVars, jobVars
<1>2. ASSUME NEW r \in Runs, Submit(r) PROVE TypeOK'
  <2> DEFINE g == gen[r] + 1
  <2>0. g \in 1..MaxGen
    BY <1>2 DEF Submit
  <2>1. gen[r] + 1 \in 0..MaxGen /\ <<r, gen[r] + 1>> \in Job
    BY <2>0, JobShape
  <2>2. queue' \in Seq(Mark) /\ Len(queue') =< QueueCapacity
    BY <1>2, <2>1, AppendMembers DEF Submit
  <2> QED BY <1>2, <2>1, <2>2 DEF Submit, poolVars, lifeVars
<1>3. ASSUME NEW r \in Runs, Cancel(r) PROVE TypeOK'
  <2>1. gen[r] \in 1..MaxGen /\ Latest(r) \in Job
    BY <1>3, JobShape DEF Cancel, Latest
  <2>2. running[r] # 0 => <<r, running[r]>> \in Job
    BY JobShape
  <2> QED BY <1>3, <2>1, <2>2 DEF Cancel, CancelTask, Settle, poolVars, lifeVars
<1>4. ASSUME NEW w \in Workers, TakeStop(w) PROVE TypeOK'
  <2>1. queue' \in Seq(Mark) /\ Len(queue') =< QueueCapacity
    BY <1>4, TailMembers DEF TakeStop
  <2> QED BY <1>4, <2>1 DEF TakeStop, mapVars, jobVars, lifeVars
<1>5. ASSUME NEW w \in Workers, TakeCancelled(w) PROVE TypeOK'
  <2>1. queue' \in Seq(Mark) /\ Len(queue') =< QueueCapacity /\ Head(queue) \in Job
    BY <1>5, TailMembers DEF TakeCancelled
  <2>2. Head(queue)[1] \in Runs
    BY <2>1, JobShape
  <2> QED BY <1>5, <2>1, <2>2 DEF TakeCancelled, Settle, poolVars, lifeVars
<1>6. ASSUME NEW w \in Workers, TakeJob(w) PROVE TypeOK'
  <2>1. queue' \in Seq(Mark) /\ Len(queue') =< QueueCapacity /\ Head(queue) \in Job
    BY <1>6, TailMembers DEF TakeJob
  <2>2. Head(queue)[1] \in Runs /\ Head(queue)[2] \in 1..MaxGen
    BY <2>1, JobShape
  <2> QED BY <1>6, <2>1, <2>2 DEF TakeJob, lifeVars
<1>7. ASSUME NEW w \in Workers, Collect(w) PROVE TypeOK'
  <2>1. /\ Outcome(held[w]).status \in Terminal
        /\ Outcome(held[w]).future \in {"result", "exception", "cancelled"}
    BY DEF Outcome
  <2>2. status' \in [Runs -> {"none", "queued", "running"} \cup Terminal]
    BY <1>7, <2>1, Update DEF Collect
  <2>3. future' \in [Job -> {"none", "pending", "result", "exception", "cancelled"}]
    BY <1>7, <2>1, Update DEF Collect, Settle
  <2>4. running' \in [Runs -> 0..MaxGen]
    <3>1. 0 \in 0..MaxGen
      OBVIOUS
    <3> QED BY <1>7, <3>1, Update DEF Collect
  <2>5. held' \in [Workers -> Job \cup {NoJob}] /\ worker' \in [Workers -> {"absent", "idle", "busy", "exited"}]
    BY <1>7 DEF Collect
  <2>6. UNCHANGED <<queue, gen, hasty, token, started, hit, task, accepting, pool, closer, stops, sessions>>
    BY <1>7 DEF Collect, lifeVars
  <2> QED BY <2>2, <2>3, <2>4, <2>5, <2>6
<1>8. ASSUME NEW j \in Job, Invoke(j) PROVE TypeOK'
  BY <1>8 DEF Invoke, mapVars, poolVars, lifeVars
<1>9. ASSUME NEW j \in Job, Finish(j) PROVE TypeOK'
  BY <1>9 DEF Finish, mapVars, poolVars, lifeVars
<1>10. ASSUME NEW p \in BOOLEAN, NEW a \in BOOLEAN, Shutdown(p, a) PROVE TypeOK'
  <2>1. token' \in [Job -> BOOLEAN]
    BY <1>10 DEF Shutdown
  <2>2. future' \in [Job -> {"none", "pending", "result", "exception", "cancelled"}]
    <3> DEFINE F(j) == IF j \in {Latest(r) : r \in Pending(p)} /\ future[j] = "pending"
                       THEN "cancelled" ELSE future[j]
    <3>1. future' = [j \in Job |-> F(j)]
      BY <1>10 DEF Shutdown
    <3>2. \A j \in Job : F(j) \in {"none", "pending", "result", "exception", "cancelled"}
      OBVIOUS
    <3> HIDE DEF F
    <3> QED BY <3>1, <3>2
  <2>3. status' \in [Runs -> {"none", "queued", "running"} \cup Terminal]
    BY <1>10 DEF Shutdown
  <2>4. hit' \in [Job -> BOOLEAN]
    BY <1>10 DEF Shutdown
  <2>5. stops' \in 0..Cardinality(Workers) /\ closer' \in {"idle", "joining", "stopping"}
    BY <1>10 DEF Shutdown
  <2> QED BY <1>10, <2>1, <2>2, <2>3, <2>4, <2>5 DEF Shutdown, poolVars
<1>11. CASE Join
  BY <1>11 DEF Join, mapVars, jobVars, poolVars
<1>12. CASE PutStop
  <2>1. queue' \in Seq(Mark) /\ Len(queue') =< QueueCapacity
    BY <1>12, AppendMembers DEF PutStop
  <2> QED BY <1>12, <2>1 DEF PutStop, mapVars, jobVars, poolVars
<1>13. CASE Gather
  BY <1>13 DEF Gather, mapVars, jobVars, poolVars
<1>14. CASE UNCHANGED vars
  BY <1>14 DEF vars, mapVars, jobVars, poolVars, lifeVars
<1> QED
  BY <1>1, <1>2, <1>3, <1>4, <1>5, <1>6, <1>7, <1>8, <1>9, <1>10, <1>11,
     <1>12, <1>13, <1>14 DEF Next, Done

\* The scheduler is well typed in every reachable state.
THEOREM SchedulerTypes == Spec => []TypeOK
<1>1. Init => TypeOK
  BY TypeInit
<1>2. TypeOK /\ [Next]_vars => TypeOK'
  BY TypeNext
<1> QED BY <1>1, <1>2, PTL DEF Spec

-----------------------------------------------------------------------------
\* An empty scheduler satisfies the invariant.
LEMMA InvInit == Init => SchedulerInv
<1> SUFFICES ASSUME Init PROVE SchedulerInv
  OBVIOUS
<1>1. TypeOK
  BY TypeInit
<1>2. \A j \in Job : ~Queued(j) /\ HeldBy(j) = {}
  BY StopIsNoJob DEF Init, Queued, HeldBy
<1>3. QueueDistinct /\ QueueInOrder
  BY DEF Init, QueueDistinct, QueueInOrder
<1>4. TakenInOrder /\ NewestRegistered /\ LiveIsLatest /\ QueuedUntouched
  BY <1>2 DEF Init, TakenInOrder, NewestRegistered, LiveIsLatest, QueuedUntouched, Live
<1>5. HeldByOne /\ FutureGenerationsUntouched /\ EnteredOnce /\ NoWorkerOutsideSession
  BY DEF Init, HeldByOne, FutureGenerationsUntouched, EnteredOnce, NoWorkerOutsideSession
<1>6. RegistrationFaithful /\ LiveWorkCancellable /\ HastyAfterCancel
  BY <1>2 DEF Init, RegistrationFaithful, LiveWorkCancellable, HastyAfterCancel, Live
<1> QED BY <1>1, <1>3, <1>4, <1>5, <1>6 DEF SchedulerInv

\* A submission puts one job into the queue.
LEMMA SubmitMembers ==
    ASSUME TypeOK, NEW r \in Runs, Submit(r)
    PROVE  /\ gen[r] + 1 \in 1..MaxGen
           /\ <<r, gen[r] + 1>> \in Job
           /\ \A j \in Job : Queued(j)' <=> Queued(j) \/ j = <<r, gen[r] + 1>>
<1>1. gen[r] + 1 \in 1..MaxGen
  BY SchedulerAssumption DEF TypeOK, Submit
<1>2. PICK n \in Job : n = <<r, gen[r] + 1>>
  BY <1>1, JobShape
<1>3. /\ Len(queue) \in Nat /\ Len(queue') = Len(queue) + 1
      /\ \A i \in 1..Len(queue) : queue'[i] = queue[i]
      /\ queue'[Len(queue) + 1] = n
  BY <1>2, AppendMembers DEF Submit, TypeOK, Mark
<1>4. \A j \in Job : Queued(j)' <=> Queued(j) \/ j = n
  BY <1>3 DEF Queued
<1> QED BY <1>1, <1>2, <1>4

\* The members of the queue that a submission leaves queued.
LEMMA SubmitQueue ==
    ASSUME TypeOK, QueueDistinct, QueueInOrder, LiveIsLatest, NEW r \in Runs, Submit(r)
    PROVE  /\ gen[r] + 1 \in 1..MaxGen
           /\ <<r, gen[r] + 1>> \in Job
           /\ \A j \in Job : Queued(j)' <=> Queued(j) \/ j = <<r, gen[r] + 1>>
           /\ ~Queued(<<r, gen[r] + 1>>)
           /\ QueueDistinct' /\ QueueInOrder'
<1> DEFINE g == gen[r] + 1
           n == <<r, g>>
<1>1. g \in 1..MaxGen /\ gen[r] \in Nat /\ gen[r] < g
  BY SchedulerAssumption DEF TypeOK, Submit
<1>2. n \in Job /\ n # STOP /\ n[1] = r /\ n[2] = g
  BY <1>1, JobShape, StopIsNoJob
<1>3. /\ queue' = Append(queue, n)
      /\ queue \in Seq(Mark)
      /\ n \in Mark
  BY <1>2 DEF Submit, TypeOK, Mark
<1>4. /\ Len(queue) \in Nat /\ Len(queue') = Len(queue) + 1
      /\ \A i \in 1..Len(queue) : queue'[i] = queue[i]
      /\ queue'[Len(queue) + 1] = n
  BY <1>3, AppendMembers
<1>5. \A i \in 1..Len(queue) : queue[i] # STOP => queue[i] \in Job /\ Queued(queue[i])
  BY <1>3 DEF Mark, Queued
<1>6. \A j \in Job : Queued(j) /\ j[1] = r => j[2] \in Nat /\ j[2] < g
  <2> SUFFICES ASSUME NEW j \in Job, Queued(j), j[1] = r PROVE j[2] \in Nat /\ j[2] < g
    OBVIOUS
  <2>1. j[2] =< gen[r] /\ j[2] \in Nat
    BY JobShape DEF LiveIsLatest, Live
  <2> QED BY <1>1, <2>1
<1> HIDE DEF g, n
<1>7. ~Queued(n)
  BY <1>1, <1>2, <1>6
<1>8. \A j \in Job : Queued(j)' <=> Queued(j) \/ j = n
  BY SubmitMembers DEF g, n
<1>9. QueueDistinct'
  BY <1>4, <1>7 DEF Queued, QueueDistinct
<1>10. QueueInOrder'
  <2> SUFFICES ASSUME NEW i \in 1..Len(queue'), NEW k \in 1..Len(queue'), i < k,
                      queue'[i] # STOP, queue'[k] # STOP, queue'[i][1] = queue'[k][1]
               PROVE  queue'[i][2] < queue'[k][2]
    BY DEF QueueInOrder
  <2>1. i \in 1..Len(queue) /\ queue'[i] = queue[i]
    BY <1>4
  <2>2. CASE k \in 1..Len(queue)
    BY <1>4, <2>1, <2>2 DEF QueueInOrder
  <2>3. CASE k = Len(queue) + 1
    <3>1. queue'[k] = n /\ queue[i] \in Job /\ Queued(queue[i]) /\ queue[i][1] = r
      BY <1>2, <1>4, <1>5, <2>1, <2>3
    <3> QED BY <1>2, <1>6, <2>1, <3>1
  <2> QED BY <1>4, <2>2, <2>3
<1> QED BY <1>1, <1>2, <1>7, <1>8, <1>9, <1>10 DEF g, n

\* The members of the queue after a worker has taken its head: what waits is
\* still in order, and of the head's identifier only newer generations wait.
LEMMA TakeQueue ==
    ASSUME TypeOK, QueueDistinct, QueueInOrder, queue # <<>>, queue' = Tail(queue)
    PROVE  /\ Head(queue) # STOP => Head(queue) \in Job /\ Queued(Head(queue))
           /\ \A j \in Job : Queued(j)' <=> Queued(j) /\ j # Head(queue)
           /\ QueueDistinct' /\ QueueInOrder'
           /\ Head(queue) # STOP =>
                \A j \in Job : Queued(j)' /\ Head(queue)[1] = j[1] => Head(queue)[2] < j[2]
<1>1. /\ queue \in Seq(Mark)
      /\ Len(queue) \in Nat \ {0}
      /\ Len(queue') = Len(queue) - 1
      /\ \A i \in 1..Len(queue') : queue'[i] = queue[i + 1]
      /\ Head(queue) = queue[1]
      /\ Head(queue) \in Mark
  BY TailMembers DEF TypeOK
<1>2. Head(queue) # STOP => Head(queue) \in Job /\ Queued(Head(queue))
  BY <1>1 DEF Mark, Queued
<1>3. ASSUME NEW j \in Job PROVE Queued(j)' <=> Queued(j) /\ j # Head(queue)
  <2>1. j # STOP
    BY StopIsNoJob
  <2>2. Queued(j)' => Queued(j) /\ j # Head(queue)
    BY <1>1, <2>1 DEF Queued, QueueDistinct
  <2>3. ASSUME NEW i \in 1..Len(queue), queue[i] = j, j # Head(queue) PROVE Queued(j)'
    <3>1. i - 1 \in 1..Len(queue') /\ queue'[i - 1] = queue[i]
      BY <1>1, <2>3
    <3> QED BY <3>1, <2>3 DEF Queued
  <2> QED BY <2>2, <2>3 DEF Queued
<1>4. QueueDistinct'
  <2> SUFFICES ASSUME NEW i \in 1..Len(queue'), NEW k \in 1..Len(queue'),
                      queue'[i] = queue'[k], queue'[i] # STOP
               PROVE  i = k
    BY DEF QueueDistinct
  <2>1. i + 1 \in 1..Len(queue) /\ k + 1 \in 1..Len(queue) /\ queue[i + 1] = queue[k + 1]
    BY <1>1
  <2>2. i + 1 = k + 1
    BY <1>1, <2>1 DEF QueueDistinct
  <2> QED BY <2>2
<1>5. QueueInOrder'
  <2> SUFFICES ASSUME NEW i \in 1..Len(queue'), NEW k \in 1..Len(queue'), i < k,
                      queue'[i] # STOP, queue'[k] # STOP, queue'[i][1] = queue'[k][1]
               PROVE  queue'[i][2] < queue'[k][2]
    BY DEF QueueInOrder
  <2>1. /\ i + 1 \in 1..Len(queue) /\ k + 1 \in 1..Len(queue) /\ i + 1 < k + 1
        /\ queue'[i] = queue[i + 1] /\ queue'[k] = queue[k + 1]
    BY <1>1
  <2> QED BY <2>1 DEF QueueInOrder
<1>6. ASSUME Head(queue) # STOP, NEW j \in Job, Queued(j)', Head(queue)[1] = j[1]
      PROVE  Head(queue)[2] < j[2]
  <2>1. PICK i \in 1..Len(queue') : queue'[i] = j
    BY <1>6 DEF Queued
  <2>2. 1 \in 1..Len(queue) /\ i + 1 \in 1..Len(queue) /\ 1 < i + 1 /\ queue[i + 1] = j
    BY <1>1, <2>1
  <2>3. j # STOP
    BY StopIsNoJob
  <2> QED BY <1>1, <1>6, <2>2, <2>3 DEF QueueInOrder
<1> QED BY <1>2, <1>3, <1>4, <1>5, <1>6

\* What a registration says: its generation was submitted and its task taken.
LEMMA RegisteredWasSubmitted ==
    ASSUME SchedulerInv, NEW r \in Runs, running[r] # 0
    PROVE  /\ running[r] \in 1..MaxGen /\ <<r, running[r]>> \in Job
           /\ running[r] =< gen[r] /\ gen[r] \in 1..MaxGen
           /\ r \notin hasty => running[r] = gen[r]
<1>1. running[r] \in 1..MaxGen /\ gen[r] \in 0..MaxGen
  BY SchedulerAssumption DEF SchedulerInv, TypeOK
<1>2. PICK j \in Job : j = <<r, running[r]>>
  BY <1>1, JobShape
<1>3. j[1] = r /\ j[2] = running[r]
  BY <1>2
<1>4. HeldBy(j) # {}
  BY <1>2 DEF SchedulerInv, RegistrationFaithful
<1>5. running[r] =< gen[r] /\ (r \notin hasty => running[r] = gen[r])
  BY <1>3, <1>4 DEF SchedulerInv, LiveIsLatest, Live
<1> QED BY <1>1, <1>2, <1>5

\* cancel and shutdown read `started` of the latest job and cancel the task
\* registered under its identifier: if the latest has started they are one.
LEMMA StartedIsRegistered ==
    ASSUME SchedulerInv, NEW r \in Runs, running[r] # 0, started[Latest(r)]
    PROVE  running[r] = gen[r]
<1>1. running[r] \in Nat /\ gen[r] \in 1..MaxGen /\ running[r] =< gen[r] /\ gen[r] \in Nat
  <2>1. MaxGen \in Nat
    BY SchedulerAssumption
  <2>2. running[r] \in 1..MaxGen /\ gen[r] \in 1..MaxGen /\ running[r] =< gen[r]
    BY RegisteredWasSubmitted
  <2> QED BY <2>1, <2>2
<1>2. PICK j \in Job : j = Latest(r)
  BY <1>1, JobShape DEF Latest
<1>3. j[1] = r /\ j[2] = gen[r] /\ task[j] # "none"
  BY <1>2 DEF Latest, SchedulerInv, EnteredOnce
<1>4. gen[r] =< running[r]
  BY <1>3 DEF SchedulerInv, NewestRegistered
<1> QED BY <1>1, <1>4

\* A step that moves no job and writes none of the maps keeps what is said of
\* the jobs.
LEMMA InvSameJobs ==
    ASSUME SchedulerInv, TypeOK', QueueDistinct', QueueInOrder', NoWorkerOutsideSession',
           \A j \in Job : Queued(j)' <=> Queued(j),
           \A w \in Workers : worker'[w] = "busy" <=> worker[w] = "busy",
           UNCHANGED <<gen, status, running, hasty, token, started, hit, task, held>>
    PROVE  SchedulerInv'
<1>1. \A j \in Job : HeldBy(j)' = HeldBy(j)
  BY DEF HeldBy
<1>2. \A j \in Job : Live(j)' <=> Live(j)
  BY <1>1 DEF Live
<1>3. TakenInOrder' /\ NewestRegistered'
  BY DEF SchedulerInv, TakenInOrder, NewestRegistered
<1>4. LiveIsLatest' /\ QueuedUntouched'
  BY <1>1, <1>2 DEF SchedulerInv, LiveIsLatest, QueuedUntouched
<1>5. HeldByOne'
  BY DEF SchedulerInv, HeldByOne
<1>6. FutureGenerationsUntouched' /\ EnteredOnce'
  BY DEF SchedulerInv, FutureGenerationsUntouched, EnteredOnce
<1>7. RegistrationFaithful'
  BY DEF SchedulerInv, RegistrationFaithful, HeldBy
<1>8. LiveWorkCancellable' /\ HastyAfterCancel'
  BY <1>2 DEF SchedulerInv, LiveWorkCancellable, HastyAfterCancel
<1> QED BY <1>3, <1>4, <1>5, <1>6, <1>7, <1>8 DEF SchedulerInv

\* A new worker pool starts idle and touches no job.
LEMMA InvStart ==
    ASSUME SchedulerInv, TypeOK', Start
    PROVE  SchedulerInv'
<1>1. /\ UNCHANGED <<queue, gen, status, running, hasty, token, started, hit, task, held>>
      /\ \A w \in Workers : worker[w] # "busy" /\ worker'[w] # "busy"
      /\ pool'
  BY DEF Start, mapVars, jobVars, SchedulerInv, NoWorkerOutsideSession
<1>2. QueueDistinct' /\ QueueInOrder' /\ NoWorkerOutsideSession'
  BY <1>1 DEF SchedulerInv, QueueDistinct, QueueInOrder, NoWorkerOutsideSession
<1>3. \A j \in Job : Queued(j)' <=> Queued(j)
  BY <1>1 DEF Queued
<1> QED BY <1>1, <1>2, <1>3, InvSameJobs

\* A worker that takes a STOP mark leaves every job where it was.
LEMMA InvTakeStop ==
    ASSUME SchedulerInv, TypeOK', NEW w \in Workers, TakeStop(w)
    PROVE  SchedulerInv'
<1>1. /\ QueueDistinct' /\ QueueInOrder'
      /\ \A j \in Job : Queued(j)' <=> Queued(j)
  BY TakeQueue, StopIsNoJob DEF SchedulerInv, TakeStop
<1>2. /\ worker[w] = "idle" /\ worker' = [worker EXCEPT ![w] = "exited"]
      /\ UNCHANGED <<gen, status, running, hasty, token, started, hit, task, held, pool, closer>>
  BY DEF TakeStop, mapVars, jobVars, lifeVars
<1>3. \A v \in Workers : worker'[v] = "busy" <=> worker[v] = "busy"
  BY <1>2 DEF SchedulerInv, TypeOK
<1>4. NoWorkerOutsideSession'
  BY <1>2 DEF SchedulerInv, TypeOK, NoWorkerOutsideSession
<1> QED BY <1>1, <1>2, <1>3, <1>4, InvSameJobs

\* Draining, stopping and gathering the workers move no job.
LEMMA InvClose ==
    ASSUME SchedulerInv, TypeOK', Join \/ PutStop \/ Gather
    PROVE  SchedulerInv'
<1>1. UNCHANGED <<gen, status, running, hasty, token, hit, started, task, worker, held, pool>>
  BY DEF Join, PutStop, Gather, mapVars, jobVars, poolVars
<1>2. /\ QueueDistinct' /\ QueueInOrder'
      /\ \A k \in Job : Queued(k)' <=> Queued(k)
  <2>1. CASE Join \/ Gather
    BY <2>1 DEF Join, Gather, Queued, SchedulerInv, QueueDistinct, QueueInOrder
  <2>2. CASE PutStop
    <3>1. /\ queue \in Seq(Mark) /\ STOP \in Mark /\ queue' = Append(queue, STOP)
      BY <2>2 DEF PutStop, SchedulerInv, TypeOK, Mark
    <3>2. /\ Len(queue) \in Nat /\ Len(queue') = Len(queue) + 1
          /\ \A i \in 1..Len(queue) : queue'[i] = queue[i]
          /\ queue'[Len(queue) + 1] = STOP
      BY <3>1, AppendMembers
    <3>3. QueueDistinct' /\ QueueInOrder'
      BY <3>2 DEF SchedulerInv, QueueDistinct, QueueInOrder
    <3>4. \A k \in Job : Queued(k)' <=> Queued(k)
      BY <3>2, StopIsNoJob DEF Queued
    <3> QED BY <3>3, <3>4
  <2> QED BY <2>1, <2>2
<1>3. NoWorkerOutsideSession'
  <2>1. CASE Gather
    BY <1>1, <2>1 DEF Gather, NoWorkerOutsideSession
  <2>2. CASE Join \/ PutStop
    BY <1>1, <2>2 DEF Join, PutStop, NoWorkerOutsideSession
  <2> QED BY <2>1, <2>2
<1> QED BY <1>1, <1>2, <1>3, InvSameJobs

\* A stutter preserves everything.
LEMMA InvStutter ==
    ASSUME SchedulerInv, UNCHANGED vars
    PROVE  SchedulerInv'
<1>1. UNCHANGED <<queue, gen, status, running, hasty, token, started, hit, task, worker, held,
                  pool, closer>>
  BY DEF vars, mapVars, jobVars, poolVars, lifeVars
<1>2. TypeOK'
  BY TypeNext DEF SchedulerInv
<1>3. QueueDistinct' /\ QueueInOrder' /\ NoWorkerOutsideSession'
  BY <1>1 DEF SchedulerInv, QueueDistinct, QueueInOrder, NoWorkerOutsideSession
<1>4. \A j \in Job : Queued(j)' <=> Queued(j)
  BY <1>1 DEF Queued
<1> QED BY <1>1, <1>2, <1>3, <1>4, InvSameJobs

\* A submission queues the newest generation of its identifier; if an older one
\* still lives the identifier is hasty, and was cancelled before.
LEMMA InvSubmit ==
    ASSUME SchedulerInv, TypeOK', NEW r \in Runs, Submit(r)
    PROVE  SchedulerInv'
<1>a. /\ gen[r] + 1 \in 1..MaxGen
      /\ <<r, gen[r] + 1>> \in Job
      /\ \A j \in Job : Queued(j)' <=> Queued(j) \/ j = <<r, gen[r] + 1>>
      /\ QueueDistinct' /\ QueueInOrder'
  BY SubmitQueue DEF SchedulerInv
<1>0. PICK n \in Job : n = <<r, gen[r] + 1>>
  BY <1>a
<1>b. /\ n[1] = r /\ n[2] = gen[r] + 1
      /\ gen' = [gen EXCEPT ![r] = gen[r] + 1]
      /\ status' = [status EXCEPT ![r] = "queued"]
      /\ hasty' = IF \E j \in Job : j[1] = r /\ Live(j) THEN hasty \cup {r} ELSE hasty \ {r}
      /\ gen[r] # 0 => status[r] \in Terminal
      /\ UNCHANGED <<running, token, started, hit, task, worker, held, pool, closer>>
  BY <1>0 DEF Submit, poolVars, lifeVars
<1>c. \A j \in Job : HeldBy(j)' = HeldBy(j)
  BY <1>b DEF HeldBy
<1>d. \A j \in Job : Live(j)' <=> Live(j) \/ j = n
  BY <1>a, <1>0, <1>c DEF Live
<1>e. \A j \in Job : j[1] \in Runs /\ j[2] \in 1..MaxGen /\ j = <<j[1], j[2]>>
  BY JobShape
<1>f. gen[r] \in Nat /\ \A s \in Runs : gen'[s] = IF s = r THEN gen[r] + 1 ELSE gen[s]
  BY <1>b DEF SchedulerInv, TypeOK
<1>g. \A s \in Runs : status'[s] = IF s = r THEN "queued" ELSE status[s]
  BY <1>b DEF SchedulerInv, TypeOK
<1>h. /\ \A s : s # r => (s \in hasty' <=> s \in hasty)
      /\ \A j \in Job : j[1] = r /\ Live(j) => r \in hasty'
  BY <1>b
<1>i. /\ HeldBy(n) = {} /\ task[n] = "none" /\ ~token[n]
      /\ \A j \in Job : j[1] = r /\ (Live(j) \/ task[j] # "none") => j[2] =< gen[r]
  <2>1. task[n] = "none" /\ ~token[n]
    BY <1>b, <1>f DEF SchedulerInv, FutureGenerationsUntouched
  <2>2. ~Live(n)
    BY <1>b, <1>f DEF SchedulerInv, LiveIsLatest
  <2>3. ASSUME NEW j \in Job, j[1] = r, Live(j) \/ task[j] # "none" PROVE j[2] =< gen[r]
    BY <1>e, <1>f, <2>3 DEF SchedulerInv, LiveIsLatest, FutureGenerationsUntouched
  <2> QED BY <2>1, <2>2, <2>3 DEF Live
<1>1. TakenInOrder'
  <2> SUFFICES ASSUME NEW j \in Job, NEW k \in Job, task[j] # "none", Queued(k)', j[1] = k[1]
               PROVE  j[2] < k[2]
    BY <1>b DEF TakenInOrder
  <2>1. CASE k = n
    BY <1>b, <1>e, <1>f, <1>i, <2>1
  <2>2. CASE k # n
    BY <1>a, <1>0, <2>2 DEF SchedulerInv, TakenInOrder
  <2> QED BY <2>1, <2>2
<1>2. NewestRegistered'
  BY <1>b DEF SchedulerInv, NewestRegistered
<1>3. LiveIsLatest'
  <2> SUFFICES ASSUME NEW j \in Job, Live(j)'
               PROVE  j[2] =< gen'[j[1]] /\ (j[1] \notin hasty' => j[2] = gen'[j[1]])
    BY DEF LiveIsLatest
  <2>1. CASE j = n
    BY <1>b, <1>f, <2>1
  <2>2. CASE j # n /\ j[1] = r
    BY <1>d, <1>e, <1>f, <1>h, <1>i, <2>2
  <2>3. CASE j[1] # r
    BY <1>b, <1>d, <1>e, <1>f, <1>h, <2>3 DEF SchedulerInv, LiveIsLatest
  <2> QED BY <2>1, <2>2, <2>3
<1>4. QueuedUntouched'
  BY <1>a, <1>0, <1>b, <1>c, <1>i DEF SchedulerInv, QueuedUntouched
<1>5. HeldByOne' /\ EnteredOnce' /\ NoWorkerOutsideSession'
  BY <1>b DEF SchedulerInv, HeldByOne, EnteredOnce, NoWorkerOutsideSession
<1>6. FutureGenerationsUntouched'
  BY <1>b, <1>e, <1>f DEF SchedulerInv, FutureGenerationsUntouched
<1>7. RegistrationFaithful'
  <2>1. ASSUME NEW v \in Workers, worker[v] = "busy", held[v][1] \notin hasty'
        PROVE  running[held[v][1]] = held[v][2]
    <3>1. held[v] \in Job /\ Live(held[v])
      BY <2>1 DEF SchedulerInv, TypeOK, HeldByOne, Live, HeldBy
    <3>2. held[v][1] # r /\ held[v][1] \notin hasty
      BY <1>h, <2>1, <3>1
    <3> QED BY <2>1, <3>2 DEF SchedulerInv, RegistrationFaithful
  <2> QED BY <1>b, <2>1 DEF SchedulerInv, RegistrationFaithful, HeldBy
<1>8. LiveWorkCancellable'
  <2> SUFFICES ASSUME NEW j \in Job, Live(j)', ~token[j], j[1] \notin hasty'
               PROVE  status'[j[1]] \notin Terminal
    BY <1>b DEF LiveWorkCancellable
  <2>1. CASE j[1] = r
    BY <1>b, <1>g, <2>1 DEF Terminal
  <2>2. CASE j[1] # r
    BY <1>b, <1>d, <1>e, <1>g, <1>h, <2>2 DEF SchedulerInv, LiveWorkCancellable
  <2> QED BY <2>1, <2>2
<1>9. HastyAfterCancel'
  <2> SUFFICES ASSUME NEW s \in hasty'
               PROVE  \E j \in Job : j[1] = s /\ j[2] < gen'[s] /\ token[j]
    BY <1>b DEF HastyAfterCancel
  <2>0. s \in Runs
    BY DEF TypeOK
  <2>1. CASE s \in hasty
    <3>1. PICK j \in Job : j[1] = s /\ j[2] < gen[s] /\ token[j]
      BY <2>1 DEF SchedulerInv, HastyAfterCancel
    <3>2. gen[s] \in 0..MaxGen /\ j[2] \in 1..MaxGen
      BY <1>e, <2>0 DEF SchedulerInv, TypeOK
    <3>4. gen'[s] = gen[s] \/ gen'[s] = gen[s] + 1
      BY <1>f, <2>0
    <3>3. j[2] < gen'[s]
      BY <3>1, <3>2, <3>4
    <3> QED BY <3>1, <3>3
  <2>2. CASE s \notin hasty
    <3>1. PICK j \in Job : s = r /\ j[1] = r /\ Live(j)
      BY <1>b, <2>2
    <3>2. j[2] = gen[r] /\ gen[r] # 0
      BY <1>e, <2>2, <3>1 DEF SchedulerInv, LiveIsLatest
    <3>3. token[j]
      BY <1>b, <2>2, <3>1, <3>2 DEF SchedulerInv, LiveWorkCancellable
    <3>4. j[2] < gen'[s]
      BY <1>f, <2>0, <3>1, <3>2
    <3> QED BY <3>1, <3>3, <3>4
  <2> QED BY <2>1, <2>2
<1> QED BY <1>a, <1>1, <1>2, <1>3, <1>4, <1>5, <1>6, <1>7, <1>8, <1>9 DEF SchedulerInv

\* Dropping a cancelled job makes its identifier terminal and nothing else.
LEMMA InvTakeCancelled ==
    ASSUME SchedulerInv, TypeOK', NEW w \in Workers, TakeCancelled(w)
    PROVE  SchedulerInv'
<1>0. /\ Head(queue) \in Job /\ Queued(Head(queue)) /\ QueueDistinct' /\ QueueInOrder'
      /\ \A j \in Job : Queued(j)' <=> Queued(j) /\ j # Head(queue)
  BY TakeQueue DEF SchedulerInv, TakeCancelled
<1>a. PICK h \in Job : h = Head(queue)
  BY <1>0
<1>b. /\ Queued(h) /\ token[h]
      /\ \A j \in Job : Queued(j)' <=> Queued(j) /\ j # h
      /\ status' = [status EXCEPT ![h[1]] = "cancelled"]
      /\ UNCHANGED <<gen, running, hasty, token, started, hit, task, worker, held, pool, closer>>
  BY <1>0, <1>a DEF TakeCancelled, poolVars, lifeVars
<1>c. \A j \in Job : HeldBy(j)' = HeldBy(j)
  BY <1>b DEF HeldBy
<1>d. \A j \in Job : Live(j)' => Live(j)
  BY <1>b, <1>c DEF Live
<1>1. TakenInOrder' /\ NewestRegistered'
  BY <1>b DEF SchedulerInv, TakenInOrder, NewestRegistered
<1>2. LiveIsLatest'
  BY <1>b, <1>d DEF SchedulerInv, LiveIsLatest
<1>3. QueuedUntouched'
  BY <1>b, <1>c DEF SchedulerInv, QueuedUntouched
<1>4. HeldByOne' /\ EnteredOnce' /\ NoWorkerOutsideSession' /\ FutureGenerationsUntouched'
  BY <1>b DEF SchedulerInv, HeldByOne, EnteredOnce, NoWorkerOutsideSession,
              FutureGenerationsUntouched
<1>5. RegistrationFaithful'
  BY <1>b DEF SchedulerInv, RegistrationFaithful, HeldBy
<1>6. LiveWorkCancellable'
  <2> SUFFICES ASSUME NEW j \in Job, Live(j), ~token[j], j[1] \notin hasty
               PROVE  status'[j[1]] \notin Terminal
    BY <1>b, <1>d DEF LiveWorkCancellable
  <2>1. j[1] # h[1]
    <3> SUFFICES ASSUME j[1] = h[1] PROVE FALSE
      OBVIOUS
    <3>1. j[2] = gen[h[1]] /\ h[2] = gen[h[1]]
      BY <1>b DEF SchedulerInv, LiveIsLatest, Live
    <3>2. j = h
      BY <3>1, JobShape
    <3> QED BY <1>b, <3>2
  <2>2. status'[j[1]] = status[j[1]]
    BY <1>b, <2>1 DEF SchedulerInv, TypeOK
  <2> QED BY <2>2 DEF SchedulerInv, LiveWorkCancellable
<1>7. HastyAfterCancel'
  BY <1>b DEF SchedulerInv, HastyAfterCancel
<1> QED BY <1>0, <1>1, <1>2, <1>3, <1>4, <1>5, <1>6, <1>7 DEF SchedulerInv

\* A live job moves from the queue to the one worker that took it, and is the
\* newest of its identifier ever taken.
LEMMA InvTakeJob ==
    ASSUME SchedulerInv, TypeOK', NEW w \in Workers, TakeJob(w)
    PROVE  SchedulerInv'
<1>0. /\ Head(queue) \in Job /\ Queued(Head(queue)) /\ QueueDistinct' /\ QueueInOrder'
      /\ \A j \in Job : Queued(j)' <=> Queued(j) /\ j # Head(queue)
      /\ \A j \in Job : Queued(j)' /\ Head(queue)[1] = j[1] => Head(queue)[2] < j[2]
  BY TakeQueue DEF SchedulerInv, TakeJob
<1>1a. PICK h \in Job : h = Head(queue)
  BY <1>0
<1>a. /\ Queued(h)
      /\ \A j \in Job : Queued(j)' <=> Queued(j) /\ j # h
      /\ \A j \in Job : Queued(j)' /\ h[1] = j[1] => h[2] < j[2]
  BY <1>0, <1>1a
<1>b. /\ task' = [task EXCEPT ![h] = "ready"]
      /\ running' = [running EXCEPT ![h[1]] = h[2]]
      /\ status' = [status EXCEPT ![h[1]] = "running"]
      /\ worker[w] = "idle" /\ worker' = [worker EXCEPT ![w] = "busy"]
      /\ held' = [held EXCEPT ![w] = h]
      /\ UNCHANGED <<gen, hasty, token, started, hit, pool, closer>>
  BY <1>1a DEF TakeJob, lifeVars
<1>c. /\ h[1] \in Runs /\ h[2] \in 1..MaxGen /\ h = <<h[1], h[2]>> /\ h # NoJob
      /\ \A j \in Job : j[1] \in Runs /\ j[2] \in 1..MaxGen /\ j = <<j[1], j[2]>> /\ j # NoJob
  BY JobShape, StopIsNoJob
<1>d. /\ HeldBy(h) = {} /\ task[h] = "none" /\ Live(h) /\ h[2] =< gen[h[1]]
      /\ h[1] \notin hasty => h[2] = gen[h[1]]
  BY <1>a DEF SchedulerInv, QueuedUntouched, LiveIsLatest, Live
<1>e. held[w] = NoJob
  BY <1>b DEF SchedulerInv, HeldByOne
<1>f. \A v \in Workers : held'[v] = IF v = w THEN h ELSE held[v]
  BY <1>b DEF SchedulerInv, TypeOK
<1>g. (\A j \in Job : j # h => HeldBy(j)' = HeldBy(j)) /\ HeldBy(h)' = {w}
  <2>1. ASSUME NEW j \in Job, j # h PROVE HeldBy(j)' = HeldBy(j)
    <3>1. HeldBy(j)' = {v \in Workers : held'[v] = j} /\ HeldBy(j) = {v \in Workers : held[v] = j}
      BY DEF HeldBy
    <3>2. \A v \in Workers : held'[v] = j <=> held[v] = j
      BY <1>c, <1>e, <1>f, <2>1
    <3> QED BY <3>1, <3>2
  <2>2. HeldBy(h)' = {v \in Workers : held'[v] = h} /\ HeldBy(h) = {v \in Workers : held[v] = h}
    BY DEF HeldBy
  <2>3. \A v \in Workers : held'[v] = h <=> v = w
    BY <1>d, <1>f, <2>2
  <2> QED BY <2>1, <2>2, <2>3
<1>h. \A j \in Job : Live(j)' <=> Live(j)
  BY <1>a, <1>d, <1>g DEF Live
<1>i. \A j \in Job : task'[j] = IF j = h THEN "ready" ELSE task[j]
  BY <1>b DEF SchedulerInv, TypeOK
<1>j. /\ \A s \in Runs : running'[s] = IF s = h[1] THEN h[2] ELSE running[s]
      /\ \A s \in Runs : status'[s] = IF s = h[1] THEN "running" ELSE status[s]
  BY <1>b DEF SchedulerInv, TypeOK
<1>1. TakenInOrder'
  <2> SUFFICES ASSUME NEW j \in Job, NEW k \in Job, task'[j] # "none", Queued(k)', j[1] = k[1]
               PROVE  j[2] < k[2]
    BY DEF TakenInOrder
  <2>1. CASE j = h
    BY <1>a, <2>1
  <2>2. CASE j # h
    BY <1>a, <1>i, <2>2 DEF SchedulerInv, TakenInOrder
  <2> QED BY <2>1, <2>2
<1>2. NewestRegistered'
  <2> SUFFICES ASSUME NEW j \in Job, task'[j] # "none", running'[j[1]] # 0
               PROVE  j[2] =< running'[j[1]]
    BY DEF NewestRegistered
  <2>1. CASE j = h
    BY <1>c, <1>j, <2>1
  <2>2. CASE j # h /\ j[1] = h[1]
    <3>1. j[2] < h[2]
      BY <1>a, <1>i, <2>2 DEF SchedulerInv, TakenInOrder
    <3> QED BY <1>c, <1>j, <2>2, <3>1
  <2>3. CASE j[1] # h[1]
    BY <1>c, <1>i, <1>j, <2>3 DEF SchedulerInv, NewestRegistered
  <2> QED BY <2>1, <2>2, <2>3
<1>3. LiveIsLatest'
  BY <1>b, <1>h DEF SchedulerInv, LiveIsLatest
<1>4. QueuedUntouched'
  BY <1>a, <1>g, <1>i DEF SchedulerInv, QueuedUntouched
<1>5. HeldByOne'
  BY <1>b, <1>c, <1>d, <1>e, <1>f DEF HeldBy, SchedulerInv, TypeOK, HeldByOne
<1>6. FutureGenerationsUntouched'
  <2>1. \A j \in Job : gen[j[1]] < j[2] => j # h
    BY <1>c, <1>d DEF SchedulerInv, TypeOK
  <2> QED BY <1>b, <1>i, <2>1 DEF SchedulerInv, FutureGenerationsUntouched
<1>7. EnteredOnce'
  BY <1>b, <1>d, <1>i DEF SchedulerInv, EnteredOnce
<1>8. NoWorkerOutsideSession'
  BY <1>b DEF SchedulerInv, TypeOK, NoWorkerOutsideSession
<1>9. RegistrationFaithful'
  <2>1. ASSUME NEW r \in Runs, running'[r] # 0 PROVE \E v \in Workers : held'[v] = <<r, running'[r]>>
    <3>1. CASE r = h[1]
      BY <1>c, <1>f, <1>j, <3>1
    <3>2. CASE r # h[1]
      <4>1. running'[r] = running[r] /\ <<r, running[r]>> \in Job
        BY <1>j, <2>1, <3>2, RegisteredWasSubmitted
      <4>2. HeldBy(<<r, running[r]>>) # {}
        BY <2>1, <4>1 DEF SchedulerInv, RegistrationFaithful
      <4>3. PICK v \in Workers : held[v] = <<r, running[r]>>
        BY <4>2 DEF HeldBy
      <4> QED BY <1>e, <1>f, <4>1, <4>3, StopIsNoJob
    <3> QED BY <3>1, <3>2
  <2>2. ASSUME NEW v \in Workers, worker'[v] = "busy", held'[v][1] \notin hasty
        PROVE  running'[held'[v][1]] = held'[v][2]
    <3>1. CASE v = w
      BY <1>c, <1>f, <1>j, <3>1
    <3>2. CASE v # w
      <4>1. worker[v] = "busy" /\ held'[v] = held[v]
        BY <1>b, <1>f, <2>2, <3>2 DEF SchedulerInv, TypeOK
      <4>2. held[v] \in Job /\ HeldBy(held[v]) # {}
        BY <4>1 DEF SchedulerInv, TypeOK, HeldByOne, HeldBy
      <4>3. held[v] # h
        BY <1>d, <4>2
      <4>4. held[v][1] # h[1]
        BY <1>c, <1>d, <2>2, <4>1, <4>2, <4>3 DEF SchedulerInv, LiveIsLatest, Live
      <4> QED BY <1>c, <1>j, <2>2, <4>1, <4>2, <4>4 DEF SchedulerInv, RegistrationFaithful
    <3> QED BY <3>1, <3>2
  <2> QED BY <1>b, <2>1, <2>2 DEF RegistrationFaithful, HeldBy
<1>10. LiveWorkCancellable'
  BY <1>b, <1>c, <1>h, <1>j DEF Terminal, SchedulerInv, LiveWorkCancellable
<1>11. HastyAfterCancel'
  BY <1>b DEF SchedulerInv, HastyAfterCancel
<1> QED BY <1>0, <1>1, <1>2, <1>3, <1>4, <1>5, <1>6, <1>7, <1>8, <1>9, <1>10, <1>11 DEF SchedulerInv

\* A worker that collects a result releases whatever is registered under the
\* identifier of its job: its own registration unless the identifier is hasty.
LEMMA InvCollect ==
    ASSUME SchedulerInv, TypeOK', NEW w \in Workers, Collect(w)
    PROVE  SchedulerInv'
<1>1a. held[w] \in Job
  BY DEF Collect, SchedulerInv, TypeOK, HeldByOne
<1>0. PICK h \in Job : h = held[w]
  BY <1>1a
<1>u. /\ status' = [status EXCEPT ![h[1]] = Outcome(h).status]
      /\ running' = [running EXCEPT ![h[1]] = 0]
      /\ worker[w] = "busy" /\ worker' = [worker EXCEPT ![w] = "idle"]
      /\ held' = [held EXCEPT ![w] = NoJob]
      /\ UNCHANGED <<queue, gen, hasty, token, started, hit, task, pool, closer>>
  BY <1>0 DEF Collect, lifeVars
<1>a. /\ h[1] \in Runs /\ h = <<h[1], h[2]>> /\ h # NoJob
      /\ \A j \in Job : j[1] \in Runs /\ j = <<j[1], j[2]>> /\ j # NoJob
  BY JobShape, StopIsNoJob
<1>b. \A v \in Workers : held'[v] = IF v = w THEN NoJob ELSE held[v]
  BY <1>u DEF SchedulerInv, TypeOK
<1>c. \A v \in Workers : v # w => held[v] # h
  BY <1>0, <1>a DEF SchedulerInv, HeldByOne
<1>d. /\ \A j \in Job : Queued(j)' <=> Queued(j)
      /\ \A j \in Job : j # h => (HeldBy(j)' = HeldBy(j))
      /\ HeldBy(h)' = {} /\ HeldBy(h) # {}
  <2>1. \A j \in Job : Queued(j)' <=> Queued(j)
    BY <1>u DEF Queued
  <2>2. ASSUME NEW j \in Job, j # h PROVE HeldBy(j)' = HeldBy(j)
    <3>1. \A v \in Workers : held'[v] = j <=> held[v] = j
      BY <1>0, <1>a, <1>b, <2>2
    <3> QED BY <3>1 DEF HeldBy
  <2>3. HeldBy(h)' = {} /\ HeldBy(h) # {}
    BY <1>0, <1>a, <1>b, <1>c DEF HeldBy
  <2> QED BY <2>1, <2>2, <2>3
<1>e. \A j \in Job : j[1] = h[1] /\ j[1] \notin hasty /\ Live(j) => j = h
  <2> SUFFICES ASSUME NEW j \in Job, j[1] = h[1], j[1] \notin hasty, Live(j) PROVE j = h
    OBVIOUS
  <2>1. j[2] = gen[h[1]] /\ h[2] = gen[h[1]]
    BY <1>d DEF SchedulerInv, LiveIsLatest, Live
  <2> QED BY <1>a, <2>1
<1>f. ~Queued(h) /\ ~Live(h)'
  BY <1>d DEF SchedulerInv, QueuedUntouched, Live
<1>g. \A j \in Job : Live(j)' => j # h /\ Live(j)
  BY <1>d, <1>f DEF Live
<1>h. \A s \in Runs : running'[s] = IF s = h[1] THEN 0 ELSE running[s]
  BY <1>u DEF SchedulerInv, TypeOK
<1>1. QueueDistinct' /\ QueueInOrder'
  BY <1>u DEF SchedulerInv, QueueDistinct, QueueInOrder
<1>2. TakenInOrder'
  BY <1>u, <1>d DEF SchedulerInv, TakenInOrder
<1>3. NewestRegistered'
  BY <1>u, <1>a, <1>h DEF SchedulerInv, NewestRegistered
<1>4. LiveIsLatest'
  BY <1>u, <1>g DEF SchedulerInv, LiveIsLatest
<1>5. QueuedUntouched'
  BY <1>u, <1>d DEF SchedulerInv, QueuedUntouched
<1>6. HeldByOne'
  BY <1>u, <1>a, <1>b, <1>c DEF SchedulerInv, TypeOK, HeldByOne
<1>7. FutureGenerationsUntouched' /\ EnteredOnce' /\ HastyAfterCancel'
  BY <1>u DEF SchedulerInv, FutureGenerationsUntouched, EnteredOnce, HastyAfterCancel
<1>8. NoWorkerOutsideSession'
  BY <1>u DEF SchedulerInv, TypeOK, NoWorkerOutsideSession
<1>9. RegistrationFaithful'
  <2>1. ASSUME NEW r \in Runs, running'[r] # 0 PROVE \E v \in Workers : held'[v] = <<r, running'[r]>>
    <3>1. r # h[1] /\ running'[r] = running[r]
      BY <1>h, <2>1
    <3>2. PICK v \in Workers : held[v] = <<r, running[r]>>
      BY <2>1, <3>1 DEF SchedulerInv, RegistrationFaithful, HeldBy
    <3>3. v # w
      BY <1>0, <3>1, <3>2
    <3> QED BY <1>b, <3>1, <3>2, <3>3
  <2>2. ASSUME NEW v \in Workers, worker'[v] = "busy", held'[v][1] \notin hasty
        PROVE  running'[held'[v][1]] = held'[v][2]
    <3>1. v # w /\ worker[v] = "busy" /\ held'[v] = held[v]
      BY <1>u, <1>b, <2>2 DEF SchedulerInv, TypeOK
    <3>2. held[v] \in Job /\ held[v] # h /\ Live(held[v])
      BY <1>c, <3>1 DEF SchedulerInv, TypeOK, HeldByOne, Live, HeldBy
    <3>3. held[v][1] \in Runs /\ held[v][1] # h[1]
      BY <1>a, <1>e, <2>2, <3>1, <3>2
    <3> QED BY <1>h, <2>2, <3>1, <3>3 DEF SchedulerInv, RegistrationFaithful
  <2> QED BY <1>u, <2>1, <2>2 DEF RegistrationFaithful, HeldBy
<1>10. LiveWorkCancellable'
  <2>1. ASSUME NEW j \in Job, Live(j)', ~token[j], j[1] \notin hasty PROVE status'[j[1]] \notin Terminal
    <3>1. j # h /\ Live(j)
      BY <1>g, <2>1
    <3>2. j[1] # h[1] /\ j[1] \in Runs
      BY <1>a, <1>e, <2>1, <3>1
    <3> QED BY <1>u, <2>1, <3>1, <3>2 DEF SchedulerInv, TypeOK, LiveWorkCancellable
  <2> QED BY <1>u, <2>1 DEF LiveWorkCancellable
<1> QED BY <1>1, <1>2, <1>3, <1>4, <1>5, <1>6, <1>7, <1>8, <1>9, <1>10 DEF SchedulerInv

\* A step of a task that was taken moves no job.
LEMMA InvTask ==
    ASSUME SchedulerInv, TypeOK', EnteredOnce', NEW j \in Job, task[j] # "none", task'[j] # "none",
           \A k \in Job : k # j => task'[k] = task[k],
           UNCHANGED <<queue, gen, status, running, hasty, token, hit, worker, held, pool, closer>>
    PROVE  SchedulerInv'
<1>1. \A k \in Job : (Queued(k)' <=> Queued(k)) /\ HeldBy(k)' = HeldBy(k)
  BY DEF Queued, HeldBy
<1>2. \A k \in Job : (Live(k)' <=> Live(k)) /\ (task'[k] = "none" <=> task[k] = "none")
  BY <1>1 DEF Live
<1>3. QueueDistinct' /\ QueueInOrder'
  BY DEF SchedulerInv, QueueDistinct, QueueInOrder
<1>4. TakenInOrder' /\ NewestRegistered'
  BY <1>1, <1>2 DEF SchedulerInv, TakenInOrder, NewestRegistered
<1>5. LiveIsLatest' /\ QueuedUntouched'
  BY <1>1, <1>2 DEF SchedulerInv, LiveIsLatest, QueuedUntouched
<1>6. HeldByOne' /\ NoWorkerOutsideSession' /\ HastyAfterCancel'
  BY DEF SchedulerInv, HeldByOne, NoWorkerOutsideSession, HastyAfterCancel
<1>7. FutureGenerationsUntouched'
  BY <1>2 DEF SchedulerInv, FutureGenerationsUntouched
<1>8. RegistrationFaithful'
  BY DEF SchedulerInv, RegistrationFaithful, HeldBy
<1>9. LiveWorkCancellable'
  BY <1>2 DEF SchedulerInv, LiveWorkCancellable
<1> QED BY <1>3, <1>4, <1>5, <1>6, <1>7, <1>8, <1>9 DEF SchedulerInv

\* The first step of a task: EnteredOnce makes its cancelled branch unreachable.
LEMMA InvInvoke ==
    ASSUME SchedulerInv, TypeOK', NEW j \in Job, Invoke(j)
    PROVE  SchedulerInv'
<1>1. /\ task[j] = "ready" /\ ~hit[j]
      /\ task' = [task EXCEPT ![j] = "executing"] /\ started' = [started EXCEPT ![j] = TRUE]
      /\ UNCHANGED <<queue, gen, status, running, hasty, token, hit, worker, held, pool, closer>>
  BY DEF Invoke, SchedulerInv, EnteredOnce, mapVars, poolVars, lifeVars
<1>2. task'[j] = "executing" /\ \A k \in Job : k # j => task'[k] = task[k]
  BY <1>1 DEF SchedulerInv, TypeOK
<1>3. EnteredOnce'
  BY <1>1 DEF SchedulerInv, TypeOK, EnteredOnce
<1> QED BY <1>1, <1>2, <1>3, InvTask

\* The end of an operation changes only its task.
LEMMA InvFinish ==
    ASSUME SchedulerInv, TypeOK', NEW j \in Job, Finish(j)
    PROVE  SchedulerInv'
<1>1. PICK o \in {"returned", "raised", "cancelled"} : task' = [task EXCEPT ![j] = o]
  BY DEF Finish
<1>2. /\ task[j] = "executing"
      /\ UNCHANGED <<queue, gen, status, running, hasty, token, hit, started, worker, held, pool, closer>>
  BY DEF Finish, mapVars, poolVars, lifeVars
<1>3. task'[j] = o /\ \A k \in Job : k # j => task'[k] = task[k]
  BY <1>1 DEF SchedulerInv, TypeOK
<1>4. EnteredOnce'
  BY <1>2, <1>3 DEF SchedulerInv, EnteredOnce
<1> QED BY <1>2, <1>3, <1>4, InvTask

\* A step that moves no job and only sets tokens, hits of started tasks and
\* terminal statuses of identifiers whose latest job it marks.
LEMMA InvMark ==
    ASSUME SchedulerInv, TypeOK', NoWorkerOutsideSession',
           UNCHANGED <<queue, gen, running, hasty, started, task, worker, held>>,
           \A j \in Job : hit'[j] => hit[j] \/ started[j],
           \A j \in Job : token[j] => token'[j],
           \A j \in Job : token'[j] => token[j] \/ (j = Latest(j[1]) /\ gen[j[1]] # 0),
           \A s \in Runs : \/ status'[s] = status[s]
                           \/ \A j \in Job : j = Latest(s) => token'[j]
    PROVE  SchedulerInv'
<1>1. \A k \in Job : (Queued(k)' <=> Queued(k)) /\ HeldBy(k)' = HeldBy(k) /\ (Live(k)' <=> Live(k))
  BY DEF Queued, HeldBy, Live
<1>2. QueueDistinct' /\ QueueInOrder'
  BY DEF SchedulerInv, QueueDistinct, QueueInOrder
<1>3. TakenInOrder' /\ NewestRegistered'
  BY <1>1 DEF SchedulerInv, TakenInOrder, NewestRegistered
<1>4. LiveIsLatest' /\ QueuedUntouched'
  BY <1>1 DEF SchedulerInv, LiveIsLatest, QueuedUntouched
<1>5. HeldByOne'
  BY DEF SchedulerInv, HeldByOne
<1>6. FutureGenerationsUntouched'
  <2> SUFFICES ASSUME NEW j \in Job, gen[j[1]] < j[2] PROVE ~token'[j] /\ task[j] = "none"
    BY DEF FutureGenerationsUntouched
  <2>1. j[1] \in Runs /\ gen[j[1]] \in Nat /\ j[2] \in Nat
    BY JobShape DEF SchedulerInv, TypeOK
  <2>2. j # Latest(j[1])
    BY <2>1 DEF Latest
  <2> QED BY <2>2 DEF SchedulerInv, FutureGenerationsUntouched
<1>7. EnteredOnce'
  BY DEF SchedulerInv, EnteredOnce
<1>8. RegistrationFaithful'
  BY DEF SchedulerInv, RegistrationFaithful, HeldBy
<1>9. LiveWorkCancellable'
  <2> SUFFICES ASSUME NEW j \in Job, Live(j), ~token'[j], j[1] \notin hasty
               PROVE  status'[j[1]] \notin Terminal
    BY <1>1 DEF LiveWorkCancellable
  <2>1. j[1] \in Runs /\ j = Latest(j[1])
    BY JobShape DEF SchedulerInv, LiveIsLatest, Latest
  <2>2. status'[j[1]] = status[j[1]] /\ ~token[j]
    BY <2>1
  <2> QED BY <2>2 DEF SchedulerInv, LiveWorkCancellable
<1>10. HastyAfterCancel'
  BY DEF SchedulerInv, HastyAfterCancel
<1> QED BY <1>2, <1>3, <1>4, <1>5, <1>6, <1>7, <1>8, <1>9, <1>10 DEF SchedulerInv

\* A cancellation sets the token of the latest job of its identifier.
LEMMA InvCancel ==
    ASSUME SchedulerInv, TypeOK', NEW r \in Runs, Cancel(r)
    PROVE  SchedulerInv'
<1>1. gen[r] # 0 /\ gen[r] \in 1..MaxGen /\ Latest(r) \in Job
  BY JobShape, SchedulerAssumption DEF Cancel, Latest, SchedulerInv, TypeOK
<1>2. PICK c \in Job : c = Latest(r)
  BY <1>1
<1>3. /\ c[1] = r
      /\ token' = [token EXCEPT ![c] = TRUE]
      /\ status' = [status EXCEPT ![r] = "cancelled"]
      /\ UNCHANGED <<queue, gen, running, hasty, started, task, worker, held, pool, closer>>
  BY <1>2 DEF Cancel, Latest, poolVars, lifeVars
<1>4. NoWorkerOutsideSession'
  BY <1>3 DEF SchedulerInv, NoWorkerOutsideSession
<1>5. \A j \in Job : hit'[j] => hit[j] \/ started[j]
  <2>1. CASE hit' = hit
    BY <2>1
  <2>2. CASE running[r] # 0 /\ started[c] /\ hit' = [hit EXCEPT ![<<r, running[r]>>] = TRUE]
    <3>1. <<r, running[r]>> = c
      BY <1>2, <2>2, StartedIsRegistered DEF Latest
    <3> QED BY <2>2, <3>1 DEF SchedulerInv, TypeOK
  <2> QED BY <1>2, <2>1, <2>2 DEF Cancel, CancelTask
<1>6. \A j \in Job : token'[j] = (token[j] \/ j = c)
  BY <1>3 DEF SchedulerInv, TypeOK
<1>7. \A s \in Runs : s # r => status'[s] = status[s]
  BY <1>3 DEF SchedulerInv, TypeOK
<1>8. \A j \in Job : token'[j] => token[j] \/ (j = Latest(j[1]) /\ gen[j[1]] # 0)
  BY <1>1, <1>2, <1>3, <1>6
<1>9. \A s \in Runs : status'[s] = status[s] \/ \A j \in Job : j = Latest(s) => token'[j]
  BY <1>2, <1>6, <1>7
<1> QED BY <1>3, <1>4, <1>5, <1>6, <1>8, <1>9, InvMark

\* Shutdown sets the token of exactly the live jobs it makes terminal.
LEMMA InvShutdown ==
    ASSUME SchedulerInv, TypeOK', NEW p \in BOOLEAN, NEW a \in BOOLEAN, Shutdown(p, a)
    PROVE  SchedulerInv'
<1> DEFINE P == Pending(p)
           A == Active(a)
<1>1. /\ token' = [j \in Job |-> token[j] \/ j \in {Latest(r) : r \in P \cup A}]
      /\ status' = [r \in Runs |-> IF r \in P THEN "cancelled" ELSE status[r]]
      /\ hit' = [j \in Job |-> hit[j] \/ \E r \in A : j = <<r, running[r]>> /\ started[Latest(r)]]
      /\ closer' # "idle"
      /\ UNCHANGED <<queue, gen, running, hasty, started, task, worker, held>>
  BY DEF Shutdown, poolVars
<1>2. \A r \in A : r \in Runs /\ running[r] # 0 /\ gen[r] # 0
  <2> SUFFICES ASSUME NEW r \in A PROVE r \in Runs /\ running[r] # 0 /\ gen[r] # 0
    OBVIOUS
  <2>1. r \in Runs /\ running[r] # 0
    BY DEF Active
  <2>2. gen[r] \in 1..MaxGen
    BY <2>1, RegisteredWasSubmitted
  <2> QED BY <2>1, <2>2, SchedulerAssumption
<1>3. \A r \in P : r \in Runs /\ gen[r] # 0
  BY DEF Pending
<1>4. \A j \in Job : hit'[j] => hit[j] \/ started[j]
  <2> SUFFICES ASSUME NEW j \in Job, NEW r \in A, j = <<r, running[r]>>, started[Latest(r)]
               PROVE  started[j]
    BY <1>1
  <2>1. running[r] = gen[r]
    BY <1>2, StartedIsRegistered
  <2> QED BY <2>1 DEF Latest
<1>5. \A j \in Job : token'[j] <=> token[j] \/ \E r \in P \cup A : j = Latest(r)
  BY <1>1
<1>6. \A r \in Runs : status'[r] = IF r \in P THEN "cancelled" ELSE status[r]
  BY <1>1
<1> HIDE DEF P, A
<1>7. \A j \in Job : token'[j] => token[j] \/ (j = Latest(j[1]) /\ gen[j[1]] # 0)
  BY <1>2, <1>3, <1>5 DEF Latest
<1>8. \A s \in Runs : status'[s] = status[s] \/ \A j \in Job : j = Latest(s) => token'[j]
  BY <1>5, <1>6
<1>9. NoWorkerOutsideSession'
  BY <1>1 DEF NoWorkerOutsideSession
<1>10. \A j \in Job : token[j] => token'[j]
  BY <1>5
<1> QED BY <1>1, <1>4, <1>7, <1>8, <1>9, <1>10, InvMark

\* Every step of the scheduler preserves the invariant.
LEMMA InvNext == SchedulerInv /\ [Next]_vars => SchedulerInv'
<1> SUFFICES ASSUME SchedulerInv, [Next]_vars PROVE SchedulerInv'
  OBVIOUS
<1>1. TypeOK'
  BY TypeNext DEF SchedulerInv
<1>2. CASE Start
  BY <1>1, <1>2, InvStart
<1>3. ASSUME NEW r \in Runs, Submit(r) \/ Cancel(r) PROVE SchedulerInv'
  BY <1>1, <1>3, InvSubmit, InvCancel
<1>4. ASSUME NEW w \in Workers, TakeStop(w) \/ TakeCancelled(w) \/ TakeJob(w) \/ Collect(w)
      PROVE  SchedulerInv'
  BY <1>1, <1>4, InvTakeStop, InvTakeCancelled, InvTakeJob, InvCollect
<1>5. ASSUME NEW j \in Job, Invoke(j) \/ Finish(j) PROVE SchedulerInv'
  BY <1>1, <1>5, InvInvoke, InvFinish
<1>6. ASSUME NEW p \in BOOLEAN, NEW a \in BOOLEAN, Shutdown(p, a) PROVE SchedulerInv'
  BY <1>1, <1>6, InvShutdown
<1>7. CASE Join \/ PutStop \/ Gather
  BY <1>1, <1>7, InvClose
<1>8. CASE Done \/ UNCHANGED vars
  BY <1>8, InvStutter DEF Done
<1> QED BY <1>2, <1>3, <1>4, <1>5, <1>6, <1>7, <1>8 DEF Next

-----------------------------------------------------------------------------
\* What _running says is what the workers await, whatever is submitted,
\* cancelled or shut down, except for an identifier that was submitted while an
\* older generation of it lived.
THEOREM RegistrationCorrect == Spec => []RegistrationFaithful
<1>1. SchedulerInv => RegistrationFaithful
  BY DEF SchedulerInv
<1> QED BY InvInit, InvNext, <1>1, PTL DEF Spec

\* With the same exception, which needs an earlier cancellation, a live job
\* nobody has cancelled is never terminal in _statuses, so cancel and shutdown
\* never pass it over.
THEOREM CancellationReaches == Spec => [](LiveWorkCancellable /\ HastyAfterCancel)
<1>1. SchedulerInv => LiveWorkCancellable /\ HastyAfterCancel
  BY DEF SchedulerInv
<1> QED BY InvInit, InvNext, <1>1, PTL DEF Spec

\* No cancellation ends a task before its operation was entered, whichever
\* generation it is of and whatever was submitted over it.
THEOREM EntryGuaranteed == Spec => []OperationAlwaysEntered
<1>1. SchedulerInv => OperationAlwaysEntered
  BY DEF SchedulerInv, EnteredOnce, OperationAlwaysEntered
<1> QED BY InvInit, InvNext, <1>1, PTL DEF Spec

\* All of it together, and the types: what cancel and shutdown rely on.
THEOREM CancellationFindsWork == Spec => []CancelReachesWork
<1>1. SchedulerInv => CancelReachesWork
  BY DEF SchedulerInv, EnteredOnce, OperationAlwaysEntered, CancelReachesWork
<1> QED BY InvInit, InvNext, <1>1, PTL DEF Spec

-----------------------------------------------------------------------------
\* The invariant behind CancelledInQueueNeverRuns holds at the start.
LEMMA WithdrawnInit == Init => WithdrawnIsMarked
BY DEF Init, WithdrawnIsMarked

\* Cancel and Shutdown set the token in the step that settles the future, a
\* dropped job already has its token, and a collected job has a task.
LEMMA WithdrawnNext ==
    ASSUME TypeOK, WithdrawnIsMarked, [Next]_vars
    PROVE  WithdrawnIsMarked'
<1> USE DEF WithdrawnIsMarked
<1>1. CASE Start \/ Join \/ PutStop \/ Gather \/ Done \/ UNCHANGED vars
  BY <1>1 DEF Start, Join, PutStop, Gather, Done, vars, jobVars
<1>2. ASSUME NEW r \in Runs, Submit(r) PROVE WithdrawnIsMarked'
  BY <1>2 DEF Submit, TypeOK
<1>3. ASSUME NEW r \in Runs, Cancel(r) PROVE WithdrawnIsMarked'
  <2>1. /\ token' = [token EXCEPT ![Latest(r)] = TRUE]
        /\ future' = future \/ future' = Settle(future, Latest(r), "cancelled")
        /\ task' = task
    BY <1>3 DEF Cancel
  <2> QED BY <2>1 DEF Settle, TypeOK
<1>4. ASSUME NEW w \in Workers, TakeStop(w) PROVE WithdrawnIsMarked'
  BY <1>4 DEF TakeStop, jobVars
<1>5. ASSUME NEW w \in Workers, TakeCancelled(w) PROVE WithdrawnIsMarked'
  BY <1>5 DEF TakeCancelled, Settle, TypeOK
<1>6. ASSUME NEW w \in Workers, TakeJob(w) PROVE WithdrawnIsMarked'
  <2>1. UNCHANGED <<future, token>> /\ task' = [task EXCEPT ![Head(queue)] = "ready"]
    BY <1>6 DEF TakeJob
  <2>2. \A j \in Job : task'[j] = "none" => task[j] = "none"
    BY <2>1 DEF TypeOK
  <2> QED BY <2>1, <2>2
<1>7. ASSUME NEW w \in Workers, Collect(w) PROVE WithdrawnIsMarked'
  <2>1. /\ task[held[w]] # "none" /\ UNCHANGED <<token, task>>
        /\ future' = Settle(future, held[w], Outcome(held[w]).future)
    BY <1>7 DEF Collect
  <2>2. \A j \in Job : task[j] = "none" => future'[j] = future[j]
    BY <2>1 DEF Settle, TypeOK
  <2> QED BY <2>1, <2>2
<1>8. ASSUME NEW j \in Job, Invoke(j) \/ Finish(j) PROVE WithdrawnIsMarked'
  <2>1. UNCHANGED <<future, token>> /\ \A k \in Job : task'[k] = "none" => task[k] = "none"
    BY <1>8 DEF Invoke, Finish, TypeOK
  <2> QED BY <2>1
<1>9. ASSUME NEW p \in BOOLEAN, NEW a \in BOOLEAN, Shutdown(p, a) PROVE WithdrawnIsMarked'
  <2> DEFINE S == {Latest(r) : r \in Pending(p)}
  <2>1. /\ task' = task
        /\ token' = [j \in Job |-> token[j] \/ j \in {Latest(r) : r \in Pending(p) \cup Active(a)}]
        /\ future' = [j \in Job |-> IF j \in S /\ future[j] = "pending" THEN "cancelled" ELSE future[j]]
    BY <1>9 DEF Shutdown
  <2>2. \A j \in Job : (token[j] \/ j \in S) => token'[j]
    BY <2>1
  <2>3. \A j \in Job : future'[j] = "cancelled" => (j \in S \/ future[j] = "cancelled")
    BY <2>1
  <2> QED BY <2>1, <2>2, <2>3
<1> QED BY <1>1, <1>2, <1>3, <1>4, <1>5, <1>6, <1>7, <1>8, <1>9 DEF Next

\* Only TakeJob gives a job a task, and only when its token is not set.
LEMMA MarkedIsNotTaken ==
    ASSUME TypeOK, WithdrawnIsMarked, [Next]_vars, NEW j \in Job,
           future[j] = "cancelled", task[j] = "none"
    PROVE  task'[j] = "none"
<1>0. token[j]
  BY DEF WithdrawnIsMarked
<1>1. ASSUME NEW w \in Workers, TakeJob(w) PROVE task'[j] = "none"
  <2>1. task' = [task EXCEPT ![Head(queue)] = "ready"] /\ ~token[Head(queue)]
    BY <1>1 DEF TakeJob
  <2> QED BY <1>0, <2>1 DEF TypeOK
<1>2. ASSUME NEW k \in Job, Invoke(k) \/ Finish(k) PROVE task'[j] = "none"
  BY <1>2 DEF Invoke, Finish, TypeOK
<1>3. ASSUME NEW r \in Runs, Submit(r) \/ Cancel(r) PROVE task' = task
  BY <1>3 DEF Submit, Cancel
<1>4. ASSUME NEW w \in Workers, TakeStop(w) \/ TakeCancelled(w) \/ Collect(w) PROVE task' = task
  BY <1>4 DEF TakeStop, TakeCancelled, Collect, jobVars
<1>5. ASSUME NEW p \in BOOLEAN, NEW a \in BOOLEAN, Shutdown(p, a) PROVE task' = task
  BY <1>5 DEF Shutdown
<1>6. CASE Start \/ Join \/ PutStop \/ Gather \/ Done \/ UNCHANGED vars
  BY <1>6 DEF Start, Join, PutStop, Gather, Done, vars, jobVars
<1> QED BY <1>1, <1>2, <1>3, <1>4, <1>5, <1>6 DEF Next

\* A submitter that was told its queued job is cancelled never sees it run,
\* even when identifiers are reused before they have drained.
THEOREM WithdrawnNeverRuns == Spec => CancelledInQueueNeverRuns
<1>1. Init => TypeOK /\ WithdrawnIsMarked
  BY TypeInit, WithdrawnInit
<1>2. TypeOK /\ WithdrawnIsMarked /\ [Next]_vars => (TypeOK /\ WithdrawnIsMarked)'
  BY TypeNext, WithdrawnNext
<1>3. ASSUME TypeOK, WithdrawnIsMarked, [Next]_vars
      PROVE  [\A j \in Job : future[j] = "cancelled" /\ task[j] = "none" => task'[j] = "none"]_vars
  BY <1>3, MarkedIsNotTaken
<1>4. TypeOK /\ WithdrawnIsMarked /\ [Next]_vars =>
      [\A j \in Job : future[j] = "cancelled" /\ task[j] = "none" => task'[j] = "none"]_vars
  BY <1>3
<1> QED BY <1>1, <1>2, <1>4, PTL DEF Spec, CancelledInQueueNeverRuns

-----------------------------------------------------------------------------
\* The facts about counting workers and reading the queue that the shutdown
\* argument uses.
LEMMA ExitedCount ==
    /\ IsFiniteSet(Exited)
    /\ Cardinality(Exited) \in Nat
    /\ Exited = {} => Cardinality(Exited) = 0
    /\ Cardinality(Exited) = Cardinality(Workers) => Exited = Workers
<1>1. Exited \subseteq Workers
  BY DEF Exited
<1>2. IsFiniteSet(Exited) /\ Cardinality(Exited) \in Nat
  BY <1>1, SchedulerAssumption, FS_Subset, FS_CardinalityType
<1>3. Exited = {} => Cardinality(Exited) = 0
  BY FS_EmptySet
<1>4. Cardinality(Exited) = Cardinality(Workers) => Exited = Workers
  BY <1>1, SchedulerAssumption, FS_Subset
<1> QED BY <1>2, <1>3, <1>4

\* One more worker that returns is one more in the count.
LEMMA OneMoreExit ==
    ASSUME TypeOK, NEW w \in Workers, worker[w] # "exited",
           worker' = [worker EXCEPT ![w] = "exited"]
    PROVE  Cardinality(Exited') = Cardinality(Exited) + 1
<1>1. Exited' = Exited \cup {w} /\ w \notin Exited
  BY DEF TypeOK, Exited
<1>2. IsFiniteSet(Exited)
  BY ExitedCount
<1> QED BY <1>1, <1>2, FS_AddElement

\* What is left in the queue when its head is taken, without any assumption
\* on duplicates: every job but the head is still there.
LEMMA TakenHead ==
    ASSUME TypeOK, queue # <<>>, queue' = Tail(queue)
    PROVE  /\ Len(queue) \in Nat \ {0} /\ Len(queue') = Len(queue) - 1
           /\ \A i \in 1..Len(queue') : queue'[i] = queue[i + 1]
           /\ Head(queue) = queue[1]
           /\ Head(queue) # STOP => Head(queue) \in Job
           /\ \A j \in Job : Queued(j) => Queued(j)' \/ j = Head(queue)
<1>1. /\ queue \in Seq(Mark)
      /\ Len(queue) \in Nat \ {0}
      /\ Len(queue') = Len(queue) - 1
      /\ \A i \in 1..Len(queue') : queue'[i] = queue[i + 1]
      /\ Head(queue) = queue[1]
      /\ Head(queue) \in Mark
  BY TailMembers DEF TypeOK
<1>2. ASSUME NEW j \in Job, NEW i \in 1..Len(queue), queue[i] = j, j # Head(queue)
      PROVE  Queued(j)'
  <2>1. i - 1 \in 1..Len(queue') /\ queue'[i - 1] = queue[i]
    BY <1>1, <1>2
  <2> QED BY <2>1, <1>2 DEF Queued
<1>3. \A j \in Job : Queued(j) => Queued(j)' \/ j = Head(queue)
  BY <1>2 DEF Queued
<1> QED BY <1>1, <1>3 DEF Mark

\* The marks that follow the first k members follow the first k - 1 when a job
\* is taken from the front, and make up the queue when a mark is.
LEMMA TakenMarks ==
    ASSUME TypeOK, queue # <<>>, queue' = Tail(queue), NEW k \in Nat, MarksAfter(k)
    PROVE  /\ Head(queue) # STOP => k > 0 /\ MarksAfter(k - 1)'
           /\ Head(queue) = STOP => k = 0 /\ MarksAfter(0)'
<1>1. /\ Len(queue) \in Nat \ {0} /\ Len(queue') = Len(queue) - 1
      /\ \A i \in 1..Len(queue') : queue'[i] = queue[i + 1]
      /\ Head(queue) = queue[1]
  BY TakenHead
<1>2. /\ k \in 0..Len(queue)
      /\ \A i \in 1..Len(queue) : queue[i] = STOP <=> i > k
  BY DEF MarksAfter
<1>3. Head(queue) = STOP <=> 1 > k
  BY <1>1, <1>2
<1>4. ASSUME NEW i \in 1..Len(queue') PROVE queue'[i] = STOP <=> i + 1 > k
  BY <1>1, <1>2
<1>5. CASE Head(queue) # STOP
  <2>1. k - 1 \in 0..Len(queue')
    BY <1>1, <1>2, <1>3, <1>5
  <2>2. \A i \in 1..Len(queue') : queue'[i] = STOP <=> i > k - 1
    BY <1>1, <1>4
  <2> QED BY <1>2, <1>3, <1>5, <2>1, <2>2 DEF MarksAfter
<1>6. CASE Head(queue) = STOP
  <2>1. k = 0
    BY <1>2, <1>3, <1>6
  <2>2. \A i \in 1..Len(queue') : queue'[i] = STOP <=> i > 0
    BY <1>1, <1>4, <2>1
  <2> QED BY <1>1, <1>6, <2>1, <2>2 DEF MarksAfter
<1> QED BY <1>5, <1>6

-----------------------------------------------------------------------------
\* The invariant of the shutdown holds at the start.
LEMMA ShutdownInit == Init => ShutdownInv
<1> SUFFICES ASSUME Init PROVE ShutdownInv
  OBVIOUS
<1>1. TypeOK
  BY TypeInit
<1>2. SessionShape
  BY DEF Init, SessionShape
<1>3. PendingIsLive /\ HeldIsBusy /\ ShutdownLeavesNothing
  BY DEF Init, PendingIsLive, HeldIsBusy, ShutdownLeavesNothing
<1> QED BY <1>1, <1>2, <1>3 DEF ShutdownInv

\* A new pool finds the queue its predecessor has emptied.
LEMMA ShutdownStart ==
    ASSUME ShutdownInv, TypeOK', Start
    PROVE  ShutdownInv'
<1>u. /\ ~pool /\ closer = "idle" /\ closer' = "idle" /\ pool'
      /\ worker' = [w \in Workers |-> "idle"]
      /\ UNCHANGED <<queue, future, task, held>>
  BY DEF Start, jobVars
<1>a. queue = <<>> /\ Len(queue) = 0
  BY <1>u DEF ShutdownInv, ShutdownLeavesNothing
<1>1. SessionShape'
  <2>1. MarksAfter(Len(queue))' /\ Exited' = {}
    BY <1>u, <1>a DEF MarksAfter, Exited
  <2> QED BY <1>u, <2>1 DEF SessionShape
<1>b. \A w \in Workers : held[w] = NoJob
  BY <1>u DEF ShutdownInv, HeldIsBusy, ShutdownLeavesNothing
<1>2. HeldIsBusy'
  BY <1>u, <1>b DEF HeldIsBusy
<1>3. PendingIsLive'
  BY <1>u DEF ShutdownInv, ShutdownLeavesNothing, PendingIsLive
<1>4. ShutdownLeavesNothing'
  BY <1>u DEF ShutdownLeavesNothing
<1> QED BY <1>1, <1>2, <1>3, <1>4 DEF ShutdownInv

\* A submission finds the pool open and puts a job, not a mark.
LEMMA ShutdownSubmit ==
    ASSUME ShutdownInv, TypeOK', NEW r \in Runs, Submit(r)
    PROVE  ShutdownInv'
<1>0. PICK n \in Job : n = <<r, gen[r] + 1>>
  BY SubmitMembers DEF ShutdownInv
<1>q. \A j \in Job : Queued(j)' <=> Queued(j) \/ j = n
  BY <1>0, SubmitMembers DEF ShutdownInv
<1>u. /\ accepting /\ queue' = Append(queue, n)
      /\ future' = [future EXCEPT ![n] = "pending"]
      /\ UNCHANGED <<task, worker, held, accepting, pool, closer, stops>>
      /\ \A j \in Job : HeldBy(j)' = HeldBy(j)
  BY <1>0 DEF Submit, HeldBy, poolVars, lifeVars
<1>p. pool /\ closer = "idle" /\ MarksAfter(Len(queue)) /\ Exited = {}
  BY <1>u DEF ShutdownInv, SessionShape
<1>m. /\ Len(queue) \in Nat /\ Len(queue') = Len(queue) + 1
      /\ \A i \in 1..Len(queue) : queue'[i] = queue[i]
      /\ queue'[Len(queue) + 1] = n
  <2>1. queue \in Seq(Mark) /\ n \in Mark
    BY DEF ShutdownInv, TypeOK, Mark
  <2> QED BY <1>u, <2>1, AppendMembers
<1>1. MarksAfter(Len(queue))'
  BY <1>p, <1>m, StopIsNoJob DEF MarksAfter
<1>2. SessionShape'
  BY <1>u, <1>p, <1>1 DEF ShutdownInv, SessionShape, Exited
<1>3. PendingIsLive'
  BY <1>u, <1>q DEF ShutdownInv, TypeOK, PendingIsLive
<1>4. HeldIsBusy' /\ ShutdownLeavesNothing'
  BY <1>u, <1>p DEF ShutdownInv, HeldIsBusy, ShutdownLeavesNothing
<1> QED BY <1>2, <1>3, <1>4 DEF ShutdownInv

\* The shape of a session across a step that takes a job from the queue and
\* makes no worker return.
LEMMA ShapeTaken ==
    ASSUME ShutdownInv, queue # <<>>, queue' = Tail(queue), Head(queue) # STOP,
           Exited' = Exited, UNCHANGED <<accepting, pool, closer, stops>>,
           \A w \in Workers : worker[w] # "absent" => worker'[w] # "absent"
    PROVE  SessionShape'
<1>0. TypeOK /\ SessionShape
  BY DEF ShutdownInv
<1>a. Len(queue) \in Nat \ {0} /\ Len(queue') = Len(queue) - 1
  BY <1>0, TakenHead
<1>1. ASSUME pool \/ closer = "joining" PROVE MarksAfter(Len(queue))' /\ Exited' = {}
  <2>1. MarksAfter(Len(queue)) /\ Exited = {}
    BY <1>0, <1>1 DEF SessionShape
  <2>2. Len(queue) \in Nat /\ Len(queue)' = Len(queue) - 1
    BY <1>a
  <2>3. \A k \in Nat : MarksAfter(k) => MarksAfter(k - 1)'
    BY <1>0, TakenMarks
  <2> QED BY <2>1, <2>2, <2>3
<1>2. ASSUME closer = "stopping" PROVE OneMarkEach'
  <2>1. PICK k \in 0..Len(queue) :
            /\ MarksAfter(k)
            /\ Exited # {} => k = 0
            /\ (Len(queue) - k) + stops + Cardinality(Exited) = Cardinality(Workers)
    BY <1>0, <1>2 DEF SessionShape, OneMarkEach
  <2>2. k > 0 /\ MarksAfter(k - 1)'
    BY <1>0, <2>1, TakenMarks
  <2>3. k - 1 \in 0..Len(queue') /\ Len(queue') - (k - 1) = Len(queue) - k
    BY <1>a, <2>2
  <2> QED BY <2>1, <2>2, <2>3 DEF OneMarkEach
<1> QED BY <1>0, <1>1, <1>2 DEF SessionShape

\* A dropped job's future is settled in the step that takes it.
LEMMA ShutdownTakeCancelled ==
    ASSUME ShutdownInv, TypeOK', NEW w \in Workers, TakeCancelled(w)
    PROVE  ShutdownInv'
<1>u. /\ worker[w] = "idle" /\ queue # <<>> /\ Head(queue) # STOP /\ queue' = Tail(queue)
      /\ future' = Settle(future, Head(queue), "cancelled")
      /\ UNCHANGED <<task, worker, held, accepting, pool, closer, stops>>
      /\ \A j \in Job : HeldBy(j)' = HeldBy(j)
  BY DEF TakeCancelled, HeldBy, poolVars, lifeVars
<1>0. TypeOK
  BY DEF ShutdownInv
<1>1. SessionShape'
  <2>1. Exited' = Exited
    BY <1>u DEF Exited
  <2> QED BY <1>u, <2>1, ShapeTaken
<1>2. PendingIsLive'
  <2>1. Head(queue) \in Job /\ \A j \in Job : Queued(j) => Queued(j)' \/ j = Head(queue)
    BY <1>0, <1>u, TakenHead
  <2>2. future'[Head(queue)] # "pending"
    BY <1>0, <1>u, <2>1 DEF Settle, TypeOK
  <2>3. \A j \in Job : future'[j] = "pending" => future[j] = "pending"
    BY <1>0, <1>u DEF Settle, TypeOK
  <2> QED BY <1>u, <2>1, <2>2, <2>3 DEF ShutdownInv, PendingIsLive
<1>3. HeldIsBusy'
  BY <1>u DEF ShutdownInv, HeldIsBusy
<1>4. ShutdownLeavesNothing'
  BY <1>u DEF ShutdownInv, ShutdownLeavesNothing
<1> QED BY <1>1, <1>2, <1>3, <1>4 DEF ShutdownInv

\* A job that leaves the queue for a task is held by its worker.
LEMMA ShutdownTakeJob ==
    ASSUME ShutdownInv, TypeOK', NEW w \in Workers, TakeJob(w)
    PROVE  ShutdownInv'
<1>u. /\ worker[w] = "idle" /\ queue # <<>> /\ Head(queue) # STOP /\ queue' = Tail(queue)
      /\ task' = [task EXCEPT ![Head(queue)] = "ready"]
      /\ worker' = [worker EXCEPT ![w] = "busy"]
      /\ held' = [held EXCEPT ![w] = Head(queue)]
      /\ UNCHANGED <<future, accepting, pool, closer, stops>>
  BY DEF TakeJob, lifeVars
<1>0. TypeOK
  BY DEF ShutdownInv
<1>1. SessionShape'
  <2>1. Exited' = Exited
    BY <1>0, <1>u DEF Exited, TypeOK
  <2>2. \A v \in Workers : worker[v] # "absent" => worker'[v] # "absent"
    BY <1>0, <1>u DEF TypeOK
  <2> QED BY <1>u, <2>1, <2>2, ShapeTaken
<1>2. PendingIsLive'
  <2>1. Head(queue) \in Job /\ \A j \in Job : Queued(j) => Queued(j)' \/ j = Head(queue)
    BY <1>0, <1>u, TakenHead
  <2>0. PICK h \in Job : h = Head(queue)
    BY <2>1
  <2>2. w \in HeldBy(h)'
    BY <1>0, <1>u, <2>0 DEF HeldBy, TypeOK
  <2>3. held[w] = NoJob
    BY <1>u DEF ShutdownInv, HeldIsBusy
  <2>4. \A j \in Job : HeldBy(j) \subseteq HeldBy(j)'
    BY <1>0, <1>u, <2>3, StopIsNoJob DEF HeldBy, TypeOK
  <2>5. \A j \in Job : j # Head(queue) => task'[j] = task[j]
    BY <1>0, <1>u DEF TypeOK
  <2>6. \A j \in Job : HeldBy(j) # {} => HeldBy(j)' # {}
    BY <2>4
  <2>7. HeldBy(h)' # {}
    BY <2>2
  <2> QED BY <1>u, <2>0, <2>1, <2>5, <2>6, <2>7 DEF ShutdownInv, PendingIsLive
<1>3. HeldIsBusy'
  BY <1>0, <1>u DEF ShutdownInv, HeldIsBusy, TypeOK
<1>4. ShutdownLeavesNothing'
  BY <1>u DEF ShutdownInv, ShutdownLeavesNothing
<1> QED BY <1>1, <1>2, <1>3, <1>4 DEF ShutdownInv

\* A worker returns on a mark, and only marks are left behind it.
LEMMA ShutdownTakeStop ==
    ASSUME ShutdownInv, TypeOK', NEW w \in Workers, TakeStop(w)
    PROVE  ShutdownInv'
<1>u. /\ worker[w] = "idle" /\ queue # <<>> /\ Head(queue) = STOP /\ queue' = Tail(queue)
      /\ worker' = [worker EXCEPT ![w] = "exited"]
      /\ UNCHANGED <<future, task, held, accepting, pool, closer, stops>>
      /\ \A j \in Job : HeldBy(j)' = HeldBy(j)
  BY DEF TakeStop, HeldBy, jobVars, lifeVars
<1>0. TypeOK /\ SessionShape
  BY DEF ShutdownInv
<1>a. Len(queue) \in Nat \ {0} /\ Len(queue') = Len(queue) - 1
  BY <1>0, <1>u, TakenHead
<1>b. ~pool /\ closer = "stopping"
  <2>1. ASSUME pool \/ closer = "joining" PROVE FALSE
    <3>1. MarksAfter(Len(queue))
      BY <1>0, <2>1 DEF SessionShape
    <3>2. Len(queue) = 0
      BY <1>0, <1>u, <1>a, <3>1, TakenMarks
    <3> QED BY <1>a, <3>2
  <2>2. pool \/ closer # "idle"
    BY <1>u DEF ShutdownInv, ShutdownLeavesNothing
  <2> QED BY <1>0, <2>1, <2>2 DEF TypeOK
<1>1. OneMarkEach'
  <2>1. PICK k \in 0..Len(queue) :
            /\ MarksAfter(k)
            /\ Exited # {} => k = 0
            /\ (Len(queue) - k) + stops + Cardinality(Exited) = Cardinality(Workers)
    BY <1>0, <1>b DEF SessionShape, OneMarkEach
  <2>2. k = 0 /\ MarksAfter(0)'
    BY <1>0, <1>u, <2>1, TakenMarks
  <2>3. Cardinality(Exited') = Cardinality(Exited) + 1
    BY <1>0, <1>u, OneMoreExit
  <2>4. (Len(queue') - 0) + stops + Cardinality(Exited') = Cardinality(Workers)
    BY <1>0, <1>a, <2>1, <2>2, <2>3, ExitedCount, WorkerCount DEF TypeOK
  <2>5. 0 \in 0..Len(queue')
    BY <1>a
  <2> QED BY <1>u, <2>2, <2>4, <2>5 DEF OneMarkEach
<1>2. SessionShape'
  BY <1>0, <1>u, <1>b, <1>1 DEF SessionShape, TypeOK
<1>3. PendingIsLive'
  <2>1. \A j \in Job : Queued(j) => Queued(j)' \/ j = Head(queue)
    BY <1>0, <1>u, TakenHead
  <2> QED BY <1>u, <2>1, StopIsNoJob DEF ShutdownInv, PendingIsLive
<1>4. HeldIsBusy'
  BY <1>0, <1>u DEF ShutdownInv, HeldIsBusy, TypeOK
<1>5. ShutdownLeavesNothing'
  BY <1>u, <1>b DEF ShutdownLeavesNothing
<1> QED BY <1>2, <1>3, <1>4, <1>5 DEF ShutdownInv

\* The step that collects a task settles the future of its job.
LEMMA ShutdownCollect ==
    ASSUME ShutdownInv, TypeOK', NEW w \in Workers, Collect(w)
    PROVE  ShutdownInv'
<1>u. /\ worker[w] = "busy"
      /\ task[held[w]] \in {"returned", "raised", "cancelled"}
      /\ future' = Settle(future, held[w], Outcome(held[w]).future)
      /\ worker' = [worker EXCEPT ![w] = "idle"]
      /\ held' = [held EXCEPT ![w] = NoJob]
      /\ UNCHANGED <<queue, task, accepting, pool, closer, stops>>
  BY DEF Collect, lifeVars
<1>0. TypeOK /\ SessionShape
  BY DEF ShutdownInv
<1>a. Exited' = Exited
  BY <1>0, <1>u DEF Exited, TypeOK
<1>1. SessionShape'
  <2>1. MarksAfter(Len(queue))' <=> MarksAfter(Len(queue))
    BY <1>u DEF MarksAfter
  <2>2. OneMarkEach => OneMarkEach'
    BY <1>u, <1>a DEF MarksAfter, OneMarkEach
  <2>3. \A v \in Workers : worker[v] # "absent" => worker'[v] # "absent"
    BY <1>0, <1>u DEF TypeOK
  <2> QED BY <1>0, <1>u, <1>a, <2>1, <2>2, <2>3 DEF SessionShape
<1>2. PendingIsLive'
  <2>1. \A j \in Job : Queued(j)' <=> Queued(j)
    BY <1>u DEF Queued
  <2>2. \A j \in Job : j # held[w] => HeldBy(j)' = HeldBy(j)
    BY <1>0, <1>u, StopIsNoJob DEF HeldBy, TypeOK
  <2>3. \A j \in Job : j # held[w] => future'[j] = future[j]
    BY <1>0, <1>u DEF Settle, TypeOK
  <2>4. Outcome(held[w]).future # "pending"
    BY DEF Outcome
  <2>5. held[w] \in Job => future'[held[w]] # "pending"
    BY <1>0, <1>u, <2>4 DEF Settle, TypeOK
  <2> QED BY <1>u, <2>1, <2>2, <2>3, <2>5 DEF ShutdownInv, PendingIsLive
<1>3. HeldIsBusy'
  BY <1>0, <1>u DEF ShutdownInv, HeldIsBusy, TypeOK
<1>4. ShutdownLeavesNothing'
  BY <1>u DEF ShutdownInv, ShutdownLeavesNothing
<1> QED BY <1>1, <1>2, <1>3, <1>4 DEF ShutdownInv

\* A step that leaves the queue, the pool and the marks alone keeps the shape
\* of the session.
LEMMA ShapeKept ==
    ASSUME SessionShape, UNCHANGED <<queue, worker, accepting, pool, closer, stops>>
    PROVE  SessionShape'
<1>1. Exited' = Exited
  BY DEF Exited
<1>2. MarksAfter(Len(queue)) => MarksAfter(Len(queue))'
  BY DEF MarksAfter
<1>3. OneMarkEach => OneMarkEach'
  BY <1>1 DEF MarksAfter, OneMarkEach
<1> QED BY <1>1, <1>2, <1>3 DEF SessionShape

\* A task runs while its worker awaits it.
LEMMA ShutdownTask ==
    ASSUME ShutdownInv, TypeOK', NEW j \in Job, Invoke(j) \/ Finish(j)
    PROVE  ShutdownInv'
<1>u. /\ task[j] \in {"ready", "executing"}
      /\ \E o \in {"cancelled", "executing", "returned", "raised"} : task' = [task EXCEPT ![j] = o]
      /\ UNCHANGED <<queue, future, worker, held, accepting, pool, closer, stops>>
      /\ \A k \in Job : (Queued(k)' <=> Queued(k)) /\ HeldBy(k)' = HeldBy(k)
  BY DEF Invoke, Finish, Queued, HeldBy, poolVars, lifeVars
<1>1. SessionShape'
  BY <1>u, ShapeKept DEF ShutdownInv
<1>2. PendingIsLive'
  BY <1>u DEF ShutdownInv, TypeOK, PendingIsLive
<1>3. HeldIsBusy'
  BY <1>u DEF ShutdownInv, HeldIsBusy
<1>4. ShutdownLeavesNothing'
  BY <1>u DEF ShutdownInv, ShutdownLeavesNothing
<1> QED BY <1>1, <1>2, <1>3, <1>4 DEF ShutdownInv

\* A cancellation may settle a future, and makes none pending.
LEMMA ShutdownCancel ==
    ASSUME ShutdownInv, TypeOK', NEW r \in Runs, Cancel(r)
    PROVE  ShutdownInv'
<1>u. /\ future' = future \/ future' = Settle(future, Latest(r), "cancelled")
      /\ UNCHANGED <<queue, task, worker, held, accepting, pool, closer, stops>>
      /\ \A k \in Job : (Queued(k)' <=> Queued(k)) /\ HeldBy(k)' = HeldBy(k)
  BY DEF Cancel, Queued, HeldBy, poolVars, lifeVars
<1>a. \A k \in Job : future'[k] = "pending" => future[k] = "pending"
  BY <1>u DEF Settle, ShutdownInv, TypeOK
<1>1. SessionShape'
  BY <1>u, ShapeKept DEF ShutdownInv
<1>2. PendingIsLive'
  BY <1>u, <1>a DEF ShutdownInv, PendingIsLive
<1>3. HeldIsBusy'
  BY <1>u DEF ShutdownInv, HeldIsBusy
<1>4. ShutdownLeavesNothing'
  BY <1>u, <1>a DEF ShutdownInv, ShutdownLeavesNothing
<1> QED BY <1>1, <1>2, <1>3, <1>4 DEF ShutdownInv

\* A shutdown that begins finds no mark in the queue.
LEMMA ShutdownBegins ==
    ASSUME ShutdownInv, TypeOK', NEW p \in BOOLEAN, NEW a \in BOOLEAN, Shutdown(p, a)
    PROVE  ShutdownInv'
<1>u. /\ pool /\ ~pool' /\ ~accepting' /\ closer' \in {"stopping", "joining"}
      /\ stops' = Cardinality(Workers)
      /\ UNCHANGED <<queue, task, worker, held>>
      /\ \A k \in Job : (Queued(k)' <=> Queued(k)) /\ HeldBy(k)' = HeldBy(k)
  BY DEF Shutdown, Queued, HeldBy, poolVars
<1>a. \A k \in Job : future'[k] = "pending" => future[k] = "pending"
  BY DEF Shutdown
<1>b. MarksAfter(Len(queue)) /\ Exited = {} /\ \A w \in Workers : worker[w] # "absent"
  BY <1>u DEF ShutdownInv, SessionShape
<1>c. MarksAfter(Len(queue))' /\ Exited' = {}
  BY <1>u, <1>b DEF MarksAfter, Exited
<1>1. SessionShape'
  <2>1. Len(queue) \in Nat /\ Len(queue') = Len(queue)
    BY <1>u DEF ShutdownInv, TypeOK
  <2>2. Cardinality(Exited') = 0
    BY <1>c, FS_EmptySet
  <2>3. (Len(queue') - Len(queue')) + stops' + Cardinality(Exited') = Cardinality(Workers)
    BY <1>u, <2>1, <2>2, WorkerCount
  <2>4. Len(queue') \in 0..Len(queue')
    BY <2>1
  <2>5. OneMarkEach'
    BY <1>c, <2>3, <2>4 DEF OneMarkEach
  <2> QED BY <1>u, <1>b, <1>c, <2>5 DEF SessionShape
<1>2. PendingIsLive'
  BY <1>u, <1>a DEF ShutdownInv, PendingIsLive
<1>3. HeldIsBusy' /\ ShutdownLeavesNothing'
  BY <1>u DEF ShutdownInv, HeldIsBusy, ShutdownLeavesNothing
<1> QED BY <1>1, <1>2, <1>3 DEF ShutdownInv

\* The queue has drained: no mark yet, one to put for each worker.
LEMMA ShutdownJoin ==
    ASSUME ShutdownInv, TypeOK', Join
    PROVE  ShutdownInv'
<1>u. /\ closer = "joining" /\ closer' = "stopping"
      /\ UNCHANGED <<queue, future, task, worker, held, accepting, pool, stops>>
      /\ \A k \in Job : (Queued(k)' <=> Queued(k)) /\ HeldBy(k)' = HeldBy(k)
  BY DEF Join, Queued, HeldBy, jobVars, poolVars
<1>b. /\ MarksAfter(Len(queue)) /\ Exited = {} /\ stops = Cardinality(Workers)
      /\ \A w \in Workers : worker[w] # "absent"
      /\ ~pool /\ ~accepting
  BY <1>u DEF ShutdownInv, SessionShape
<1>c. MarksAfter(Len(queue))' /\ Exited' = {}
  BY <1>u, <1>b DEF MarksAfter, Exited
<1>1. SessionShape'
  <2>1. Len(queue') \in Nat
    BY <1>u DEF ShutdownInv, TypeOK
  <2>2. Cardinality(Exited') = 0
    BY <1>c, FS_EmptySet
  <2>3. (Len(queue') - Len(queue')) + stops' + Cardinality(Exited') = Cardinality(Workers)
    BY <1>u, <1>b, <2>1, <2>2, WorkerCount
  <2>4. Len(queue') \in 0..Len(queue')
    BY <2>1
  <2>5. OneMarkEach'
    BY <1>c, <2>3, <2>4 DEF OneMarkEach
  <2> QED BY <1>u, <1>b, <1>c, <2>5 DEF SessionShape
<1>2. PendingIsLive'
  BY <1>u DEF ShutdownInv, PendingIsLive
<1>3. HeldIsBusy' /\ ShutdownLeavesNothing'
  BY <1>u DEF ShutdownInv, HeldIsBusy, ShutdownLeavesNothing
<1> QED BY <1>1, <1>2, <1>3 DEF ShutdownInv

\* A mark that is put moves from those to put to those in the queue.
LEMMA ShutdownPutStop ==
    ASSUME ShutdownInv, TypeOK', PutStop
    PROVE  ShutdownInv'
<1>u. /\ closer = "stopping" /\ stops > 0 /\ stops' = stops - 1
      /\ queue' = Append(queue, STOP)
      /\ UNCHANGED <<future, task, worker, held, accepting, pool, closer>>
      /\ \A k \in Job : HeldBy(k)' = HeldBy(k)
  BY DEF PutStop, HeldBy, jobVars, poolVars
<1>0. TypeOK /\ SessionShape
  BY DEF ShutdownInv
<1>m. /\ Len(queue) \in Nat /\ Len(queue') = Len(queue) + 1
      /\ \A i \in 1..Len(queue) : queue'[i] = queue[i]
      /\ queue'[Len(queue) + 1] = STOP
  <2>1. queue \in Seq(Mark) /\ STOP \in Mark
    BY <1>0 DEF TypeOK, Mark
  <2> QED BY <1>u, <2>1, AppendMembers
<1>a. Exited' = Exited
  BY <1>u DEF Exited
<1>1. OneMarkEach'
  <2>1. PICK k \in 0..Len(queue) :
            /\ MarksAfter(k)
            /\ Exited # {} => k = 0
            /\ (Len(queue) - k) + stops + Cardinality(Exited) = Cardinality(Workers)
    BY <1>0, <1>u DEF SessionShape, OneMarkEach
  <2>2. k \in 0..Len(queue')
    BY <1>m
  <2>3. MarksAfter(k)'
    BY <1>m, <2>1, <2>2 DEF MarksAfter
  <2>4. (Len(queue') - k) + stops' + Cardinality(Exited') = Cardinality(Workers)
    BY <1>0, <1>u, <1>m, <1>a, <2>1, ExitedCount, WorkerCount DEF TypeOK
  <2> QED BY <1>a, <2>1, <2>2, <2>3, <2>4 DEF OneMarkEach
<1>2. SessionShape'
  BY <1>0, <1>u, <1>1 DEF SessionShape
<1>3. PendingIsLive'
  <2>1. \A k \in Job : Queued(k) => Queued(k)'
    BY <1>m DEF Queued
  <2> QED BY <1>u, <2>1 DEF ShutdownInv, PendingIsLive
<1>4. HeldIsBusy' /\ ShutdownLeavesNothing'
  BY <1>u DEF ShutdownInv, HeldIsBusy, ShutdownLeavesNothing
<1> QED BY <1>2, <1>3, <1>4 DEF ShutdownInv

\* Every worker has returned, so every mark was taken and nothing precedes one.
LEMMA ShutdownGather ==
    ASSUME ShutdownInv, TypeOK', Gather
    PROVE  ShutdownInv'
<1>u. /\ closer = "stopping" /\ stops = 0 /\ closer' = "idle"
      /\ \A w \in Workers : worker[w] = "exited"
      /\ UNCHANGED <<queue, future, task, worker, held, accepting, pool, stops>>
      /\ \A k \in Job : (Queued(k)' <=> Queued(k)) /\ HeldBy(k)' = HeldBy(k)
  BY DEF Gather, Queued, HeldBy, jobVars, poolVars
<1>0. TypeOK /\ SessionShape
  BY DEF ShutdownInv
<1>a. Exited = Workers /\ Exited # {}
  BY <1>u, SchedulerAssumption DEF Exited
<1>b. PICK k \in 0..Len(queue) :
          /\ MarksAfter(k)
          /\ Exited # {} => k = 0
          /\ (Len(queue) - k) + stops + Cardinality(Exited) = Cardinality(Workers)
  BY <1>0, <1>u DEF SessionShape, OneMarkEach
<1>c. queue = <<>> /\ Len(queue) = 0
  <2>1. Len(queue) \in Nat /\ queue \in Seq(Mark)
    BY <1>0 DEF TypeOK
  <2>2. Len(queue) = 0
    BY <1>u, <1>a, <1>b, <2>1, WorkerCount
  <2> QED BY <2>1, <2>2
<1>d. \A j \in Job : HeldBy(j) = {} /\ ~Queued(j)
  <2>1. \A w \in Workers : held[w] = NoJob
    BY <1>u DEF ShutdownInv, HeldIsBusy
  <2> QED BY <1>c, <2>1, StopIsNoJob DEF HeldBy, Queued
<1>1. ShutdownLeavesNothing'
  <2>1. \A j \in Job : future[j] # "pending" /\ task[j] \notin {"ready", "executing"}
    BY <1>d DEF ShutdownInv, PendingIsLive
  <2> QED BY <1>u, <1>c, <2>1 DEF ShutdownLeavesNothing
<1>2. SessionShape'
  <2>1. ~pool /\ ~accepting
    BY <1>0, <1>u DEF SessionShape
  <2> QED BY <1>u, <2>1 DEF SessionShape
<1>3. PendingIsLive' /\ HeldIsBusy'
  BY <1>u DEF ShutdownInv, PendingIsLive, HeldIsBusy
<1> QED BY <1>1, <1>2, <1>3 DEF ShutdownInv

\* A stutter changes nothing the invariant is about.
LEMMA ShutdownStutter ==
    ASSUME ShutdownInv, TypeOK', UNCHANGED vars
    PROVE  ShutdownInv'
<1>u. /\ UNCHANGED <<queue, future, task, worker, held, accepting, pool, closer, stops>>
      /\ \A k \in Job : (Queued(k)' <=> Queued(k)) /\ HeldBy(k)' = HeldBy(k)
  BY DEF vars, jobVars, poolVars, lifeVars, Queued, HeldBy
<1>1. SessionShape'
  BY <1>u, ShapeKept DEF ShutdownInv
<1>2. PendingIsLive' /\ HeldIsBusy' /\ ShutdownLeavesNothing'
  BY <1>u DEF ShutdownInv, PendingIsLive, HeldIsBusy, ShutdownLeavesNothing
<1> QED BY <1>1, <1>2 DEF ShutdownInv

\* Every step preserves the invariant of the shutdown.
LEMMA ShutdownNext ==
    ASSUME ShutdownInv, [Next]_vars
    PROVE  ShutdownInv'
<1>1. TypeOK'
  BY TypeNext DEF ShutdownInv
<1>2. CASE Start
  BY <1>1, <1>2, ShutdownStart
<1>3. ASSUME NEW r \in Runs, Submit(r) \/ Cancel(r) PROVE ShutdownInv'
  BY <1>1, <1>3, ShutdownSubmit, ShutdownCancel
<1>4. ASSUME NEW w \in Workers, TakeStop(w) \/ TakeCancelled(w) \/ TakeJob(w) \/ Collect(w)
      PROVE  ShutdownInv'
  BY <1>1, <1>4, ShutdownTakeStop, ShutdownTakeCancelled, ShutdownTakeJob, ShutdownCollect
<1>5. ASSUME NEW j \in Job, Invoke(j) \/ Finish(j) PROVE ShutdownInv'
  BY <1>1, <1>5, ShutdownTask
<1>6. ASSUME NEW p \in BOOLEAN, NEW a \in BOOLEAN, Shutdown(p, a) PROVE ShutdownInv'
  BY <1>1, <1>6, ShutdownBegins
<1>7. CASE Join \/ PutStop \/ Gather
  BY <1>1, <1>7, ShutdownJoin, ShutdownPutStop, ShutdownGather
<1>8. CASE Done \/ UNCHANGED vars
  BY <1>1, <1>8, ShutdownStutter DEF Done
<1> QED BY <1>2, <1>3, <1>4, <1>5, <1>6, <1>7, <1>8 DEF Next

\* Whatever was submitted, cancelled or reused, a shutdown that has returned
\* has left no queued item, no worker, no executing task and no pending future.
THEOREM ShutdownLeavesNothingBehind == Spec => []ShutdownLeavesNothing
<1>1. Init => ShutdownInv
  BY ShutdownInit
<1>2. ShutdownInv /\ [Next]_vars => ShutdownInv'
  BY ShutdownNext
<1>3. ShutdownInv => ShutdownLeavesNothing
  BY DEF ShutdownInv
<1> QED BY <1>1, <1>2, <1>3, PTL DEF Spec

=============================================================================
