-------------------------- MODULE RunLifecycleProofs --------------------------
(***************************************************************************)
(* What holds of the turns of a conversation, for any number of runs,        *)
(* callers and crashes.                                                      *)
(*                                                                           *)
(* ApprovalInv: concurrent approvals of one interrupt have one winner.  The  *)
(* write that asks and the claim that consumes matter; all else keeps the    *)
(* invariant because operations only move forward, a status becomes          *)
(* interrupted by that write alone, and whoever won has claimed (KeepStep).  *)
(*                                                                           *)
(* TurnInv: without approvals a conversation has one turn at a time, and     *)
(* what a released turn left stays.  A run is submitted once, its lease is   *)
(* released by whoever is the last to hold it: operation, creator or a       *)
(* canceller that settles it.                                                *)
(*                                                                           *)
(* StopInv: a cancellation that was acknowledged has raised the flag, and    *)
(* the operation of the run's latest generation, if it is on its way into    *)
(* the runtime, sees the flag or the cancellation at its next look.          *)
(***************************************************************************)
EXTENDS RunLifecycle, FiniteSetTheorems, TLAPS

Calling == {"claim", "refused", "claimed", "wait", "scheduled", "cancelling", "failing",
            "releasing", "finished"}

LEMMA JobShape ==
    ASSUME NEW j \in Job
    PROVE  j[1] \in Runs /\ j[2] \in 1..MaxGen /\ j = <<j[1], j[2]>> /\ j[2] \in Nat
BY RunLifecycleAssumption DEF Job

LEMMA InitInv == Init => ApprovalInv
<1> SUFFICES ASSUME Init PROVE ApprovalInv
  OBVIOUS
<1>1. Shapes
  BY DEF Init, Shapes, OpStates, Call
<1>2. \A h \in Resumers : ~Won(h)
  BY DEF Init, Won, Call
<1>3. ConsumedStays /\ ApprovalConsumedOnce
  BY <1>2 DEF ConsumedStays, ApprovalConsumedOnce
<1>4. Submitted /\ AskedByPast
  BY DEF Init, Submitted, AskedByPast
<1> QED BY <1>1, <1>3, <1>4 DEF ApprovalInv

\* What a step does not break: operations that are past their write stay so,
\* no status becomes interrupted, nobody wins.
LEMMA KeepStep ==
    ASSUME ApprovalInv, Shapes', Submitted',
           \A j \in Job : op[j] \in Past => op'[j] \in Past,
           \A r \in Runs : status'[r] = "interrupted" =>
                 status[r] = "interrupted" /\ approval'[r] = approval[r],
           \A h \in Resumers : resumer'[h].pc \in Calling \ {"claim", "refused"} =>
                 /\ resumer[h].pc \in Calling \ {"claim", "refused"}
                 /\ resumer'[h].run = resumer[h].run /\ resumer'[h].id = resumer[h].id
    PROVE  ApprovalInv'
<1>1. \A h \in Resumers : Won(h)' =>
         Won(h) /\ resumer'[h].run = resumer[h].run /\ resumer'[h].id = resumer[h].id
  BY DEF Won, Calling
<1>2. AskedByPast'
  BY DEF ApprovalInv, AskedByPast
<1>3. ConsumedStays'
  <2> SUFFICES ASSUME NEW h \in Resumers, Won(h)'
               PROVE  /\ <<resumer'[h].run, resumer'[h].id>> \in Job
                      /\ op'[<<resumer'[h].run, resumer'[h].id>>] \in Past
                      /\ status'[resumer'[h].run] = "interrupted"
                            => approval'[resumer'[h].run] # resumer'[h].id
    BY DEF ConsumedStays
  <2>1. /\ resumer'[h].run = resumer[h].run /\ resumer'[h].id = resumer[h].id
        /\ <<resumer[h].run, resumer[h].id>> \in Job
        /\ op[<<resumer[h].run, resumer[h].id>>] \in Past
        /\ status[resumer[h].run] = "interrupted" => approval[resumer[h].run] # resumer[h].id
    BY <1>1 DEF ApprovalInv, ConsumedStays
  <2>2. resumer[h].run \in Runs
    BY <2>1 DEF Job
  <2> QED BY <2>1, <2>2
<1>4. ApprovalConsumedOnce'
  BY <1>1 DEF ApprovalInv, ApprovalConsumedOnce
<1> QED BY <1>2, <1>3, <1>4 DEF ApprovalInv

-----------------------------------------------------------------------------
(* Rows and jobs *)

\* A step that leaves the operations and the resumers alone.
LEMMA RowStep ==
    ASSUME ApprovalInv, UNCHANGED <<gen, op, verdict, resumer>>,
           status' \in [Runs -> {"none"} \cup Active \cup Terminal],
           approval' \in [Runs -> Nat],
           \A r \in Runs : status'[r] = "interrupted" =>
                 status[r] = "interrupted" /\ approval'[r] = approval[r]
    PROVE  ApprovalInv'
<1>1. Shapes' /\ Submitted'
  BY DEF ApprovalInv, Shapes, Submitted
<1>2. \A j \in Job : op'[j] = op[j]
  OBVIOUS
<1>3. \A h \in Resumers : resumer'[h] = resumer[h]
  OBVIOUS
<1> QED BY <1>1, <1>2, <1>3, KeepStep

\* Nothing the argument is about moves.
LEMMA StandStill ==
    ASSUME ApprovalInv, UNCHANGED <<status, approval, gen, op, verdict, resumer>>
    PROVE  ApprovalInv'
<1>1. status \in [Runs -> {"none"} \cup Active \cup Terminal] /\ approval \in [Runs -> Nat]
  BY DEF ApprovalInv, Shapes
<1> QED BY <1>1, RowStep

\* A row gets an outcome other than a question.
LEMMA UpdateStep ==
    ASSUME ApprovalInv, UNCHANGED <<gen, op, verdict, resumer>>, NEW r \in Runs,
           NEW t \in ({"none"} \cup Active \cup Terminal) \ {"interrupted"}, Update(r, t, 0)
    PROVE  ApprovalInv'
<1>1. /\ status' = [status EXCEPT ![r] = t] /\ approval' = [approval EXCEPT ![r] = 0]
      /\ status \in [Runs -> {"none"} \cup Active \cup Terminal] /\ approval \in [Runs -> Nat]
  BY DEF Update, ApprovalInv, Shapes
<1>2. /\ status' \in [Runs -> {"none"} \cup Active \cup Terminal]
      /\ approval' \in [Runs -> Nat]
      /\ \A q \in Runs : status'[q] = "interrupted" =>
            status[q] = "interrupted" /\ approval'[q] = approval[q]
  BY <1>1
<1> QED BY <1>2, RowStep

\* A new generation is queued behind those that are past.
LEMMA EnqueueStep ==
    ASSUME ApprovalInv, NEW r \in Runs, Enqueue(r), UNCHANGED <<status, approval>>,
           resumer' \in [Resumers -> [pc : {"idle", "lost"}] \cup [pc : Calling, run : Runs, id : Nat]],
           \A h \in Resumers : resumer'[h].pc \in Calling \ {"claim", "refused"} =>
                 /\ resumer[h].pc \in Calling \ {"claim", "refused"}
                 /\ resumer'[h].run = resumer[h].run /\ resumer'[h].id = resumer[h].id
    PROVE  ApprovalInv'
<1> DEFINE n == <<r, gen[r] + 1>>
<1>1. /\ gen' = [gen EXCEPT ![r] = gen[r] + 1] /\ op' = [op EXCEPT ![n] = "queued"]
      /\ verdict' = verdict /\ Shapes /\ Submitted
  BY DEF Enqueue, ApprovalInv
<1>2. gen[r] \in Nat /\ gen' \in [Runs -> Nat] /\ op' \in [Job -> OpStates]
  <2>1. gen \in [Runs -> Nat] /\ op \in [Job -> OpStates] /\ "queued" \in OpStates
    BY <1>1 DEF Shapes, OpStates
  <2>2. gen[r] \in Nat /\ gen[r] + 1 \in Nat
    BY <2>1
  <2>3. gen' \in [Runs -> Nat]
    BY <1>1, <2>1, <2>2
  <2>4. op' \in [Job -> OpStates]
    BY <1>1, <2>1
  <2> QED BY <2>2, <2>3, <2>4
<1>3. Shapes'
  BY <1>1, <1>2 DEF Shapes, Calling
<1>4. ASSUME NEW j \in Job, op'[j] # "none" PROVE j[2] =< gen'[j[1]]
  <2>1. CASE j = n
    BY <1>1, <1>2, <2>1, JobShape DEF Shapes
  <2>2. CASE j # n
    <3>1. j[2] =< gen[j[1]]
      BY <1>1, <1>4, <2>2 DEF Shapes, Submitted
    <3>2. gen[j[1]] \in Nat /\ gen'[j[1]] \in {gen[j[1]], gen[j[1]] + 1} /\ j[2] \in Nat
      BY <1>1, <1>2, JobShape DEF Shapes
    <3> QED BY <3>1, <3>2
  <2> QED BY <2>1, <2>2
<1>5. Submitted'
  BY <1>4 DEF Submitted
<1>6. ASSUME NEW j \in Job, op[j] \in Past PROVE op'[j] \in Past
  <2>1. j[2] =< gen[j[1]]
    BY <1>1, <1>6 DEF Submitted, Past
  <2>2. j # n
    BY <1>2, <2>1, JobShape
  <2> QED BY <1>1, <1>6, <2>2 DEF Shapes
<1> QED BY <1>3, <1>5, <1>6, KeepStep

\* Questions: what any step but the write that asks does to the rows.
Asked == /\ status' \in [Runs -> {"none"} \cup Active \cup Terminal]
         /\ approval' \in [Runs -> Nat]
         /\ \A r \in Runs : status'[r] = "interrupted" =>
               status[r] = "interrupted" /\ approval'[r] = approval[r]

LEMMA AskedByUpdate ==
    ASSUME ApprovalInv, NEW r \in Runs,
           NEW t \in ({"none"} \cup Active \cup Terminal) \ {"interrupted"}, Update(r, t, 0)
    PROVE  Asked
<1>1. /\ status' = [status EXCEPT ![r] = t] /\ approval' = [approval EXCEPT ![r] = 0]
      /\ status \in [Runs -> {"none"} \cup Active \cup Terminal] /\ approval \in [Runs -> Nat]
  BY DEF Update, ApprovalInv, Shapes
<1> QED BY <1>1 DEF Asked

LEMMA AskedByNobody ==
    ASSUME ApprovalInv, UNCHANGED <<status, approval>>
    PROVE  Asked
BY DEF ApprovalInv, Shapes, Asked

\* An operation moves on: it never comes back from its past.
LEMMA OpMove ==
    ASSUME ApprovalInv, Asked, NEW j \in Job, NEW o \in OpStates,
           op' = [op EXCEPT ![j] = o], op[j] # "none", op[j] \in Past => o \in Past,
           UNCHANGED <<gen, resumer>>,
           verdict' \in [Job -> {"none", "interrupted"} \cup Terminal]
    PROVE  ApprovalInv'
<1>1. Shapes /\ Submitted
  BY DEF ApprovalInv
<1>2. op \in [Job -> OpStates] /\ op' \in [Job -> OpStates]
  BY <1>1 DEF Shapes
<1>3. Shapes'
  BY <1>1, <1>2 DEF Shapes, Asked
<1>4. Submitted'
  BY <1>1, <1>2 DEF Submitted
<1>5. \A i \in Job : op[i] \in Past => op'[i] \in Past
  BY <1>2
<1>6. \A h \in Resumers : resumer'[h] = resumer[h]
  OBVIOUS
<1> QED BY <1>3, <1>4, <1>5, <1>6, KeepStep DEF Asked

\* The records of resume: a step of one call leaves its run and its approval.
LEMMA CallMoves ==
    ASSUME Shapes, NEW h \in Resumers, NEW p \in Calling,
           resumer[h].pc \in Calling, resumer' = [resumer EXCEPT ![h].pc = p],
           p \in {"claim", "refused"} \/ resumer[h].pc \notin {"claim", "refused"}
    PROVE  /\ resumer' \in [Resumers -> [pc : {"idle", "lost"}] \cup [pc : Calling, run : Runs, id : Nat]]
           /\ \A g \in Resumers : resumer'[g].pc \in Calling \ {"claim", "refused"} =>
                 /\ resumer[g].pc \in Calling \ {"claim", "refused"}
                 /\ resumer'[g].run = resumer[g].run /\ resumer'[g].id = resumer[g].id
<1> DEFINE u == [resumer[h] EXCEPT !.pc = p]
<1>1. resumer \in [Resumers -> [pc : {"idle", "lost"}] \cup [pc : Calling, run : Runs, id : Nat]]
  BY DEF Shapes, Calling
<1>2. resumer[h] \in [pc : Calling, run : Runs, id : Nat]
  <2>1. CASE resumer[h] \in [pc : {"idle", "lost"}]
    BY <2>1 DEF Calling
  <2> QED BY <1>1, <2>1
<1>3. u \in [pc : Calling, run : Runs, id : Nat] /\ u.pc = p
      /\ u.run = resumer[h].run /\ u.id = resumer[h].id
  BY <1>2
<1>4. resumer' = [resumer EXCEPT ![h] = u]
  OBVIOUS
<1> HIDE DEF u
<1>5. resumer' \in [Resumers -> [pc : {"idle", "lost"}] \cup [pc : Calling, run : Runs, id : Nat]]
  BY <1>1, <1>3, <1>4
<1>6. ASSUME NEW g \in Resumers, resumer'[g].pc \in Calling \ {"claim", "refused"}
      PROVE  /\ resumer[g].pc \in Calling \ {"claim", "refused"}
             /\ resumer'[g].run = resumer[g].run /\ resumer'[g].id = resumer[g].id
  <2>1. CASE g = h
    BY <1>1, <1>3, <1>4, <1>6, <2>1
  <2>2. CASE g # h
    BY <1>1, <1>4, <1>6, <2>2
  <2> QED BY <2>1, <2>2
<1> QED BY <1>5, <1>6

\* A call of resume goes on, or gives up, without becoming a winner.
LEMMA ResumerMove ==
    ASSUME ApprovalInv, Asked, NEW h \in Resumers, NEW p \in Calling,
           resumer[h].pc \in Calling, resumer' = [resumer EXCEPT ![h].pc = p],
           p \in {"claim", "refused"} \/ resumer[h].pc \notin {"claim", "refused"},
           UNCHANGED <<gen, op, verdict>>
    PROVE  ApprovalInv'
<1>1. Shapes /\ Submitted
  BY DEF ApprovalInv
<1>2. /\ resumer' \in [Resumers -> [pc : {"idle", "lost"}] \cup [pc : Calling, run : Runs, id : Nat]]
      /\ \A g \in Resumers : resumer'[g].pc \in Calling \ {"claim", "refused"} =>
            /\ resumer[g].pc \in Calling \ {"claim", "refused"}
            /\ resumer'[g].run = resumer[g].run /\ resumer'[g].id = resumer[g].id
  BY <1>1, CallMoves
<1>3. Shapes'
  BY <1>1, <1>2 DEF Shapes, Asked, Calling
<1>4. Submitted'
  BY <1>1 DEF Submitted
<1>5. \A i \in Job : op[i] \in Past => op'[i] \in Past
  OBVIOUS
<1> QED BY <1>2, <1>3, <1>4, <1>5, KeepStep DEF Asked

-----------------------------------------------------------------------------
(* Creation *)

LEMMA CreateKeeps ==
    ASSUME ApprovalInv, NEW r \in Runs, CreateStep(r)
    PROVE  ApprovalInv'
<1>1. CASE Create(r)
  <2>1. /\ status' = [status EXCEPT ![r] = "queued"]
        /\ UNCHANGED <<approval, gen, op, verdict, resumer>>
    BY <1>1 DEF Create, jobs
  <2>2. status \in [Runs -> {"none"} \cup Active \cup Terminal] /\ approval \in [Runs -> Nat]
    BY DEF ApprovalInv, Shapes
  <2>3. status' \in [Runs -> {"none"} \cup Active \cup Terminal]
    BY <2>1, <2>2 DEF Active
  <2>4. \A q \in Runs : status'[q] = "interrupted" => status[q] = "interrupted"
    BY <2>1, <2>2
  <2> QED BY <2>1, <2>2, <2>3, <2>4, RowStep
<1>2. CASE CreateSubmit(r)
  <2>1. Enqueue(r) /\ UNCHANGED <<status, approval, resumer>>
    BY <1>2 DEF CreateSubmit, rows
  <2>2. resumer' \in [Resumers -> [pc : {"idle", "lost"}] \cup [pc : Calling, run : Runs, id : Nat]]
    BY <2>1 DEF ApprovalInv, Shapes, Calling
  <2>3. \A h \in Resumers : resumer'[h] = resumer[h]
    BY <2>1
  <2> QED BY <2>1, <2>2, <2>3, EnqueueStep
<1>3. CASE CreateAbort(r)
  <2>1. PICK t \in {"failed", "cancelled"} : Update(r, t, 0)
    BY <1>3 DEF CreateAbort
  <2>2. t \in ({"none"} \cup Active \cup Terminal) \ {"interrupted"}
    BY DEF Terminal
  <2>3. UNCHANGED <<gen, op, verdict, resumer>>
    BY <1>3 DEF CreateAbort, jobs
  <2> QED BY <2>1, <2>2, <2>3, UpdateStep
<1>4. CASE CreateRelease(r)
  <2>1. UNCHANGED <<status, approval, gen, op, verdict, resumer>>
    BY <1>4 DEF CreateRelease, jobs
  <2> QED BY <2>1, StandStill
<1>5. CASE CreateFails(r)
  <2>1. UNCHANGED <<status, approval, gen, op, verdict, resumer>>
    BY <1>5 DEF CreateFails, rows, jobs
  <2> QED BY <2>1, StandStill
<1> QED BY <1>1, <1>2, <1>3, <1>4, <1>5 DEF CreateStep, CreateEnds

-----------------------------------------------------------------------------
(* The operation *)

\* The write that may ask: whoever won a claim won an earlier one.
LEMMA WriteKeeps ==
    ASSUME ApprovalInv, NEW j \in Job, OpWrite(j)
    PROVE  ApprovalInv'
<1> DEFINE a == IF verdict[j] = "interrupted" THEN j[2] ELSE 0
<1>1. /\ op[j] = "writing" /\ op' = [op EXCEPT ![j] = "written"]
      /\ status' = [status EXCEPT ![j[1]] = verdict[j]]
      /\ approval' = [approval EXCEPT ![j[1]] = a]
      /\ UNCHANGED <<gen, verdict, resumer>>
  BY DEF OpWrite, Update, calls
<1>2. /\ Shapes /\ Submitted /\ AskedByPast /\ ConsumedStays /\ ApprovalConsumedOnce
      /\ status \in [Runs -> {"none"} \cup Active \cup Terminal]
      /\ approval \in [Runs -> Nat]
      /\ op \in [Job -> OpStates]
      /\ verdict[j] \in {"none", "interrupted"} \cup Terminal
  BY DEF ApprovalInv, Shapes
<1>3. j[1] \in Runs /\ j = <<j[1], j[2]>> /\ a \in Nat
  BY JobShape
<1>4. /\ status' \in [Runs -> {"none"} \cup Active \cup Terminal]
      /\ approval' \in [Runs -> Nat]
      /\ op' \in [Job -> OpStates]
  BY <1>1, <1>2, <1>3 DEF Active, OpStates
<1>5. Shapes'
  BY <1>1, <1>2, <1>4 DEF Shapes
<1>6. Submitted'
  BY <1>1, <1>2 DEF Submitted
<1>7. \A i \in Job : op[i] \in Past => op'[i] \in Past /\ i # j
  BY <1>1, <1>2 DEF Past
<1>8. AskedByPast'
  <2> SUFFICES ASSUME NEW r \in Runs, status'[r] = "interrupted"
               PROVE  <<r, approval'[r]>> \in Job /\ op'[<<r, approval'[r]>>] \in Past
    BY DEF AskedByPast
  <2>1. CASE r = j[1]
    <3>1. verdict[j] = "interrupted" /\ approval'[r] = j[2]
      BY <1>1, <1>2, <2>1
    <3>2. <<r, approval'[r]>> = j /\ op'[j] = "written"
      BY <1>1, <1>2, <1>3, <2>1, <3>1
    <3> QED BY <3>2 DEF Past
  <2>2. CASE r # j[1]
    BY <1>1, <1>2, <1>7, <2>2 DEF AskedByPast
  <2> QED BY <2>1, <2>2
<1>9. \A h \in Resumers : resumer'[h] = resumer[h] /\ (Won(h)' <=> Won(h))
  BY <1>1 DEF Won
<1>10. ConsumedStays'
  <2> SUFFICES ASSUME NEW h \in Resumers, Won(h)
               PROVE  /\ <<resumer[h].run, resumer[h].id>> \in Job
                      /\ op'[<<resumer[h].run, resumer[h].id>>] \in Past
                      /\ status'[resumer[h].run] = "interrupted"
                            => approval'[resumer[h].run] # resumer[h].id
    BY <1>9 DEF ConsumedStays
  <2>1. /\ <<resumer[h].run, resumer[h].id>> \in Job
        /\ op[<<resumer[h].run, resumer[h].id>>] \in Past
        /\ status[resumer[h].run] = "interrupted" => approval[resumer[h].run] # resumer[h].id
    BY <1>2 DEF ConsumedStays
  <2>2. <<resumer[h].run, resumer[h].id>> # <<j[1], j[2]>> /\ resumer[h].run \in Runs
    BY <1>3, <1>7, <2>1 DEF Job
  <2>3. CASE resumer[h].run = j[1]
    <3>1. resumer[h].id # j[2]
      BY <2>2, <2>3
    <3>2. status'[j[1]] = "interrupted" => approval'[j[1]] = j[2]
      BY <1>1, <1>2, <1>3
    <3> QED BY <1>7, <2>1, <2>3, <3>1, <3>2
  <2>4. CASE resumer[h].run # j[1]
    BY <1>1, <1>2, <1>7, <2>1, <2>2, <2>4
  <2> QED BY <2>3, <2>4
<1>11. ApprovalConsumedOnce'
  BY <1>2, <1>9 DEF ApprovalConsumedOnce
<1> QED BY <1>5, <1>6, <1>8, <1>10, <1>11 DEF ApprovalInv

LEMMA OpKeeps ==
    ASSUME ApprovalInv, NEW j \in Job, OpStep(j)
    PROVE  ApprovalInv'
<1>0. /\ verdict \in [Job -> {"none", "interrupted"} \cup Terminal]
      /\ j[1] \in Runs
  BY JobShape DEF ApprovalInv, Shapes
<1>1. CASE OpDrop(j)
  <2> DEFINE o == "dropped"
  <2>1. /\ op[j] = "queued" /\ op' = [op EXCEPT ![j] = o]
        /\ UNCHANGED <<status, approval, gen, verdict, resumer>>
    BY <1>1 DEF OpDrop, rows, calls
  <2>2. o \in OpStates /\ op[j] # "none" /\ (op[j] \in Past => o \in Past)
    BY <2>1 DEF OpStates, Past
  <2>3. Asked
    BY <2>1, AskedByNobody
  <2> HIDE DEF o
  <2> QED BY <1>0, <2>1, <2>2, <2>3, OpMove
<1>2. CASE OpEnter(j)
  <2> DEFINE o == "entered"
  <2>1. /\ op[j] = "queued" /\ op' = [op EXCEPT ![j] = o]
        /\ UNCHANGED <<status, approval, gen, verdict, resumer>>
    BY <1>2 DEF OpEnter, rows, calls
  <2>2. o \in OpStates /\ op[j] # "none" /\ (op[j] \in Past => o \in Past)
    BY <2>1 DEF OpStates, Past
  <2>3. Asked
    BY <2>1, AskedByNobody
  <2> HIDE DEF o
  <2> QED BY <1>0, <2>1, <2>2, <2>3, OpMove
<1>3. CASE OpCheck(j)
  <2> DEFINE o == IF hit[j] \/ flagged[j[1]] THEN "cancelling" ELSE "admitted"
  <2>1. /\ op[j] = "entered" /\ op' = [op EXCEPT ![j] = o]
        /\ UNCHANGED <<status, approval, gen, verdict, resumer>>
    BY <1>3 DEF OpCheck, rows, calls
  <2>2. o \in OpStates /\ op[j] # "none" /\ (op[j] \in Past => o \in Past)
    BY <2>1 DEF OpStates, Past
  <2>3. Asked
    BY <2>1, AskedByNobody
  <2> HIDE DEF o
  <2> QED BY <1>0, <2>1, <2>2, <2>3, OpMove
<1>4. CASE OpInterruptedByCancel(j)
  <2> DEFINE o == "cancelling"
  <2>1. /\ op[j] \in {"running", "writing", "written"} /\ op' = [op EXCEPT ![j] = o]
        /\ UNCHANGED <<status, approval, gen, verdict, resumer>>
    BY <1>4 DEF OpInterruptedByCancel, rows, calls
  <2>2. o \in OpStates /\ op[j] # "none" /\ (op[j] \in Past => o \in Past)
    BY <2>1 DEF OpStates, Past
  <2>3. Asked
    BY <2>1, AskedByNobody
  <2> HIDE DEF o
  <2> QED BY <1>0, <2>1, <2>2, <2>3, OpMove
<1>5. CASE OpRaise(j)
  <2> DEFINE o == "failing"
  <2>1. /\ op[j] \in {"entered", "admitted", "running", "writing", "written"}
        /\ op' = [op EXCEPT ![j] = o]
        /\ UNCHANGED <<status, approval, gen, verdict, resumer>>
    BY <1>5 DEF OpRaise, rows, calls
  <2>2. o \in OpStates /\ op[j] # "none" /\ (op[j] \in Past => o \in Past)
    BY <2>1 DEF OpStates, Past
  <2>3. Asked
    BY <2>1, AskedByNobody
  <2> HIDE DEF o
  <2> QED BY <1>0, <2>1, <2>2, <2>3, OpMove
<1>6. CASE OpWritten(j)
  <2> DEFINE o == "releasing"
  <2>1. /\ op[j] = "written" /\ op' = [op EXCEPT ![j] = o]
        /\ UNCHANGED <<status, approval, gen, verdict, resumer>>
    BY <1>6 DEF OpWritten, rows, calls
  <2>2. o \in OpStates /\ op[j] # "none" /\ (op[j] \in Past => o \in Past)
    BY <2>1 DEF OpStates, Past
  <2>3. Asked
    BY <2>1, AskedByNobody
  <2> HIDE DEF o
  <2> QED BY <1>0, <2>1, <2>2, <2>3, OpMove
<1>7. CASE OpRelease(j)
  <2> DEFINE o == "leaving"
  <2>1. /\ op[j] = "releasing" /\ op' = [op EXCEPT ![j] = o]
        /\ UNCHANGED <<status, approval, gen, verdict, resumer>>
    BY <1>7 DEF OpRelease, rows, calls
  <2>2. o \in OpStates /\ op[j] # "none" /\ (op[j] \in Past => o \in Past)
    BY <2>1 DEF OpStates, Past
  <2>3. Asked
    BY <2>1, AskedByNobody
  <2> HIDE DEF o
  <2> QED BY <1>0, <2>1, <2>2, <2>3, OpMove
<1>8. CASE OpLeave(j)
  <2> DEFINE o == "done"
  <2>1. /\ op[j] = "leaving" /\ op' = [op EXCEPT ![j] = o]
        /\ UNCHANGED <<status, approval, gen, verdict, resumer>>
    BY <1>8 DEF OpLeave, rows, calls
  <2>2. o \in OpStates /\ op[j] # "none" /\ (op[j] \in Past => o \in Past)
    BY <2>1 DEF OpStates, Past
  <2>3. Asked
    BY <2>1, AskedByNobody
  <2> HIDE DEF o
  <2> QED BY <1>0, <2>1, <2>2, <2>3, OpMove
<1>9. CASE OpRunning(j)
  <2> DEFINE o == IF hit[j] THEN "cancelling" ELSE "running"
  <2>1. /\ op[j] = "admitted" /\ op' = [op EXCEPT ![j] = o] /\ Update(j[1], "running", 0)
        /\ UNCHANGED <<gen, verdict, resumer>>
    BY <1>9 DEF OpRunning, calls
  <2>2. o \in OpStates /\ op[j] # "none" /\ (op[j] \in Past => o \in Past)
    BY <2>1 DEF OpStates, Past
  <2>3. "running" \in ({"none"} \cup Active \cup Terminal) \ {"interrupted"}
    BY DEF Active
  <2>4. Asked
    BY <1>0, <2>1, <2>3, AskedByUpdate
  <2> HIDE DEF o
  <2> QED BY <1>0, <2>1, <2>2, <2>4, OpMove
<1>10. CASE OpResult(j)
  <2>1. /\ op[j] = "running" /\ op' = [op EXCEPT ![j] = "writing"]
        /\ UNCHANGED <<status, approval, gen, resumer>>
    BY <1>10 DEF OpResult, rows, calls
  <2>2. PICK v \in {"completed", "failed", "interrupted"} : verdict' = [verdict EXCEPT ![j] = v]
    BY <1>10 DEF OpResult
  <2>3. verdict' \in [Job -> {"none", "interrupted"} \cup Terminal]
    BY <1>0, <2>2 DEF Terminal
  <2>4. "writing" \in OpStates /\ op[j] # "none" /\ op[j] \notin Past
    BY <2>1 DEF OpStates, Past
  <2>5. Asked
    BY <2>1, AskedByNobody
  <2> QED BY <2>1, <2>3, <2>4, <2>5, OpMove
<1>11. CASE OpCancelled(j)
  <2>1. /\ op[j] = "cancelling" /\ op' = [op EXCEPT ![j] = "releasing"] /\ Update(j[1], "cancelled", 0)
        /\ \E v \in {"cancelled", "failed"} : verdict' = [verdict EXCEPT ![j] = v]
        /\ UNCHANGED <<gen, resumer>>
    BY <1>11 DEF OpCancelled, calls
  <2>2. verdict' \in [Job -> {"none", "interrupted"} \cup Terminal]
    BY <1>0, <2>1 DEF Terminal
  <2>3. "releasing" \in OpStates \cap Past /\ op[j] # "none"
    BY <2>1 DEF OpStates, Past
  <2>4. "cancelled" \in ({"none"} \cup Active \cup Terminal) \ {"interrupted"}
    BY DEF Terminal
  <2>5. Asked
    BY <1>0, <2>1, <2>4, AskedByUpdate
  <2> QED BY <2>1, <2>2, <2>3, <2>5, OpMove
<1>12. CASE OpFailed(j)
  <2>1. /\ op[j] = "failing" /\ op' = [op EXCEPT ![j] = "releasing"] /\ Update(j[1], "failed", 0)
        /\ verdict' = [verdict EXCEPT ![j] = "failed"]
        /\ UNCHANGED <<gen, resumer>>
    BY <1>12 DEF OpFailed, calls
  <2>2. verdict' \in [Job -> {"none", "interrupted"} \cup Terminal]
    BY <1>0, <2>1 DEF Terminal
  <2>3. "releasing" \in OpStates \cap Past /\ op[j] # "none"
    BY <2>1 DEF OpStates, Past
  <2>4. "failed" \in ({"none"} \cup Active \cup Terminal) \ {"interrupted"}
    BY DEF Terminal
  <2>5. Asked
    BY <1>0, <2>1, <2>4, AskedByUpdate
  <2> QED BY <2>1, <2>2, <2>3, <2>5, OpMove
<1>13. CASE OpWrite(j)
  BY <1>13, WriteKeeps
<1>14. CASE OpUnwritten(j) \/ OpUnreleased(j)
  <2>1. PICK o \in {"releasing", "leaving"} : op' = [op EXCEPT ![j] = o]
    BY <1>14 DEF OpUnwritten, OpUnreleased
  <2>2. /\ op[j] \in {"cancelling", "failing", "releasing"}
        /\ verdict' = [verdict EXCEPT ![j] = "failed"]
        /\ UNCHANGED <<status, approval, gen, resumer>>
    BY <1>14 DEF OpUnwritten, OpUnreleased, rows, calls
  <2>3. verdict' \in [Job -> {"none", "interrupted"} \cup Terminal]
    BY <1>0, <2>2 DEF Terminal
  <2>4. o \in OpStates \cap Past /\ op[j] # "none"
    BY <2>2 DEF OpStates, Past
  <2>5. Asked
    BY <2>2, AskedByNobody
  <2> QED BY <2>1, <2>2, <2>3, <2>4, <2>5, OpMove
<1> QED BY <1>1, <1>2, <1>3, <1>4, <1>5, <1>6, <1>7, <1>8, <1>9, <1>10, <1>11, <1>12, <1>13, <1>14
    DEF OpStep

-----------------------------------------------------------------------------
(* cancel *)

LEMMA CancelKeeps ==
    ASSUME ApprovalInv, NEW c \in Cancellers, CancelStep(c) \/ \E r \in Runs : CancelRead(c, r)
    PROVE  ApprovalInv'
<1>1. CASE CancelSettle(c)
  <2>1. Update(canceller[c].run, "cancelled", 0) /\ UNCHANGED <<gen, op, verdict, resumer>>
    BY <1>1 DEF CancelSettle, jobs
  <2>2. "cancelled" \in ({"none"} \cup Active \cup Terminal) \ {"interrupted"}
    BY DEF Terminal
  <2>3. CASE canceller[c].run \in Runs
    BY <2>1, <2>2, <2>3, UpdateStep
  <2>4. CASE canceller[c].run \notin Runs
    <3>1. /\ status \in [Runs -> {"none"} \cup Active \cup Terminal] /\ approval \in [Runs -> Nat]
          /\ status' = [status EXCEPT ![canceller[c].run] = "cancelled"]
          /\ approval' = [approval EXCEPT ![canceller[c].run] = 0]
      BY <2>1 DEF ApprovalInv, Shapes, Update
    <3>2. status' = status /\ approval' = approval
      BY <2>4, <3>1
    <3> QED BY <2>1, <3>2, StandStill
  <2> QED BY <2>3, <2>4
<1>2. CASE \/ CancelFlag(c) \/ CancelSignal(c) \/ CancelRelease(c) \/ CancelFails(c)
           \/ \E r \in Runs : CancelRead(c, r)
  <2>1. UNCHANGED <<status, approval, gen, op, verdict, resumer>>
    BY <1>2 DEF CancelFlag, CancelSignal, CancelRelease, CancelFails, CancelRead, rows, jobs
  <2> QED BY <2>1, StandStill
<1> QED BY <1>1, <1>2 DEF CancelStep

-----------------------------------------------------------------------------
(* resume *)

LEMMA ReadKeeps ==
    ASSUME ApprovalInv, NEW h \in Resumers, NEW r \in Runs, ResumeRead(h, r)
    PROVE  ApprovalInv'
<1> DEFINE u == [pc |-> "claim", run |-> r, id |-> approval[r]]
<1>1. /\ resumer' = [resumer EXCEPT ![h] = u]
      /\ UNCHANGED <<status, approval, gen, op, verdict>>
  BY DEF ResumeRead, rows, jobs
<1>2. Shapes /\ Submitted
  BY DEF ApprovalInv
<1>3. /\ u \in [pc : Calling, run : Runs, id : Nat]
      /\ u.pc = "claim"
  BY <1>2 DEF Shapes, Calling
<1> HIDE DEF u
<1>4. /\ resumer \in [Resumers -> [pc : {"idle", "lost"}] \cup [pc : Calling, run : Runs, id : Nat]]
      /\ resumer' \in [Resumers -> [pc : {"idle", "lost"}] \cup [pc : Calling, run : Runs, id : Nat]]
  BY <1>1, <1>2, <1>3 DEF Shapes, Calling
<1>5. \A g \in Resumers : resumer'[g].pc \in Calling \ {"claim", "refused"} => resumer'[g] = resumer[g]
  BY <1>1, <1>3, <1>4
<1>6. Shapes' /\ Submitted'
  BY <1>1, <1>2, <1>4 DEF Shapes, Submitted, Calling
<1> QED BY <1>1, <1>5, <1>6, KeepStep

\* The claim: the interrupt was pending, so nobody had consumed it.
LEMMA ClaimKeeps ==
    ASSUME ApprovalInv, NEW h \in Resumers, ResumeClaim(h)
    PROVE  ApprovalInv'
<1> DEFINE r == resumer[h].run
           i == resumer[h].id
           u == [resumer[h] EXCEPT !.pc = "claimed"]
<1>1. /\ resumer[h].pc = "claim" /\ status[r] = "interrupted" /\ approval[r] = i
      /\ status' = [status EXCEPT ![r] = "queued"]
      /\ resumer' = [resumer EXCEPT ![h] = u]
      /\ UNCHANGED <<approval, gen, op, verdict>>
  BY DEF ResumeClaim, Claimable, jobs
<1>2. /\ Shapes /\ Submitted /\ AskedByPast /\ ConsumedStays /\ ApprovalConsumedOnce
      /\ status \in [Runs -> {"none"} \cup Active \cup Terminal]
      /\ resumer \in [Resumers -> [pc : {"idle", "lost"}] \cup [pc : Calling, run : Runs, id : Nat]]
  BY DEF ApprovalInv, Shapes, Calling
<1>3. resumer[h] \in [pc : Calling, run : Runs, id : Nat]
  BY <1>1, <1>2
<1>4. /\ u \in [pc : Calling, run : Runs, id : Nat] /\ u.pc = "claimed" /\ u.run = r /\ u.id = i
      /\ r \in Runs
  BY <1>3 DEF Calling
<1> HIDE DEF u
<1>5. /\ resumer' \in [Resumers -> [pc : {"idle", "lost"}] \cup [pc : Calling, run : Runs, id : Nat]]
      /\ status' \in [Runs -> {"none"} \cup Active \cup Terminal]
  BY <1>1, <1>2, <1>4 DEF Active
<1>6. Shapes' /\ Submitted'
  BY <1>1, <1>2, <1>5 DEF Shapes, Submitted, Calling
<1>7. \A q \in Runs : status'[q] = "interrupted" => status[q] = "interrupted" /\ q # r
  BY <1>1, <1>2, <1>4
<1>8. AskedByPast'
  BY <1>1, <1>2, <1>7 DEF AskedByPast
<1>9. <<r, i>> \in Job /\ op[<<r, i>>] \in Past
  BY <1>1, <1>2, <1>4 DEF AskedByPast
<1>10. resumer'[h] = u /\ \A g \in Resumers \ {h} : resumer'[g] = resumer[g]
  BY <1>1, <1>2
<1>11. \A g \in Resumers \ {h} : Won(g)' => Won(g)
  BY <1>10 DEF Won
<1>12. ConsumedStays'
  <2> SUFFICES ASSUME NEW g \in Resumers, Won(g)'
               PROVE  /\ <<resumer'[g].run, resumer'[g].id>> \in Job
                      /\ op'[<<resumer'[g].run, resumer'[g].id>>] \in Past
                      /\ status'[resumer'[g].run] = "interrupted"
                            => approval'[resumer'[g].run] # resumer'[g].id
    BY DEF ConsumedStays
  <2>1. CASE g = h
    <3>1. resumer'[g].run = r /\ resumer'[g].id = i
      BY <1>4, <1>10, <2>1
    <3> QED BY <1>1, <1>4, <1>7, <1>9, <3>1
  <2>2. CASE g # h
    <3>1. /\ resumer'[g] = resumer[g] /\ Won(g)
      BY <1>10, <1>11, <2>2
    <3>2. /\ <<resumer[g].run, resumer[g].id>> \in Job
          /\ op[<<resumer[g].run, resumer[g].id>>] \in Past
          /\ status[resumer[g].run] = "interrupted" => approval[resumer[g].run] # resumer[g].id
      BY <1>2, <3>1 DEF ConsumedStays
    <3>3. resumer[g].run \in Runs
      BY <3>2 DEF Job
    <3> QED BY <1>1, <1>7, <3>1, <3>2, <3>3
  <2> QED BY <2>1, <2>2
<1>13. \A g \in Resumers : g # h /\ Won(g) => <<resumer[g].run, resumer[g].id>> # <<r, i>>
  BY <1>1, <1>2 DEF ConsumedStays
<1>14. ApprovalConsumedOnce'
  <2> SUFFICES ASSUME NEW f \in Resumers, NEW g \in Resumers, Won(f)', Won(g)', f # g
               PROVE  <<resumer'[f].run, resumer'[f].id>> # <<resumer'[g].run, resumer'[g].id>>
    BY DEF ApprovalConsumedOnce
  <2>1. CASE f # h /\ g # h
    BY <1>2, <1>10, <1>11, <2>1 DEF ApprovalConsumedOnce
  <2>2. CASE f = h
    <3>1. g # h /\ Won(g) /\ resumer'[g] = resumer[g]
      BY <1>10, <1>11, <2>2
    <3>2. resumer'[f].run = r /\ resumer'[f].id = i
      BY <1>4, <1>10, <2>2
    <3> QED BY <1>13, <3>1, <3>2
  <2>3. CASE g = h
    <3>1. f # h /\ Won(f) /\ resumer'[f] = resumer[f]
      BY <1>10, <1>11, <2>3
    <3>2. resumer'[g].run = r /\ resumer'[g].id = i
      BY <1>4, <1>10, <2>3
    <3> QED BY <1>13, <3>1, <3>2
  <2> QED BY <2>1, <2>2, <2>3
<1> QED BY <1>6, <1>8, <1>12, <1>14 DEF ApprovalInv

LEMMA ResumeKeeps ==
    ASSUME ApprovalInv, NEW h \in Resumers, ResumeStep(h)
    PROVE  ApprovalInv'
<1>0. /\ status \in [Runs -> {"none"} \cup Active \cup Terminal] /\ approval \in [Runs -> Nat]
      /\ resumer \in [Resumers -> [pc : {"idle", "lost"}] \cup [pc : Calling, run : Runs, id : Nat]]
      /\ \A p \in Calling : resumer[h].pc = p => resumer[h].run \in Runs
  <2>1. resumer \in [Resumers -> [pc : {"idle", "lost"}] \cup [pc : Calling, run : Runs, id : Nat]]
    BY DEF ApprovalInv, Shapes, Calling
  <2>2. CASE resumer[h] \in [pc : {"idle", "lost"}]
    BY <2>1, <2>2 DEF ApprovalInv, Shapes, Calling
  <2>3. CASE resumer[h] \in [pc : Calling, run : Runs, id : Nat]
    BY <2>1, <2>3 DEF ApprovalInv, Shapes
  <2> QED BY <2>1, <2>2, <2>3
<1>1. CASE ResumeRefused(h)
  <2>1. /\ resumer[h].pc = "claim" /\ resumer' = [resumer EXCEPT ![h].pc = "refused"]
        /\ UNCHANGED <<status, approval, gen, op, verdict>>
    BY <1>1 DEF ResumeRefused, rows, jobs
  <2>2. Asked
    BY <2>1, AskedByNobody
  <2>3. "refused" \in Calling /\ resumer[h].pc \in Calling
    BY <2>1 DEF Calling
  <2> QED BY <2>1, <2>2, <2>3, ResumerMove
<1>2. CASE ResumeWait(h)
  <2>1. /\ resumer[h].pc = "claimed" /\ resumer' = [resumer EXCEPT ![h].pc = "wait"]
        /\ UNCHANGED <<status, approval, gen, op, verdict>>
    BY <1>2 DEF ResumeWait, rows, jobs
  <2>2. Asked
    BY <2>1, AskedByNobody
  <2>3. "wait" \in Calling /\ resumer[h].pc \in Calling
    BY <2>1 DEF Calling
  <2> QED BY <2>1, <2>2, <2>3, ResumerMove
<1>3. CASE ResumeAwaitedCancelled(h)
  <2>1. /\ resumer[h].pc = "wait" /\ resumer' = [resumer EXCEPT ![h].pc = "cancelling"]
        /\ UNCHANGED <<status, approval, gen, op, verdict>>
    BY <1>3 DEF ResumeAwaitedCancelled, Awaited, rows, jobs
  <2>2. Asked
    BY <2>1, AskedByNobody
  <2>3. "cancelling" \in Calling /\ resumer[h].pc \in Calling
    BY <2>1 DEF Calling
  <2> QED BY <2>1, <2>2, <2>3, ResumerMove
<1>4. CASE ResumeRejected(h)
  <2>1. /\ resumer[h].pc \in {"claimed", "wait"} /\ resumer' = [resumer EXCEPT ![h].pc = "failing"]
        /\ UNCHANGED <<status, approval, gen, op, verdict>>
    BY <1>4 DEF ResumeRejected, Dispatchable, Awaited, rows, jobs
  <2>2. Asked
    BY <2>1, AskedByNobody
  <2>3. "failing" \in Calling /\ resumer[h].pc \in Calling
    BY <2>1 DEF Calling
  <2> QED BY <2>1, <2>2, <2>3, ResumerMove
<1>5. CASE ResumeAbandon(h)
  <2>1. /\ resumer[h].pc \in {"claimed", "wait"} /\ resumer' = [resumer EXCEPT ![h].pc = "cancelling"]
        /\ UNCHANGED <<status, approval, gen, op, verdict>>
    BY <1>5 DEF ResumeAbandon, rows, jobs
  <2>2. Asked
    BY <2>1, AskedByNobody
  <2>3. "cancelling" \in Calling /\ resumer[h].pc \in Calling
    BY <2>1 DEF Calling
  <2> QED BY <2>1, <2>2, <2>3, ResumerMove
<1>6. CASE ResumeRelease(h)
  <2>1. /\ resumer[h].pc = "releasing" /\ resumer' = [resumer EXCEPT ![h].pc = "finished"]
        /\ UNCHANGED <<status, approval, gen, op, verdict>>
    BY <1>6 DEF ResumeRelease, rows, jobs
  <2>2. Asked
    BY <2>1, AskedByNobody
  <2>3. "finished" \in Calling /\ resumer[h].pc \in Calling
    BY <2>1 DEF Calling
  <2> QED BY <2>1, <2>2, <2>3, ResumerMove
<1>7. CASE ResumeExpired(h)
  <2>1. /\ resumer[h].pc = "claim" /\ resumer' = [resumer EXCEPT ![h].pc = "refused"]
        /\ status' = [status EXCEPT ![resumer[h].run] = "interrupted_expired"]
        /\ UNCHANGED <<approval, gen, op, verdict>>
    BY <1>7 DEF ResumeExpired, jobs
  <2>2. Asked
    BY <1>0, <2>1 DEF Asked, Terminal
  <2>3. "refused" \in Calling /\ resumer[h].pc \in Calling
    BY <2>1 DEF Calling
  <2> QED BY <2>1, <2>2, <2>3, ResumerMove
<1>8. CASE ResumeFinish(h)
  <2> DEFINE t == IF resumer[h].pc = "failing" THEN "failed" ELSE "cancelled"
  <2>1. /\ resumer[h].pc \in {"cancelling", "failing"}
        /\ resumer' = [resumer EXCEPT ![h].pc = "releasing"]
        /\ Update(resumer[h].run, t, 0)
        /\ UNCHANGED <<gen, op, verdict>>
    BY <1>8 DEF ResumeFinish, jobs
  <2>2. t \in ({"none"} \cup Active \cup Terminal) \ {"interrupted"}
    BY DEF Terminal
  <2>3. "releasing" \in Calling /\ resumer[h].pc \in Calling /\ resumer[h].pc \notin {"claim", "refused"}
    BY <2>1 DEF Calling
  <2> HIDE DEF t
  <2>4. Asked
    BY <1>0, <2>1, <2>2, <2>3, AskedByUpdate
  <2> QED BY <2>1, <2>3, <2>4, ResumerMove
<1>9. CASE ResumeSubmit(h)
  <2>1. /\ resumer[h].pc \in {"claimed", "wait"} /\ resumer' = [resumer EXCEPT ![h].pc = "scheduled"]
        /\ Enqueue(resumer[h].run) /\ UNCHANGED <<status, approval>>
    BY <1>9 DEF ResumeSubmit, Dispatchable, Awaited, rows
  <2>2. /\ "scheduled" \in Calling /\ resumer[h].pc \in Calling
        /\ resumer[h].pc \notin {"claim", "refused"} /\ resumer[h].run \in Runs
    BY <1>0, <2>1 DEF Calling
  <2>3. /\ resumer' \in [Resumers -> [pc : {"idle", "lost"}] \cup [pc : Calling, run : Runs, id : Nat]]
        /\ \A g \in Resumers : resumer'[g].pc \in Calling \ {"claim", "refused"} =>
              /\ resumer[g].pc \in Calling \ {"claim", "refused"}
              /\ resumer'[g].run = resumer[g].run /\ resumer'[g].id = resumer[g].id
    BY <2>1, <2>2, CallMoves DEF ApprovalInv
  <2> QED BY <2>1, <2>2, <2>3, EnqueueStep
<1>10. CASE ResumeClaim(h)
  BY <1>10, ClaimKeeps
<1>11. CASE ResumeFails(h)
  <2>1. /\ resumer[h].pc \in {"cancelling", "failing", "releasing"}
        /\ resumer' = [resumer EXCEPT ![h].pc = "finished"]
        /\ UNCHANGED <<status, approval, gen, op, verdict>>
    BY <1>11 DEF ResumeFails, rows, jobs
  <2>2. Asked
    BY <2>1, AskedByNobody
  <2>3. "finished" \in Calling /\ resumer[h].pc \in Calling /\ resumer[h].pc \notin {"claim", "refused"}
    BY <2>1 DEF Calling
  <2> QED BY <2>1, <2>2, <2>3, ResumerMove
<1> QED BY <1>1, <1>2, <1>3, <1>4, <1>5, <1>6, <1>7, <1>8, <1>9, <1>10, <1>11 DEF ResumeStep

-----------------------------------------------------------------------------
(* The crash, and the specification *)

LEMMA RestartKeeps ==
    ASSUME ApprovalInv, Restart
    PROVE  ApprovalInv'
<1>1. /\ status' = [r \in Runs |-> Recovered(r)]
      /\ op' = [j \in Job |-> IF op[j] \in {"none", "done", "dropped"} THEN op[j] ELSE "lost"]
      /\ resumer' = [h \in Resumers |-> Lost(resumer[h])]
      /\ UNCHANGED <<approval, gen, verdict>>
  BY DEF Restart
<1>2. /\ Shapes /\ Submitted
      /\ status \in [Runs -> {"none"} \cup Active \cup Terminal]
      /\ op \in [Job -> OpStates]
      /\ resumer \in [Resumers -> [pc : {"idle", "lost"}] \cup [pc : Calling, run : Runs, id : Nat]]
  BY DEF ApprovalInv, Shapes, Calling
<1>3. /\ status' \in [Runs -> {"none"} \cup Active \cup Terminal]
      /\ \A r \in Runs : status'[r] = "interrupted" => status[r] = "interrupted"
  BY <1>1, <1>2 DEF Recovered, Terminal
<1>4. op' \in [Job -> OpStates] /\ \A j \in Job : op[j] = "none" => op'[j] = "none"
  BY <1>1, <1>2 DEF OpStates
<1>5. \A j \in Job : op[j] \in Past => op'[j] \in Past
  BY <1>1 DEF Past
<1>6. \A h \in Resumers : resumer'[h] = resumer[h] \/ resumer'[h] = [pc |-> "lost"]
  BY <1>1 DEF Lost
<1>7. resumer' \in [Resumers -> [pc : {"idle", "lost"}] \cup [pc : Calling, run : Runs, id : Nat]]
  BY <1>1, <1>2, <1>6
<1>8. \A h \in Resumers : resumer'[h].pc \in Calling \ {"claim", "refused"} => resumer'[h] = resumer[h]
  BY <1>6 DEF Calling
<1>9. Shapes'
  BY <1>1, <1>2, <1>3, <1>4, <1>7 DEF Shapes, Calling
<1>10. Submitted'
  BY <1>1, <1>2, <1>4 DEF Submitted
<1> QED BY <1>1, <1>3, <1>5, <1>8, <1>9, <1>10, KeepStep

LEMMA StepInv == ApprovalInv /\ [Next]_vars => ApprovalInv'
<1> SUFFICES ASSUME ApprovalInv, [Next]_vars PROVE ApprovalInv'
  OBVIOUS
<1>1. CASE \E r \in Runs : CreateStep(r)
  BY <1>1, CreateKeeps
<1>2. CASE \E j \in Job : OpStep(j)
  BY <1>2, OpKeeps
<1>3. CASE \E c \in Cancellers : CancelStep(c) \/ \E r \in Runs : CancelRead(c, r)
  BY <1>3, CancelKeeps
<1>4. CASE \E h \in Resumers : ResumeStep(h) \/ \E r \in Runs : ResumeRead(h, r)
  BY <1>4, ResumeKeeps, ReadKeeps
<1>5. CASE Restart
  BY <1>5, RestartKeeps
<1>6. CASE UNCHANGED vars
  <2>1. UNCHANGED <<status, approval, gen, op, verdict, resumer>>
    BY <1>6 DEF vars, rows, jobs, calls
  <2> QED BY <2>1, StandStill
<1> QED BY <1>1, <1>2, <1>3, <1>4, <1>5, <1>6 DEF Next

\* Concurrent approvals of one interrupt have one winner (claim_interrupt), for
\* any number of runs, generations, callers and crashes.
THEOREM OneApprovalWins == Spec => []ApprovalConsumedOnce
<1>1. ApprovalInv => ApprovalConsumedOnce
  BY DEF ApprovalInv
<1> QED BY <1>1, InitInv, StepInv, PTL DEF Spec

-----------------------------------------------------------------------------
(* Turns without approvals *)

LEMMA FirstJob ==
    ASSUME NEW r \in Runs
    PROVE  <<r, 1>> \in Job /\ <<r, 1>>[1] = r /\ <<r, 1>>[2] = 1
BY RunLifecycleAssumption DEF Job

LEMMA TurnInit == Init => TurnInv
<1> SUFFICES ASSUME Init PROVE TurnInv
  OBVIOUS
<1>1. TypeOK
  BY RunLifecycleAssumption DEF Init, TypeOK, OpStates, Call
<1>2. CancelShapes
  BY DEF Init, CancelShapes, Call
<1>3. NoQuestion /\ SettlesDropped
  BY DEF Init, NoQuestion, SettlesDropped, Settling, Call
<1>4. OneGeneration
  BY DEF Init, OneGeneration, Live
<1>5. LeaseKept
  BY DEF Init, LeaseKept, Drained
<1> QED BY <1>1, <1>2, <1>3, <1>4, <1>5 DEF TurnInv

-----------------------------------------------------------------------------
\* Any step of an operation but its first: it leaves behind nothing a cancel
\* settles, and gives up the lease only once it has drained.
LEMMA TurnOp ==
    ASSUME TurnInv, TypeOK', NEW j \in Job, NEW o \in OpStates \ {"none", "queued"},
           op[j] \notin {"none", "dropped"}, op' = [op EXCEPT ![j] = o],
           o = "dropped" <=> op[j] = "queued" /\ hit[j],
           Drained(j) => o \in {"dropped", "leaving", "done"},
           UNCHANGED <<gen, hit, creator, canceller, resumer>>,
           \A r \in Runs : status'[r] # "interrupted",
           \A i \in Job : verdict'[i] # "interrupted",
           \A r \in Runs : sched'[r] = "queued" => sched[r] = "queued",
           \A r \in Runs : sched'[r] \in Live => sched[r] \in Live \/ r = j[1],
           op[j] = "queued" => sched'[j[1]] # "queued",
           \A r \in Runs : lease'[r] => lease[r],
           \A r \in Runs : lease'[r] = lease[r] \/ (r = j[1] /\ op[j] = "releasing")
    PROVE  TurnInv'
<1>1. /\ TypeOK /\ CancelShapes /\ NoQuestion /\ OneGeneration /\ SettlesDropped /\ LeaseKept
      /\ op \in [Job -> OpStates]
  BY DEF TurnInv, TypeOK
<1>2. /\ j[1] \in Runs /\ j = <<j[1], 1>> /\ gen[j[1]] = 1
      /\ op'[j] = o /\ \A i \in Job : i # j => op'[i] = op[i]
  BY <1>1, JobShape DEF OneGeneration
<1>3. CancelShapes'
  BY <1>1 DEF CancelShapes
<1>4. NoQuestion'
  BY <1>1 DEF NoQuestion
<1>5. OneGeneration'
  <2>1. \A i \in Job : op'[i] # "none" => i[2] = 1 /\ gen[i[1]] = 1
    BY <1>1, <1>2 DEF OneGeneration
  <2>2. ASSUME NEW r \in Runs, sched'[r] = "queued"
        PROVE  gen[r] = 1 /\ op'[<<r, 1>>] = "queued" /\ ~hit[<<r, 1>>]
    <3>1. gen[r] = 1 /\ op[<<r, 1>>] = "queued" /\ ~hit[<<r, 1>>]
      BY <1>1, <2>2 DEF OneGeneration
    <3>2. <<r, 1>> # j
      BY <2>2, <3>1, <1>2
    <3> QED BY <1>2, <3>1, <3>2, FirstJob
  <2>3. \A r \in Runs : sched'[r] \in Live => gen[r] = 1
    BY <1>1, <1>2 DEF OneGeneration
  <2> QED BY <1>1, <2>1, <2>2, <2>3 DEF OneGeneration
<1>6. \A i \in Job : Drained(i)' \/ lease'[i[1]]
  <2> SUFFICES ASSUME NEW i \in Job PROVE Drained(i)' \/ lease'[i[1]]
    OBVIOUS
  <2>0. i[1] \in Runs
    BY JobShape
  <2>1. CASE i = j
    BY <1>1, <1>2, <2>0, <2>1 DEF LeaseKept, Drained
  <2>2. CASE i # j
    <3>1. Drained(i) => Drained(i)'
      BY <1>2, <2>2 DEF Drained
    <3>2. i[1] = j[1] => Drained(i)
      <4> SUFFICES ASSUME i[1] = j[1] PROVE op[i] = "none"
        BY DEF Drained
      <4> QED BY <1>1, <1>2, <2>2, JobShape DEF OneGeneration
    <3> QED BY <1>1, <2>0, <3>1, <3>2 DEF LeaseKept
  <2> QED BY <2>1, <2>2
<1>7. LeaseKept'
  <2>1. ASSUME NEW r \in Runs, creator[r] = "accepted" PROVE lease'[r]
    <3>1. lease[r] /\ gen[r] = 0
      BY <1>1, <2>1 DEF LeaseKept, OneGeneration
    <3> QED BY <1>2, <3>1
  <2> QED BY <1>1, <1>6, <2>1 DEF LeaseKept
<1>8. SettlesDropped'
  <2> SUFFICES ASSUME NEW c \in Cancellers, NEW r \in Runs, Settling(c, r)
               PROVE  /\ gen[r] = 1 /\ sched'[r] # "queued"
                      /\ op'[<<r, 1>>] = "dropped" \/ (op'[<<r, 1>>] = "queued" /\ hit[<<r, 1>>])
                      /\ canceller[c].pc = "settle" => lease'[r] /\ \A d \in Cancellers : Settling(d, r) => d = c
    BY DEF SettlesDropped, Settling
  <2>1. /\ gen[r] = 1 /\ sched[r] # "queued"
        /\ op[<<r, 1>>] = "dropped" \/ (op[<<r, 1>>] = "queued" /\ hit[<<r, 1>>])
        /\ canceller[c].pc = "settle" => lease[r] /\ \A d \in Cancellers : Settling(d, r) => d = c
    BY <1>1 DEF SettlesDropped
  <2>2. op'[<<r, 1>>] = "dropped" \/ (op'[<<r, 1>>] = "queued" /\ hit[<<r, 1>>])
    BY <1>2, <2>1, FirstJob
  <2>3. lease'[r] = lease[r]
    BY <1>2, <2>1
  <2> QED BY <2>1, <2>2, <2>3
<1> QED BY <1>3, <1>4, <1>5, <1>7, <1>8 DEF TurnInv
-----------------------------------------------------------------------------
\* Steps of cancel that neither touch the jobs nor settle.
LEMMA TurnCall ==
    ASSUME TurnInv, TypeOK', CancelShapes', UNCHANGED <<status, lease, jobs, creator, resumer>>,
           \A c \in Cancellers : canceller'[c].pc \in {"flag", "signal"} => canceller'[c].record # "interrupted",
           \A c \in Cancellers : canceller'[c].pc \in {"settle", "release"} =>
                 canceller[c].pc = canceller'[c].pc /\ canceller[c].run = canceller'[c].run
    PROVE  TurnInv'
<1>1. /\ NoQuestion /\ OneGeneration /\ SettlesDropped /\ LeaseKept
      /\ UNCHANGED <<status, lease, gen, sched, op, verdict, hit, creator, resumer>>
  BY DEF TurnInv, jobs
<1>2. NoQuestion' /\ OneGeneration'
  BY <1>1 DEF NoQuestion, OneGeneration
<1>3. \A j \in Job : Drained(j)' <=> Drained(j)
  BY <1>1 DEF Drained
<1>4. LeaseKept'
  BY <1>1, <1>3 DEF LeaseKept
<1>5. \A c \in Cancellers, r \in Runs : Settling(c, r)' => Settling(c, r) /\ canceller'[c].pc = canceller[c].pc
  BY DEF Settling
<1>6. SettlesDropped'
  BY <1>1, <1>5 DEF SettlesDropped
<1> QED BY <1>2, <1>4, <1>6 DEF TurnInv

\* What scheduler.cancel does to a run, in facts about single jobs.
LEMMA SignalEffect ==
    ASSUME NEW r \in Runs, SchedulerCancel(r),
           sched \in [Runs -> Live \cup {"none", "ended"}], hit \in [Job -> BOOLEAN]
    PROVE  /\ \A q \in Runs : sched'[q] = sched[q] \/ (q = r /\ sched'[q] = "ended")
           /\ sched'[r] \notin Live
           /\ sched[r] \notin Live => hit' = hit
           /\ hit' \in [Job -> BOOLEAN]
           /\ \A i \in Job : hit[i] => hit'[i]
           /\ \A i \in Job : i[1] # r => (hit'[i] <=> hit[i])
           /\ \A i \in Job : sched[r] \in Live /\ i = <<r, gen[r]>> => hit'[i]
<1>1. CASE sched[r] \notin Live
  <2>1. sched' = sched /\ hit' = hit
    BY <1>1 DEF SchedulerCancel
  <2> QED BY <1>1, <2>1
<1>2. CASE sched[r] \in Live
  <2>1. /\ sched' = [sched EXCEPT ![r] = "ended"]
        /\ hit' = [j \in Job |-> \/ hit[j] \/ j = <<r, gen[r]>>
                                 \/ j = <<r, registered[r]>> /\ op[<<r, gen[r]>>] # "queued"]
    BY <1>2 DEF SchedulerCancel
  <2>2. /\ \A q \in Runs : sched'[q] = sched[q] \/ (q = r /\ sched'[q] = "ended")
        /\ sched'[r] = "ended"
    <3>1. \A q \in Runs : sched'[q] = IF q = r THEN "ended" ELSE sched[q]
      BY <2>1
    <3> QED BY <3>1
  <2>3. hit' \in [Job -> BOOLEAN]
    BY <2>1
  <2>4. ASSUME NEW i \in Job
        PROVE  hit'[i] <=> \/ hit[i] \/ i = <<r, gen[r]>>
                           \/ i = <<r, registered[r]>> /\ op[<<r, gen[r]>>] # "queued"
    BY <2>1
  <2>5. \A i \in Job : i[1] # r => i # <<r, gen[r]>> /\ i # <<r, registered[r]>>
    OBVIOUS
  <2> QED BY <1>2, <2>2, <2>3, <2>4, <2>5 DEF Live
<1> QED BY <1>1, <1>2

\* A job that was queued is hit before anything ran: cancel will settle it.
LEMMA TurnSignal ==
    ASSUME TurnInv, NEW c \in Cancellers, CancelSignal(c)
    PROVE  TurnInv'
<1>1. /\ CancelShapes /\ NoQuestion /\ OneGeneration /\ SettlesDropped /\ LeaseKept
      /\ sched \in [Runs -> Live \cup {"none", "ended"}] /\ hit \in [Job -> BOOLEAN]
  BY DEF TurnInv, TypeOK
<1>2. canceller[c].pc = "signal"
  BY DEF CancelSignal
<1>3. canceller[c] \in [pc : {"flag", "signal"}, run : Runs, record : Active] /\ canceller[c].record # "interrupted"
  BY <1>1, <1>2 DEF CancelShapes, NoQuestion
<1>4. PICK r \in Runs : r = canceller[c].run
  BY <1>3
<1> DEFINE told == \/ sched[r] \in Live
                   \/ PendingDispatch(canceller[c].record, sched[r])
                   \/ canceller[c].record = "interrupted"
           u == [pc |-> IF SettlesHere(canceller[c].record, sched[r]) THEN "settle" ELSE "done",
                 run |-> r, told |-> told]
<1>5. /\ SchedulerCancel(r) /\ canceller' = [canceller EXCEPT ![c] = u]
      /\ UNCHANGED <<status, lease, gen, op, verdict, creator, resumer>>
  BY <1>4 DEF CancelSignal, rows
<1>6. /\ u \in [pc : {"settle", "release", "done"}, run : Runs, told : BOOLEAN]
      /\ u.run = r /\ u.pc = IF sched[r] = "queued" THEN "settle" ELSE "done"
  BY <1>3 DEF SettlesHere, PendingDispatch
<1> HIDE DEF u, told
<1>7. /\ canceller'[c] = u /\ \A d \in Cancellers : d # c => canceller'[d] = canceller[d]
      /\ CancelShapes'
  BY <1>1, <1>5, <1>6 DEF CancelShapes
<1>8. NoQuestion' /\ TypeOK'
  <2>1. sched' \in [Runs -> Live \cup {"none", "ended"}]
    BY <1>1, <1>5 DEF SchedulerCancel
  <2>2. hit' \in [Job -> BOOLEAN]
    BY <1>1, <1>5, SignalEffect
  <2>3. UNCHANGED <<flagged, approval, registered, life>>
    BY DEF CancelSignal, rows
  <2>4. TypeOK'
    BY <1>5, <1>7, <2>1, <2>2, <2>3 DEF TurnInv, TypeOK, CancelShapes, life
  <2>5. NoQuestion'
    BY <1>1, <1>5, <1>6, <1>7 DEF NoQuestion
  <2> QED BY <2>4, <2>5
<1>9. /\ \A q \in Runs : sched'[q] = sched[q] \/ (q = r /\ sched'[q] = "ended")
      /\ \A i \in Job : hit[i] => hit'[i]
      /\ \A i \in Job : i[1] # r => (hit'[i] <=> hit[i])
  BY <1>1, <1>5, SignalEffect
<1>10. sched[r] = "queued" =>
         gen[r] = 1 /\ op[<<r, 1>>] = "queued" /\ ~hit[<<r, 1>>] /\ hit'[<<r, 1>>] /\ sched'[r] # "queued"
  <2>1. sched[r] = "queued" => gen[r] = 1 /\ op[<<r, 1>>] = "queued" /\ ~hit[<<r, 1>>]
    BY <1>1 DEF OneGeneration
  <2>2. sched[r] = "queued" => sched[r] \in Live
    BY DEF Live
  <2>3. sched[r] = "queued" => hit'[<<r, 1>>] /\ sched'[r] \notin Live
    BY <1>1, <1>5, <2>1, <2>2, FirstJob, SignalEffect
  <2> QED BY <2>1, <2>2, <2>3 DEF Live
<1>11. OneGeneration'
  <2>1. ASSUME NEW q \in Runs, sched'[q] = "queued" PROVE gen[q] = 1 /\ op[<<q, 1>>] = "queued" /\ ~hit'[<<q, 1>>]
    <3>1. sched[q] = "queued" /\ q # r
      BY <1>9, <1>10, <2>1
    <3>2. gen[q] = 1 /\ op[<<q, 1>>] = "queued" /\ ~hit[<<q, 1>>]
      BY <1>1, <3>1 DEF OneGeneration
    <3> QED BY <1>9, <3>1, <3>2, FirstJob
  <2>2. \A q \in Runs : sched'[q] \in Live => gen[q] = 1
    BY <1>1, <1>9 DEF OneGeneration, Live
  <2>3. ASSUME NEW i \in Job, hit'[i] PROVE gen[i[1]] = 1
    <3>1. i[1] = r => hit[i] \/ sched[r] \in Live
      BY <1>1, <1>5, <2>3, SignalEffect
    <3> QED BY <1>1, <1>4, <1>9, <2>3, <3>1 DEF OneGeneration
  <2> QED BY <1>1, <1>5, <2>1, <2>2, <2>3 DEF OneGeneration
<1>12. \A i \in Job : Drained(i) => Drained(i)'
  BY <1>5, <1>9 DEF Drained
<1>13. LeaseKept'
  BY <1>1, <1>5, <1>12 DEF LeaseKept
<1>14. SettlesDropped'
  <2> SUFFICES ASSUME NEW d \in Cancellers, NEW q \in Runs, Settling(d, q)'
               PROVE  /\ gen[q] = 1 /\ sched'[q] # "queued"
                      /\ op[<<q, 1>>] = "dropped" \/ (op[<<q, 1>>] = "queued" /\ hit'[<<q, 1>>])
                      /\ canceller'[d].pc = "settle" => lease[q] /\ \A e \in Cancellers : Settling(e, q)' => e = d
    BY <1>5 DEF SettlesDropped
  <2>1. \A e \in Cancellers, p \in Runs : Settling(e, p)' =>
           \/ e # c /\ Settling(e, p) /\ canceller'[e].pc = canceller[e].pc
           \/ e = c /\ p = r /\ sched[r] = "queued"
    BY <1>6, <1>7 DEF Settling
  <2>2. \A e \in Cancellers : sched[r] = "queued" => ~Settling(e, r)
    BY <1>1 DEF SettlesDropped
  <2>3. CASE d = c
    <3>1. q = r /\ sched[r] = "queued"
      BY <2>1, <2>3
    <3>2. lease[r]
      BY <1>1, <1>10, <3>1, FirstJob DEF LeaseKept, Drained
    <3>3. \A e \in Cancellers : Settling(e, r)' => e = c
      BY <2>1, <2>2, <3>1
    <3> QED BY <1>10, <2>3, <3>1, <3>2, <3>3
  <2>4. CASE d # c
    <3>1. Settling(d, q) /\ canceller'[d].pc = canceller[d].pc
      BY <2>1, <2>4
    <3>2. /\ gen[q] = 1 /\ sched[q] # "queued"
          /\ op[<<q, 1>>] = "dropped" \/ (op[<<q, 1>>] = "queued" /\ hit[<<q, 1>>])
          /\ canceller[d].pc = "settle" => lease[q] /\ \A e \in Cancellers : Settling(e, q) => e = d
      BY <1>1, <3>1 DEF SettlesDropped
    <3>3. sched'[q] # "queued"
      BY <1>9, <3>2
    <3>4. op[<<q, 1>>] = "dropped" \/ (op[<<q, 1>>] = "queued" /\ hit'[<<q, 1>>])
      BY <1>9, <3>2, FirstJob
    <3>5. \A e \in Cancellers : Settling(e, q)' => Settling(e, q)
      BY <2>1, <3>2
    <3> QED BY <3>1, <3>2, <3>3, <3>4, <3>5
  <2> QED BY <2>3, <2>4
<1> QED BY <1>7, <1>8, <1>11, <1>13, <1>14 DEF TurnInv

\* The types survive a step of an operation that keeps to them.
LEMMA TurnOpTypes ==
    ASSUME TypeOK, NEW j \in Job, NEW o \in OpStates, op' = [op EXCEPT ![j] = o],
           status' \in [Runs -> {"none"} \cup Active \cup Terminal],
           approval' \in [Runs -> 0..MaxGen], lease' \in [Runs -> BOOLEAN],
           verdict' \in [Job -> {"none", "interrupted"} \cup Terminal],
           sched' \in [Runs -> Live \cup {"none", "ended"}], registered' \in [Runs -> 0..MaxGen],
           UNCHANGED <<gen, hit, flagged, creator, canceller, resumer, life>>
    PROVE  TypeOK'
<1>1. op' \in [Job -> OpStates]
  BY DEF TypeOK
<1> QED BY <1>1 DEF TypeOK, life

LEMMA TurnOpDrop == ASSUME TurnInv, ~Approvals, NEW j \in Job, OpDrop(j) PROVE TurnInv'
<1> DEFINE o == "dropped"
<1>1. /\ op[j] = "queued" /\ hit[j] /\ op' = [op EXCEPT ![j] = o]
      /\ UNCHANGED <<gen, hit, flagged, creator, canceller, resumer, life>>
  BY DEF OpDrop, rows, calls
<1>2. /\ TypeOK /\ NoQuestion /\ OneGeneration /\ j[1] \in Runs /\ j[2] \in 0..MaxGen
  BY JobShape DEF TurnInv
<1>3. o \in OpStates \ {"none", "queued"} /\ (o = "dropped" <=> op[j] = "queued" /\ hit[j])
  BY <1>1 DEF OpStates
<1>4. Drained(j) => o \in {"dropped", "leaving", "done"}
  BY <1>1 DEF Drained
<1>5. UNCHANGED <<status, approval, lease>>
  BY DEF OpDrop, rows
<1>6. /\ status' \in [Runs -> {"none"} \cup Active \cup Terminal] /\ approval' \in [Runs -> 0..MaxGen]
      /\ lease' \in [Runs -> BOOLEAN] /\ \A r \in Runs : status'[r] # "interrupted"
  BY <1>2, <1>5 DEF TypeOK, NoQuestion
<1>7. verdict' = verdict
  BY DEF OpDrop
<1>8. /\ verdict' \in [Job -> {"none", "interrupted"} \cup Terminal]
      /\ \A i \in Job : verdict'[i] # "interrupted"
  BY <1>2, <1>7 DEF TypeOK, NoQuestion, Terminal
<1>9. sched' = [sched EXCEPT ![j[1]] = "ended"] /\ registered' = registered
  BY DEF OpDrop
<1>10. /\ sched' \in [Runs -> Live \cup {"none", "ended"}] /\ registered' \in [Runs -> 0..MaxGen]
       /\ \A r \in Runs : sched'[r] = "queued" => sched[r] = "queued"
       /\ \A r \in Runs : sched'[r] \in Live => sched[r] \in Live \/ r = j[1]
       /\ op[j] = "queued" => sched'[j[1]] # "queued"
  BY <1>1, <1>2, <1>9, RunLifecycleAssumption DEF TypeOK, Live
<1>11. /\ \A r \in Runs : lease'[r] => lease[r]
       /\ \A r \in Runs : lease'[r] = lease[r] \/ (r = j[1] /\ op[j] = "releasing")
  BY <1>1, <1>2, <1>5 DEF TypeOK
<1> HIDE DEF o
<1>12. TypeOK'
  BY <1>1, <1>2, <1>3, <1>6, <1>8, <1>10, TurnOpTypes
<1> QED BY <1>1, <1>3, <1>4, <1>6, <1>8, <1>10, <1>11, <1>12, TurnOp

LEMMA TurnOpEnter == ASSUME TurnInv, ~Approvals, NEW j \in Job, OpEnter(j) PROVE TurnInv'
<1> DEFINE o == "entered"
<1>1. /\ op[j] = "queued" /\ ~hit[j] /\ op' = [op EXCEPT ![j] = o]
      /\ UNCHANGED <<gen, hit, flagged, creator, canceller, resumer, life>>
  BY DEF OpEnter, rows, calls
<1>2. /\ TypeOK /\ NoQuestion /\ OneGeneration /\ j[1] \in Runs /\ j[2] \in 0..MaxGen
  BY JobShape DEF TurnInv
<1>3. o \in OpStates \ {"none", "queued"} /\ (o = "dropped" <=> op[j] = "queued" /\ hit[j])
  BY <1>1 DEF OpStates
<1>4. Drained(j) => o \in {"dropped", "leaving", "done"}
  BY <1>1 DEF Drained
<1>5. UNCHANGED <<status, approval, lease>>
  BY DEF OpEnter, rows
<1>6. /\ status' \in [Runs -> {"none"} \cup Active \cup Terminal] /\ approval' \in [Runs -> 0..MaxGen]
      /\ lease' \in [Runs -> BOOLEAN] /\ \A r \in Runs : status'[r] # "interrupted"
  BY <1>2, <1>5 DEF TypeOK, NoQuestion
<1>7. verdict' = verdict
  BY DEF OpEnter
<1>8. /\ verdict' \in [Job -> {"none", "interrupted"} \cup Terminal]
      /\ \A i \in Job : verdict'[i] # "interrupted"
  BY <1>2, <1>7 DEF TypeOK, NoQuestion, Terminal
<1>9. sched' = [sched EXCEPT ![j[1]] = "running"] /\ registered' = [registered EXCEPT ![j[1]] = j[2]]
  BY DEF OpEnter
<1>10. /\ sched' \in [Runs -> Live \cup {"none", "ended"}] /\ registered' \in [Runs -> 0..MaxGen]
       /\ \A r \in Runs : sched'[r] = "queued" => sched[r] = "queued"
       /\ \A r \in Runs : sched'[r] \in Live => sched[r] \in Live \/ r = j[1]
       /\ op[j] = "queued" => sched'[j[1]] # "queued"
  BY <1>1, <1>2, <1>9, RunLifecycleAssumption DEF TypeOK, Live
<1>11. /\ \A r \in Runs : lease'[r] => lease[r]
       /\ \A r \in Runs : lease'[r] = lease[r] \/ (r = j[1] /\ op[j] = "releasing")
  BY <1>1, <1>2, <1>5 DEF TypeOK
<1> HIDE DEF o
<1>12. TypeOK'
  BY <1>1, <1>2, <1>3, <1>6, <1>8, <1>10, TurnOpTypes
<1> QED BY <1>1, <1>3, <1>4, <1>6, <1>8, <1>10, <1>11, <1>12, TurnOp

LEMMA TurnOpCheck == ASSUME TurnInv, ~Approvals, NEW j \in Job, OpCheck(j) PROVE TurnInv'
<1> DEFINE o == IF hit[j] \/ flagged[j[1]] THEN "cancelling" ELSE "admitted"
<1>1. /\ op[j] = "entered" /\ op' = [op EXCEPT ![j] = o]
      /\ UNCHANGED <<gen, hit, flagged, creator, canceller, resumer, life>>
  BY DEF OpCheck, rows, calls
<1>2. /\ TypeOK /\ NoQuestion /\ OneGeneration /\ j[1] \in Runs /\ j[2] \in 0..MaxGen
  BY JobShape DEF TurnInv
<1>3. o \in OpStates \ {"none", "queued"} /\ (o = "dropped" <=> op[j] = "queued" /\ hit[j])
  BY <1>1 DEF OpStates
<1>4. Drained(j) => o \in {"dropped", "leaving", "done"}
  BY <1>1 DEF Drained
<1>5. UNCHANGED <<status, approval, lease>>
  BY DEF OpCheck, rows
<1>6. /\ status' \in [Runs -> {"none"} \cup Active \cup Terminal] /\ approval' \in [Runs -> 0..MaxGen]
      /\ lease' \in [Runs -> BOOLEAN] /\ \A r \in Runs : status'[r] # "interrupted"
  BY <1>2, <1>5 DEF TypeOK, NoQuestion
<1>7. verdict' = verdict
  BY DEF OpCheck
<1>8. /\ verdict' \in [Job -> {"none", "interrupted"} \cup Terminal]
      /\ \A i \in Job : verdict'[i] # "interrupted"
  BY <1>2, <1>7 DEF TypeOK, NoQuestion, Terminal
<1>9. UNCHANGED <<sched, registered>>
  BY DEF OpCheck
<1>10. /\ sched' \in [Runs -> Live \cup {"none", "ended"}] /\ registered' \in [Runs -> 0..MaxGen]
       /\ \A r \in Runs : sched'[r] = "queued" => sched[r] = "queued"
       /\ \A r \in Runs : sched'[r] \in Live => sched[r] \in Live \/ r = j[1]
       /\ op[j] = "queued" => sched'[j[1]] # "queued"
  BY <1>1, <1>2, <1>9, RunLifecycleAssumption DEF TypeOK, Live
<1>11. /\ \A r \in Runs : lease'[r] => lease[r]
       /\ \A r \in Runs : lease'[r] = lease[r] \/ (r = j[1] /\ op[j] = "releasing")
  BY <1>1, <1>2, <1>5 DEF TypeOK
<1> HIDE DEF o
<1>12. TypeOK'
  BY <1>1, <1>2, <1>3, <1>6, <1>8, <1>10, TurnOpTypes
<1> QED BY <1>1, <1>3, <1>4, <1>6, <1>8, <1>10, <1>11, <1>12, TurnOp

LEMMA TurnOpRunning == ASSUME TurnInv, ~Approvals, NEW j \in Job, OpRunning(j) PROVE TurnInv'
<1> DEFINE o == IF hit[j] THEN "cancelling" ELSE "running"
<1>1. /\ op[j] = "admitted" /\ op' = [op EXCEPT ![j] = o]
      /\ UNCHANGED <<gen, hit, flagged, creator, canceller, resumer, life>>
  BY DEF OpRunning, calls, Update
<1>2. /\ TypeOK /\ NoQuestion /\ OneGeneration /\ j[1] \in Runs /\ j[2] \in 0..MaxGen
  BY JobShape DEF TurnInv
<1>3. o \in OpStates \ {"none", "queued"} /\ (o = "dropped" <=> op[j] = "queued" /\ hit[j])
  BY <1>1 DEF OpStates
<1>4. Drained(j) => o \in {"dropped", "leaving", "done"}
  BY <1>1 DEF Drained
<1>5. status' = [status EXCEPT ![j[1]] = "running"] /\ approval' = [approval EXCEPT ![j[1]] = 0] /\ lease' = lease
  BY DEF OpRunning, Update
<1>6. /\ status' \in [Runs -> {"none"} \cup Active \cup Terminal] /\ approval' \in [Runs -> 0..MaxGen]
      /\ lease' \in [Runs -> BOOLEAN] /\ \A r \in Runs : status'[r] # "interrupted"
  BY <1>2, <1>5, RunLifecycleAssumption DEF TypeOK, NoQuestion, Active, Terminal
<1>7. verdict' = verdict
  BY DEF OpRunning
<1>8. /\ verdict' \in [Job -> {"none", "interrupted"} \cup Terminal]
      /\ \A i \in Job : verdict'[i] # "interrupted"
  BY <1>2, <1>7 DEF TypeOK, NoQuestion, Terminal
<1>9. UNCHANGED <<sched, registered>>
  BY DEF OpRunning
<1>10. /\ sched' \in [Runs -> Live \cup {"none", "ended"}] /\ registered' \in [Runs -> 0..MaxGen]
       /\ \A r \in Runs : sched'[r] = "queued" => sched[r] = "queued"
       /\ \A r \in Runs : sched'[r] \in Live => sched[r] \in Live \/ r = j[1]
       /\ op[j] = "queued" => sched'[j[1]] # "queued"
  BY <1>1, <1>2, <1>9, RunLifecycleAssumption DEF TypeOK, Live
<1>11. /\ \A r \in Runs : lease'[r] => lease[r]
       /\ \A r \in Runs : lease'[r] = lease[r] \/ (r = j[1] /\ op[j] = "releasing")
  BY <1>1, <1>2, <1>5 DEF TypeOK
<1> HIDE DEF o
<1>12. TypeOK'
  BY <1>1, <1>2, <1>3, <1>6, <1>8, <1>10, TurnOpTypes
<1> QED BY <1>1, <1>3, <1>4, <1>6, <1>8, <1>10, <1>11, <1>12, TurnOp

LEMMA TurnOpResult == ASSUME TurnInv, ~Approvals, NEW j \in Job, OpResult(j) PROVE TurnInv'
<1> DEFINE o == "writing"
<1>1. /\ op[j] = "running" /\ op' = [op EXCEPT ![j] = o]
      /\ UNCHANGED <<gen, hit, flagged, creator, canceller, resumer, life>>
  BY DEF OpResult, rows, calls
<1>2. /\ TypeOK /\ NoQuestion /\ OneGeneration /\ j[1] \in Runs /\ j[2] \in 0..MaxGen
  BY JobShape DEF TurnInv
<1>3. o \in OpStates \ {"none", "queued"} /\ (o = "dropped" <=> op[j] = "queued" /\ hit[j])
  BY <1>1 DEF OpStates
<1>4. Drained(j) => o \in {"dropped", "leaving", "done"}
  BY <1>1 DEF Drained
<1>5. UNCHANGED <<status, approval, lease>>
  BY DEF OpResult, rows
<1>6. /\ status' \in [Runs -> {"none"} \cup Active \cup Terminal] /\ approval' \in [Runs -> 0..MaxGen]
      /\ lease' \in [Runs -> BOOLEAN] /\ \A r \in Runs : status'[r] # "interrupted"
  BY <1>2, <1>5 DEF TypeOK, NoQuestion
<1>7. \E v \in {"completed", "failed"} : verdict' = [verdict EXCEPT ![j] = v]
  BY DEF OpResult
<1>8. /\ verdict' \in [Job -> {"none", "interrupted"} \cup Terminal]
      /\ \A i \in Job : verdict'[i] # "interrupted"
  BY <1>2, <1>7 DEF TypeOK, NoQuestion, Terminal
<1>9. UNCHANGED <<sched, registered>>
  BY DEF OpResult
<1>10. /\ sched' \in [Runs -> Live \cup {"none", "ended"}] /\ registered' \in [Runs -> 0..MaxGen]
       /\ \A r \in Runs : sched'[r] = "queued" => sched[r] = "queued"
       /\ \A r \in Runs : sched'[r] \in Live => sched[r] \in Live \/ r = j[1]
       /\ op[j] = "queued" => sched'[j[1]] # "queued"
  BY <1>1, <1>2, <1>9, RunLifecycleAssumption DEF TypeOK, Live
<1>11. /\ \A r \in Runs : lease'[r] => lease[r]
       /\ \A r \in Runs : lease'[r] = lease[r] \/ (r = j[1] /\ op[j] = "releasing")
  BY <1>1, <1>2, <1>5 DEF TypeOK
<1> HIDE DEF o
<1>12. TypeOK'
  BY <1>1, <1>2, <1>3, <1>6, <1>8, <1>10, TurnOpTypes
<1> QED BY <1>1, <1>3, <1>4, <1>6, <1>8, <1>10, <1>11, <1>12, TurnOp

LEMMA TurnOpInterruptedByCancel == ASSUME TurnInv, ~Approvals, NEW j \in Job, OpInterruptedByCancel(j) PROVE TurnInv'
<1> DEFINE o == "cancelling"
<1>1. /\ op[j] \in {"running", "writing", "written"} /\ op' = [op EXCEPT ![j] = o]
      /\ UNCHANGED <<gen, hit, flagged, creator, canceller, resumer, life>>
  BY DEF OpInterruptedByCancel, rows, calls
<1>2. /\ TypeOK /\ NoQuestion /\ OneGeneration /\ j[1] \in Runs /\ j[2] \in 0..MaxGen
  BY JobShape DEF TurnInv
<1>3. o \in OpStates \ {"none", "queued"} /\ (o = "dropped" <=> op[j] = "queued" /\ hit[j])
  BY <1>1 DEF OpStates
<1>4. Drained(j) => o \in {"dropped", "leaving", "done"}
  BY <1>1 DEF Drained
<1>5. UNCHANGED <<status, approval, lease>>
  BY DEF OpInterruptedByCancel, rows
<1>6. /\ status' \in [Runs -> {"none"} \cup Active \cup Terminal] /\ approval' \in [Runs -> 0..MaxGen]
      /\ lease' \in [Runs -> BOOLEAN] /\ \A r \in Runs : status'[r] # "interrupted"
  BY <1>2, <1>5 DEF TypeOK, NoQuestion
<1>7. verdict' = verdict
  BY DEF OpInterruptedByCancel
<1>8. /\ verdict' \in [Job -> {"none", "interrupted"} \cup Terminal]
      /\ \A i \in Job : verdict'[i] # "interrupted"
  BY <1>2, <1>7 DEF TypeOK, NoQuestion, Terminal
<1>9. UNCHANGED <<sched, registered>>
  BY DEF OpInterruptedByCancel
<1>10. /\ sched' \in [Runs -> Live \cup {"none", "ended"}] /\ registered' \in [Runs -> 0..MaxGen]
       /\ \A r \in Runs : sched'[r] = "queued" => sched[r] = "queued"
       /\ \A r \in Runs : sched'[r] \in Live => sched[r] \in Live \/ r = j[1]
       /\ op[j] = "queued" => sched'[j[1]] # "queued"
  BY <1>1, <1>2, <1>9, RunLifecycleAssumption DEF TypeOK, Live
<1>11. /\ \A r \in Runs : lease'[r] => lease[r]
       /\ \A r \in Runs : lease'[r] = lease[r] \/ (r = j[1] /\ op[j] = "releasing")
  BY <1>1, <1>2, <1>5 DEF TypeOK
<1> HIDE DEF o
<1>12. TypeOK'
  BY <1>1, <1>2, <1>3, <1>6, <1>8, <1>10, TurnOpTypes
<1> QED BY <1>1, <1>3, <1>4, <1>6, <1>8, <1>10, <1>11, <1>12, TurnOp

LEMMA TurnOpRaise == ASSUME TurnInv, ~Approvals, NEW j \in Job, OpRaise(j) PROVE TurnInv'
<1> DEFINE o == "failing"
<1>1. /\ op[j] \in {"entered", "admitted", "running", "writing", "written"} /\ op' = [op EXCEPT ![j] = o]
      /\ UNCHANGED <<gen, hit, flagged, creator, canceller, resumer, life>>
  BY DEF OpRaise, rows, calls
<1>2. /\ TypeOK /\ NoQuestion /\ OneGeneration /\ j[1] \in Runs /\ j[2] \in 0..MaxGen
  BY JobShape DEF TurnInv
<1>3. o \in OpStates \ {"none", "queued"} /\ (o = "dropped" <=> op[j] = "queued" /\ hit[j])
  BY <1>1 DEF OpStates
<1>4. Drained(j) => o \in {"dropped", "leaving", "done"}
  BY <1>1 DEF Drained
<1>5. UNCHANGED <<status, approval, lease>>
  BY DEF OpRaise, rows
<1>6. /\ status' \in [Runs -> {"none"} \cup Active \cup Terminal] /\ approval' \in [Runs -> 0..MaxGen]
      /\ lease' \in [Runs -> BOOLEAN] /\ \A r \in Runs : status'[r] # "interrupted"
  BY <1>2, <1>5 DEF TypeOK, NoQuestion
<1>7. verdict' = verdict
  BY DEF OpRaise
<1>8. /\ verdict' \in [Job -> {"none", "interrupted"} \cup Terminal]
      /\ \A i \in Job : verdict'[i] # "interrupted"
  BY <1>2, <1>7 DEF TypeOK, NoQuestion, Terminal
<1>9. UNCHANGED <<sched, registered>>
  BY DEF OpRaise
<1>10. /\ sched' \in [Runs -> Live \cup {"none", "ended"}] /\ registered' \in [Runs -> 0..MaxGen]
       /\ \A r \in Runs : sched'[r] = "queued" => sched[r] = "queued"
       /\ \A r \in Runs : sched'[r] \in Live => sched[r] \in Live \/ r = j[1]
       /\ op[j] = "queued" => sched'[j[1]] # "queued"
  BY <1>1, <1>2, <1>9, RunLifecycleAssumption DEF TypeOK, Live
<1>11. /\ \A r \in Runs : lease'[r] => lease[r]
       /\ \A r \in Runs : lease'[r] = lease[r] \/ (r = j[1] /\ op[j] = "releasing")
  BY <1>1, <1>2, <1>5 DEF TypeOK
<1> HIDE DEF o
<1>12. TypeOK'
  BY <1>1, <1>2, <1>3, <1>6, <1>8, <1>10, TurnOpTypes
<1> QED BY <1>1, <1>3, <1>4, <1>6, <1>8, <1>10, <1>11, <1>12, TurnOp

LEMMA TurnOpWrite == ASSUME TurnInv, ~Approvals, NEW j \in Job, OpWrite(j) PROVE TurnInv'
<1> DEFINE o == "written"
<1>1. /\ op[j] = "writing" /\ op' = [op EXCEPT ![j] = o]
      /\ UNCHANGED <<gen, hit, flagged, creator, canceller, resumer, life>>
  BY DEF OpWrite, calls, Update
<1>2. /\ TypeOK /\ NoQuestion /\ OneGeneration /\ j[1] \in Runs /\ j[2] \in 0..MaxGen
  BY JobShape DEF TurnInv
<1>3. o \in OpStates \ {"none", "queued"} /\ (o = "dropped" <=> op[j] = "queued" /\ hit[j])
  BY <1>1 DEF OpStates
<1>4. Drained(j) => o \in {"dropped", "leaving", "done"}
  BY <1>1 DEF Drained
<1>5. /\ status' = [status EXCEPT ![j[1]] = verdict[j]] /\ approval' = [approval EXCEPT ![j[1]] = 0]
      /\ lease' = lease /\ verdict[j] \in {"none"} \cup Terminal
  BY <1>2 DEF OpWrite, Update, NoQuestion, TypeOK
<1>6. /\ status' \in [Runs -> {"none"} \cup Active \cup Terminal] /\ approval' \in [Runs -> 0..MaxGen]
      /\ lease' \in [Runs -> BOOLEAN] /\ \A r \in Runs : status'[r] # "interrupted"
  BY <1>2, <1>5, RunLifecycleAssumption DEF TypeOK, NoQuestion, Active, Terminal
<1>7. verdict' = verdict
  BY DEF OpWrite
<1>8. /\ verdict' \in [Job -> {"none", "interrupted"} \cup Terminal]
      /\ \A i \in Job : verdict'[i] # "interrupted"
  BY <1>2, <1>7 DEF TypeOK, NoQuestion, Terminal
<1>9. UNCHANGED <<sched, registered>>
  BY DEF OpWrite
<1>10. /\ sched' \in [Runs -> Live \cup {"none", "ended"}] /\ registered' \in [Runs -> 0..MaxGen]
       /\ \A r \in Runs : sched'[r] = "queued" => sched[r] = "queued"
       /\ \A r \in Runs : sched'[r] \in Live => sched[r] \in Live \/ r = j[1]
       /\ op[j] = "queued" => sched'[j[1]] # "queued"
  BY <1>1, <1>2, <1>9, RunLifecycleAssumption DEF TypeOK, Live
<1>11. /\ \A r \in Runs : lease'[r] => lease[r]
       /\ \A r \in Runs : lease'[r] = lease[r] \/ (r = j[1] /\ op[j] = "releasing")
  BY <1>1, <1>2, <1>5 DEF TypeOK
<1> HIDE DEF o
<1>12. TypeOK'
  BY <1>1, <1>2, <1>3, <1>6, <1>8, <1>10, TurnOpTypes
<1> QED BY <1>1, <1>3, <1>4, <1>6, <1>8, <1>10, <1>11, <1>12, TurnOp

LEMMA TurnOpWritten == ASSUME TurnInv, ~Approvals, NEW j \in Job, OpWritten(j) PROVE TurnInv'
<1> DEFINE o == "releasing"
<1>1. /\ op[j] = "written" /\ op' = [op EXCEPT ![j] = o]
      /\ UNCHANGED <<gen, hit, flagged, creator, canceller, resumer, life>>
  BY DEF OpWritten, rows, calls
<1>2. /\ TypeOK /\ NoQuestion /\ OneGeneration /\ j[1] \in Runs /\ j[2] \in 0..MaxGen
  BY JobShape DEF TurnInv
<1>3. o \in OpStates \ {"none", "queued"} /\ (o = "dropped" <=> op[j] = "queued" /\ hit[j])
  BY <1>1 DEF OpStates
<1>4. Drained(j) => o \in {"dropped", "leaving", "done"}
  BY <1>1 DEF Drained
<1>5. UNCHANGED <<status, approval, lease>>
  BY DEF OpWritten, rows
<1>6. /\ status' \in [Runs -> {"none"} \cup Active \cup Terminal] /\ approval' \in [Runs -> 0..MaxGen]
      /\ lease' \in [Runs -> BOOLEAN] /\ \A r \in Runs : status'[r] # "interrupted"
  BY <1>2, <1>5 DEF TypeOK, NoQuestion
<1>7. verdict' = verdict
  BY DEF OpWritten
<1>8. /\ verdict' \in [Job -> {"none", "interrupted"} \cup Terminal]
      /\ \A i \in Job : verdict'[i] # "interrupted"
  BY <1>2, <1>7 DEF TypeOK, NoQuestion, Terminal
<1>9. UNCHANGED <<sched, registered>>
  BY DEF OpWritten
<1>10. /\ sched' \in [Runs -> Live \cup {"none", "ended"}] /\ registered' \in [Runs -> 0..MaxGen]
       /\ \A r \in Runs : sched'[r] = "queued" => sched[r] = "queued"
       /\ \A r \in Runs : sched'[r] \in Live => sched[r] \in Live \/ r = j[1]
       /\ op[j] = "queued" => sched'[j[1]] # "queued"
  BY <1>1, <1>2, <1>9, RunLifecycleAssumption DEF TypeOK, Live
<1>11. /\ \A r \in Runs : lease'[r] => lease[r]
       /\ \A r \in Runs : lease'[r] = lease[r] \/ (r = j[1] /\ op[j] = "releasing")
  BY <1>1, <1>2, <1>5 DEF TypeOK
<1> HIDE DEF o
<1>12. TypeOK'
  BY <1>1, <1>2, <1>3, <1>6, <1>8, <1>10, TurnOpTypes
<1> QED BY <1>1, <1>3, <1>4, <1>6, <1>8, <1>10, <1>11, <1>12, TurnOp

LEMMA TurnOpCancelled == ASSUME TurnInv, ~Approvals, NEW j \in Job, OpCancelled(j) PROVE TurnInv'
<1> DEFINE o == "releasing"
<1>1. /\ op[j] = "cancelling" /\ op' = [op EXCEPT ![j] = o]
      /\ UNCHANGED <<gen, hit, flagged, creator, canceller, resumer, life>>
  BY DEF OpCancelled, calls, Update
<1>2. /\ TypeOK /\ NoQuestion /\ OneGeneration /\ j[1] \in Runs /\ j[2] \in 0..MaxGen
  BY JobShape DEF TurnInv
<1>3. o \in OpStates \ {"none", "queued"} /\ (o = "dropped" <=> op[j] = "queued" /\ hit[j])
  BY <1>1 DEF OpStates
<1>4. Drained(j) => o \in {"dropped", "leaving", "done"}
  BY <1>1 DEF Drained
<1>5. status' = [status EXCEPT ![j[1]] = "cancelled"] /\ approval' = [approval EXCEPT ![j[1]] = 0] /\ lease' = lease
  BY DEF OpCancelled, Update
<1>6. /\ status' \in [Runs -> {"none"} \cup Active \cup Terminal] /\ approval' \in [Runs -> 0..MaxGen]
      /\ lease' \in [Runs -> BOOLEAN] /\ \A r \in Runs : status'[r] # "interrupted"
  BY <1>2, <1>5, RunLifecycleAssumption DEF TypeOK, NoQuestion, Active, Terminal
<1>7. PICK v \in {"cancelled", "failed"} : verdict' = [verdict EXCEPT ![j] = v]
  BY DEF OpCancelled
<1>8. /\ verdict' \in [Job -> {"none", "interrupted"} \cup Terminal]
      /\ \A i \in Job : verdict'[i] # "interrupted"
  BY <1>2, <1>7 DEF TypeOK, NoQuestion, Terminal
<1>9. UNCHANGED <<sched, registered>>
  BY DEF OpCancelled
<1>10. /\ sched' \in [Runs -> Live \cup {"none", "ended"}] /\ registered' \in [Runs -> 0..MaxGen]
       /\ \A r \in Runs : sched'[r] = "queued" => sched[r] = "queued"
       /\ \A r \in Runs : sched'[r] \in Live => sched[r] \in Live \/ r = j[1]
       /\ op[j] = "queued" => sched'[j[1]] # "queued"
  BY <1>1, <1>2, <1>9, RunLifecycleAssumption DEF TypeOK, Live
<1>11. /\ \A r \in Runs : lease'[r] => lease[r]
       /\ \A r \in Runs : lease'[r] = lease[r] \/ (r = j[1] /\ op[j] = "releasing")
  BY <1>1, <1>2, <1>5 DEF TypeOK
<1> HIDE DEF o
<1>12. TypeOK'
  BY <1>1, <1>2, <1>3, <1>6, <1>8, <1>10, TurnOpTypes
<1> QED BY <1>1, <1>3, <1>4, <1>6, <1>8, <1>10, <1>11, <1>12, TurnOp

LEMMA TurnOpFailed == ASSUME TurnInv, ~Approvals, NEW j \in Job, OpFailed(j) PROVE TurnInv'
<1> DEFINE o == "releasing"
<1>1. /\ op[j] = "failing" /\ op' = [op EXCEPT ![j] = o]
      /\ UNCHANGED <<gen, hit, flagged, creator, canceller, resumer, life>>
  BY DEF OpFailed, calls, Update
<1>2. /\ TypeOK /\ NoQuestion /\ OneGeneration /\ j[1] \in Runs /\ j[2] \in 0..MaxGen
  BY JobShape DEF TurnInv
<1>3. o \in OpStates \ {"none", "queued"} /\ (o = "dropped" <=> op[j] = "queued" /\ hit[j])
  BY <1>1 DEF OpStates
<1>4. Drained(j) => o \in {"dropped", "leaving", "done"}
  BY <1>1 DEF Drained
<1>5. status' = [status EXCEPT ![j[1]] = "failed"] /\ approval' = [approval EXCEPT ![j[1]] = 0] /\ lease' = lease
  BY DEF OpFailed, Update
<1>6. /\ status' \in [Runs -> {"none"} \cup Active \cup Terminal] /\ approval' \in [Runs -> 0..MaxGen]
      /\ lease' \in [Runs -> BOOLEAN] /\ \A r \in Runs : status'[r] # "interrupted"
  BY <1>2, <1>5, RunLifecycleAssumption DEF TypeOK, NoQuestion, Active, Terminal
<1>7. verdict' = [verdict EXCEPT ![j] = "failed"]
  BY DEF OpFailed
<1>8. /\ verdict' \in [Job -> {"none", "interrupted"} \cup Terminal]
      /\ \A i \in Job : verdict'[i] # "interrupted"
  BY <1>2, <1>7 DEF TypeOK, NoQuestion, Terminal
<1>9. UNCHANGED <<sched, registered>>
  BY DEF OpFailed
<1>10. /\ sched' \in [Runs -> Live \cup {"none", "ended"}] /\ registered' \in [Runs -> 0..MaxGen]
       /\ \A r \in Runs : sched'[r] = "queued" => sched[r] = "queued"
       /\ \A r \in Runs : sched'[r] \in Live => sched[r] \in Live \/ r = j[1]
       /\ op[j] = "queued" => sched'[j[1]] # "queued"
  BY <1>1, <1>2, <1>9, RunLifecycleAssumption DEF TypeOK, Live
<1>11. /\ \A r \in Runs : lease'[r] => lease[r]
       /\ \A r \in Runs : lease'[r] = lease[r] \/ (r = j[1] /\ op[j] = "releasing")
  BY <1>1, <1>2, <1>5 DEF TypeOK
<1> HIDE DEF o
<1>12. TypeOK'
  BY <1>1, <1>2, <1>3, <1>6, <1>8, <1>10, TurnOpTypes
<1> QED BY <1>1, <1>3, <1>4, <1>6, <1>8, <1>10, <1>11, <1>12, TurnOp

LEMMA TurnOpRelease == ASSUME TurnInv, ~Approvals, NEW j \in Job, OpRelease(j) PROVE TurnInv'
<1> DEFINE o == "leaving"
<1>1. /\ op[j] = "releasing" /\ op' = [op EXCEPT ![j] = o]
      /\ UNCHANGED <<gen, hit, flagged, creator, canceller, resumer, life>>
  BY DEF OpRelease, calls
<1>2. /\ TypeOK /\ NoQuestion /\ OneGeneration /\ j[1] \in Runs /\ j[2] \in 0..MaxGen
  BY JobShape DEF TurnInv
<1>3. o \in OpStates \ {"none", "queued"} /\ (o = "dropped" <=> op[j] = "queued" /\ hit[j])
  BY <1>1 DEF OpStates
<1>4. Drained(j) => o \in {"dropped", "leaving", "done"}
  BY <1>1 DEF Drained
<1>5. UNCHANGED <<status, approval>> /\ lease' = [lease EXCEPT ![j[1]] = @ /\ status[j[1]] \notin Terminal]
  BY DEF OpRelease, Release
<1>6. /\ status' \in [Runs -> {"none"} \cup Active \cup Terminal] /\ approval' \in [Runs -> 0..MaxGen]
      /\ lease' \in [Runs -> BOOLEAN] /\ \A r \in Runs : status'[r] # "interrupted"
  BY <1>2, <1>5 DEF TypeOK, NoQuestion
<1>7. verdict' = verdict
  BY DEF OpRelease
<1>8. /\ verdict' \in [Job -> {"none", "interrupted"} \cup Terminal]
      /\ \A i \in Job : verdict'[i] # "interrupted"
  BY <1>2, <1>7 DEF TypeOK, NoQuestion, Terminal
<1>9. UNCHANGED <<sched, registered>>
  BY DEF OpRelease
<1>10. /\ sched' \in [Runs -> Live \cup {"none", "ended"}] /\ registered' \in [Runs -> 0..MaxGen]
       /\ \A r \in Runs : sched'[r] = "queued" => sched[r] = "queued"
       /\ \A r \in Runs : sched'[r] \in Live => sched[r] \in Live \/ r = j[1]
       /\ op[j] = "queued" => sched'[j[1]] # "queued"
  BY <1>1, <1>2, <1>9, RunLifecycleAssumption DEF TypeOK, Live
<1>11. /\ \A r \in Runs : lease'[r] => lease[r]
       /\ \A r \in Runs : lease'[r] = lease[r] \/ (r = j[1] /\ op[j] = "releasing")
  BY <1>1, <1>2, <1>5 DEF TypeOK
<1> HIDE DEF o
<1>12. TypeOK'
  BY <1>1, <1>2, <1>3, <1>6, <1>8, <1>10, TurnOpTypes
<1> QED BY <1>1, <1>3, <1>4, <1>6, <1>8, <1>10, <1>11, <1>12, TurnOp

LEMMA TurnOpLeave == ASSUME TurnInv, ~Approvals, NEW j \in Job, OpLeave(j) PROVE TurnInv'
<1> DEFINE o == "done"
<1>1. /\ op[j] = "leaving" /\ op' = [op EXCEPT ![j] = o]
      /\ UNCHANGED <<gen, hit, flagged, creator, canceller, resumer, life>>
  BY DEF OpLeave, rows, calls
<1>2. /\ TypeOK /\ NoQuestion /\ OneGeneration /\ j[1] \in Runs /\ j[2] \in 0..MaxGen
  BY JobShape DEF TurnInv
<1>3. o \in OpStates \ {"none", "queued"} /\ (o = "dropped" <=> op[j] = "queued" /\ hit[j])
  BY <1>1 DEF OpStates
<1>4. Drained(j) => o \in {"dropped", "leaving", "done"}
  BY <1>1 DEF Drained
<1>5. UNCHANGED <<status, approval, lease>>
  BY DEF OpLeave, rows
<1>6. /\ status' \in [Runs -> {"none"} \cup Active \cup Terminal] /\ approval' \in [Runs -> 0..MaxGen]
      /\ lease' \in [Runs -> BOOLEAN] /\ \A r \in Runs : status'[r] # "interrupted"
  BY <1>2, <1>5 DEF TypeOK, NoQuestion
<1>7. verdict' = verdict
  BY DEF OpLeave
<1>8. /\ verdict' \in [Job -> {"none", "interrupted"} \cup Terminal]
      /\ \A i \in Job : verdict'[i] # "interrupted"
  BY <1>2, <1>7 DEF TypeOK, NoQuestion, Terminal
<1>9. sched' = [sched EXCEPT ![j[1]] = "ended"] /\ registered' = [registered EXCEPT ![j[1]] = 0]
  BY DEF OpLeave
<1>10. /\ sched' \in [Runs -> Live \cup {"none", "ended"}] /\ registered' \in [Runs -> 0..MaxGen]
       /\ \A r \in Runs : sched'[r] = "queued" => sched[r] = "queued"
       /\ \A r \in Runs : sched'[r] \in Live => sched[r] \in Live \/ r = j[1]
       /\ op[j] = "queued" => sched'[j[1]] # "queued"
  BY <1>1, <1>2, <1>9, RunLifecycleAssumption DEF TypeOK, Live
<1>11. /\ \A r \in Runs : lease'[r] => lease[r]
       /\ \A r \in Runs : lease'[r] = lease[r] \/ (r = j[1] /\ op[j] = "releasing")
  BY <1>1, <1>2, <1>5 DEF TypeOK
<1> HIDE DEF o
<1>12. TypeOK'
  BY <1>1, <1>2, <1>3, <1>6, <1>8, <1>10, TurnOpTypes
<1> QED BY <1>1, <1>3, <1>4, <1>6, <1>8, <1>10, <1>11, <1>12, TurnOp


\* The stores fail: the operation ends with its row, and its lease, as they are.
LEMMA TurnOpStranded ==
    ASSUME TurnInv, NEW j \in Job, OpUnwritten(j) \/ OpUnreleased(j)
    PROVE  TurnInv'
<1> DEFINE o == IF op[j] = "releasing" THEN "leaving" ELSE "releasing"
<1>1. /\ op[j] \in {"cancelling", "failing", "releasing"} /\ op' = [op EXCEPT ![j] = o]
      /\ verdict' = [verdict EXCEPT ![j] = "failed"]
      /\ stranded' = [stranded EXCEPT ![j[1]] = TRUE]
      /\ UNCHANGED <<gen, hit, flagged, creator, canceller, resumer, restarts>>
      /\ UNCHANGED <<status, approval, lease, sched, registered>>
  BY DEF OpUnwritten, OpUnreleased, Strand, rows, calls
<1>2. TypeOK /\ NoQuestion
  BY DEF TurnInv
<1>3. o \in OpStates \ {"none", "queued"} /\ (o = "dropped" <=> op[j] = "queued" /\ hit[j])
  BY <1>1 DEF OpStates
<1>4. Drained(j) => o \in {"dropped", "leaving", "done"}
  BY <1>1 DEF Drained
<1> HIDE DEF o
<1>5. /\ verdict' \in [Job -> {"none", "interrupted"} \cup Terminal]
      /\ \A i \in Job : verdict'[i] # "interrupted"
  BY <1>1, <1>2 DEF TypeOK, NoQuestion, Terminal
<1>6. op' \in [Job -> OpStates] /\ stranded' \in [Runs -> BOOLEAN]
  BY <1>1, <1>2, <1>3 DEF TypeOK
<1>7. TypeOK'
  BY <1>1, <1>2, <1>5, <1>6 DEF TypeOK
<1>8. \A r \in Runs : status'[r] # "interrupted"
  BY <1>1, <1>2 DEF NoQuestion
<1> QED BY <1>1, <1>3, <1>4, <1>5, <1>7, <1>8, TurnOp

LEMMA TurnOpStep == ASSUME TurnInv, ~Approvals, NEW j \in Job, OpStep(j) PROVE TurnInv'
BY TurnOpDrop, TurnOpEnter, TurnOpCheck, TurnOpRunning, TurnOpResult, TurnOpInterruptedByCancel,
   TurnOpRaise, TurnOpWrite, TurnOpWritten, TurnOpCancelled, TurnOpFailed, TurnOpRelease, TurnOpLeave,
   TurnOpStranded DEF OpStep

-----------------------------------------------------------------------------
\* Steps that leave jobs and calls of cancel alone: leases only go, but for the
\* one a new turn takes when nobody has any.
LEMMA TurnRow ==
    ASSUME TurnInv, TypeOK', UNCHANGED <<gen, sched, op, verdict, hit, canceller, resumer>>,
           \A r \in Runs : status'[r] # "interrupted",
           \A r \in Runs : creator'[r] # "done" => creator[r] # "done",
           \A r \in Runs : creator[r] = "done" /\ lease[r] => lease'[r],
           \A r \in Runs : creator'[r] = "accepted" => lease'[r],
           \A q, r \in Runs : lease'[q] /\ lease'[r] => q = r
    PROVE  TurnInv'
<1>1. CancelShapes /\ NoQuestion /\ OneGeneration /\ SettlesDropped /\ LeaseKept
  BY DEF TurnInv
<1>2. CancelShapes' /\ NoQuestion' /\ OneGeneration'
  BY <1>1 DEF CancelShapes, NoQuestion, OneGeneration
<1>3. \A r \in Runs : gen[r] = 1 /\ lease[r] => lease'[r]
  BY <1>1 DEF OneGeneration
<1>4. \A j \in Job : Drained(j)' \/ lease'[j[1]]
  <2> SUFFICES ASSUME NEW j \in Job, ~Drained(j)' PROVE lease'[j[1]]
    OBVIOUS
  <2>1. ~Drained(j) /\ op[j] # "none"
    BY DEF Drained
  <2>2. lease[j[1]] /\ gen[j[1]] = 1 /\ j[1] \in Runs
    BY <1>1, <2>1, JobShape DEF LeaseKept, OneGeneration
  <2> QED BY <1>3, <2>2
<1>5. LeaseKept'
  BY <1>4 DEF LeaseKept
<1>6. \A c \in Cancellers, r \in Runs : Settling(c, r)' <=> Settling(c, r)
  BY DEF Settling
<1>7. SettlesDropped'
  BY <1>1, <1>3, <1>6 DEF SettlesDropped
<1> QED BY <1>2, <1>5, <1>7 DEF TurnInv

LEMMA TurnCreate == ASSUME TurnInv, NEW r \in Runs, Create(r) PROVE TurnInv'
<1>1. /\ creator[r] = "idle" /\ \A q \in Runs : ~lease[q]
      /\ status' = [status EXCEPT ![r] = "queued"] /\ lease' = [lease EXCEPT ![r] = TRUE]
      /\ creator' = [creator EXCEPT ![r] = "accepted"]
      /\ UNCHANGED <<flagged, approval, gen, sched, registered, op, verdict, hit, canceller, resumer, life>>
  BY DEF Create, Idle, jobs
<1>2. TypeOK /\ NoQuestion /\ LeaseKept
  BY DEF TurnInv
<1>3. TypeOK'
  BY <1>1, <1>2 DEF TypeOK, Active, life
<1>4. \A q \in Runs : status'[q] # "interrupted"
  BY <1>1, <1>2 DEF TypeOK, NoQuestion
<1>5. \A q \in Runs : creator'[q] # "done" => creator[q] # "done"
  BY <1>1, <1>2 DEF TypeOK
<1>6. \A q \in Runs : lease'[q] <=> q = r
  BY <1>1, <1>2 DEF TypeOK
<1>7. \A q \in Runs : creator'[q] = "accepted" => q = r
  BY <1>1, <1>2 DEF TypeOK, LeaseKept
<1> QED BY <1>1, <1>3, <1>4, <1>5, <1>6, <1>7, TurnRow

LEMMA TurnCreateAbort == ASSUME TurnInv, NEW r \in Runs, CreateAbort(r) PROVE TurnInv'
<1>1. PICK t \in {"failed", "cancelled"} : Update(r, t, 0)
  BY DEF CreateAbort
<1>2. /\ creator[r] = "accepted" /\ creator' = [creator EXCEPT ![r] = "releasing"]
      /\ status' = [status EXCEPT ![r] = t] /\ approval' = [approval EXCEPT ![r] = 0]
      /\ UNCHANGED <<lease, flagged, gen, sched, registered, op, verdict, hit, canceller, resumer, life>>
  BY <1>1 DEF CreateAbort, Update, jobs
<1>3. TypeOK /\ NoQuestion /\ LeaseKept
  BY DEF TurnInv
<1>4. TypeOK'
  BY <1>2, <1>3, RunLifecycleAssumption DEF TypeOK, Terminal, life
<1>5. \A q \in Runs : status'[q] # "interrupted"
  BY <1>2, <1>3 DEF TypeOK, NoQuestion
<1>6. \A q \in Runs : creator'[q] # "done" => creator[q] # "done"
  BY <1>2, <1>3 DEF TypeOK
<1>7. \A q \in Runs : creator'[q] = "accepted" => lease'[q]
  BY <1>2, <1>3 DEF TypeOK, LeaseKept
<1>8. \A p, q \in Runs : lease'[p] /\ lease'[q] => p = q
  BY <1>2, <1>3 DEF LeaseKept
<1> QED BY <1>2, <1>4, <1>5, <1>6, <1>7, <1>8, TurnRow

LEMMA TurnCreateRelease == ASSUME TurnInv, NEW r \in Runs, CreateRelease(r) PROVE TurnInv'
<1>1. /\ creator[r] = "releasing" /\ creator' = [creator EXCEPT ![r] = "done"]
      /\ lease' = [lease EXCEPT ![r] = @ /\ status[r] \notin Terminal]
      /\ UNCHANGED <<status, flagged, approval, gen, sched, registered, op, verdict, hit, canceller, resumer, life>>
  BY DEF CreateRelease, Release, jobs
<1>2. TypeOK /\ NoQuestion /\ LeaseKept
  BY DEF TurnInv
<1>3. TypeOK'
  BY <1>1, <1>2 DEF TypeOK, life
<1>4. \A q \in Runs : status'[q] # "interrupted"
  BY <1>1, <1>2 DEF NoQuestion
<1>5. \A q \in Runs : /\ creator'[q] # "done" => creator[q] # "done"
                      /\ creator'[q] = "accepted" => creator[q] = "accepted" /\ q # r
                      /\ creator[q] = "done" => q # r
  BY <1>1, <1>2 DEF TypeOK
<1>6. \A q \in Runs : (lease'[q] => lease[q]) /\ (q # r => (lease'[q] <=> lease[q]))
  BY <1>1, <1>2 DEF TypeOK
<1>7. \A q \in Runs : creator'[q] = "accepted" => lease'[q]
  BY <1>2, <1>5, <1>6 DEF LeaseKept
<1>8. \A q \in Runs : creator[q] = "done" /\ lease[q] => lease'[q]
  BY <1>5, <1>6
<1>9. \A p, q \in Runs : lease'[p] /\ lease'[q] => p = q
  BY <1>2, <1>6 DEF LeaseKept
<1>10. \A q \in Runs : creator'[q] # "done" => creator[q] # "done"
  BY <1>5
<1> QED BY <1>1, <1>3, <1>4, <1>7, <1>8, <1>9, <1>10, TurnRow

LEMMA TurnCreateFails == ASSUME TurnInv, NEW r \in Runs, CreateFails(r) PROVE TurnInv'
<1>1. /\ creator' = [creator EXCEPT ![r] = "done"] /\ stranded' = [stranded EXCEPT ![r] = TRUE]
      /\ UNCHANGED <<status, lease, flagged, approval, gen, sched, registered, op, verdict, hit>>
      /\ UNCHANGED <<canceller, resumer, restarts>>
  BY DEF CreateFails, Strand, rows, jobs
<1>2. TypeOK /\ NoQuestion /\ LeaseKept
  BY DEF TurnInv
<1>3. TypeOK'
  BY <1>1, <1>2 DEF TypeOK
<1>4. \A q \in Runs : status'[q] # "interrupted"
  BY <1>1, <1>2 DEF NoQuestion
<1>5. \A q \in Runs : creator'[q] \in {creator[q], "done"}
  BY <1>1, <1>2 DEF TypeOK
<1>6. \A q \in Runs : creator'[q] = "accepted" => lease'[q]
  BY <1>1, <1>2, <1>5 DEF LeaseKept
<1>7. \A p, q \in Runs : lease'[p] /\ lease'[q] => p = q
  BY <1>1, <1>2 DEF LeaseKept
<1> QED BY <1>1, <1>3, <1>4, <1>5, <1>6, <1>7, TurnRow

\* The first and only generation of the run.
LEMMA TurnCreateSubmit == ASSUME TurnInv, NEW r \in Runs, CreateSubmit(r) PROVE TurnInv'
<1>1. /\ creator[r] = "accepted" /\ creator' = [creator EXCEPT ![r] = "done"]
      /\ gen' = [gen EXCEPT ![r] = gen[r] + 1] /\ sched' = [sched EXCEPT ![r] = "queued"]
      /\ op' = [op EXCEPT ![<<r, gen[r] + 1>>] = "queued"]
      /\ UNCHANGED <<status, lease, flagged, approval, registered, verdict, hit, canceller, resumer, life>>
  BY DEF CreateSubmit, Enqueue, rows
<1>2. /\ TypeOK /\ CancelShapes /\ NoQuestion /\ OneGeneration /\ SettlesDropped /\ LeaseKept
      /\ gen \in [Runs -> 0..MaxGen] /\ op \in [Job -> OpStates] /\ sched \in [Runs -> Live \cup {"none", "ended"}]
      /\ creator \in [Runs -> {"idle", "accepted", "releasing", "done"}]
  BY DEF TurnInv, TypeOK
<1>3. gen[r] = 0 /\ lease[r] /\ \A j \in Job : j[1] = r => op[j] = "none"
  BY <1>1, <1>2 DEF OneGeneration, LeaseKept
<1> DEFINE n == <<r, 1>>
<1>4. /\ gen' = [gen EXCEPT ![r] = 1] /\ op' = [op EXCEPT ![n] = "queued"] /\ n \in Job
  BY <1>1, <1>3, FirstJob
<1>5. TypeOK'
  <2>1. gen' \in [Runs -> 0..MaxGen]
    BY <1>2, <1>4, RunLifecycleAssumption
  <2>2. op' \in [Job -> OpStates]
    BY <1>2, <1>4 DEF OpStates
  <2>3. sched' \in [Runs -> Live \cup {"none", "ended"}]
    BY <1>1, <1>2 DEF Live
  <2>4. creator' \in [Runs -> {"idle", "accepted", "releasing", "done"}]
    BY <1>1, <1>2
  <2> QED BY <1>1, <1>2, <2>1, <2>2, <2>3, <2>4 DEF TypeOK, life
<1>6. CancelShapes' /\ NoQuestion'
  BY <1>1, <1>2 DEF CancelShapes, NoQuestion
<1>7. \A j \in Job : j # n => op'[j] = op[j]
  BY <1>2, <1>4
<1>8. op'[n] = "queued"
  BY <1>2, <1>4
<1>9. ~hit[n]
  BY <1>2, <1>3, <1>4, FirstJob DEF OneGeneration
<1>10. OneGeneration'
  <2>1. \A q \in Runs : gen'[q] \in {0, 1} /\ (q # r => gen'[q] = gen[q] /\ sched'[q] = sched[q] /\ creator'[q] = creator[q])
    BY <1>1, <1>2, <1>4 DEF OneGeneration
  <2>2. gen'[r] = 1 /\ creator'[r] = "done"
    BY <1>1, <1>2, <1>4
  <2>3. \A j \in Job : op'[j] # "none" => j[2] = 1 /\ gen'[j[1]] = 1
    BY <1>2, <1>4, <1>7, <2>1, <2>2, JobShape, FirstJob DEF OneGeneration
  <2>4. \A j \in Job : hit[j] => gen'[j[1]] = 1
    BY <1>2, <2>1, <2>2, JobShape DEF OneGeneration
  <2>5. \A q \in Runs : creator'[q] # "done" => gen'[q] = 0
    BY <1>2, <2>1, <2>2 DEF OneGeneration
  <2>6. \A q \in Runs : sched'[q] \in Live => gen'[q] = 1
    BY <1>2, <2>1, <2>2 DEF OneGeneration
  <2>7. ASSUME NEW q \in Runs, sched'[q] = "queued"
        PROVE  gen'[q] = 1 /\ op'[<<q, 1>>] = "queued" /\ ~hit[<<q, 1>>]
    <3>1. CASE q = r
      BY <1>8, <1>9, <2>2, <3>1
    <3>2. CASE q # r
      <4>1. gen[q] = 1 /\ op[<<q, 1>>] = "queued" /\ ~hit[<<q, 1>>] /\ <<q, 1>> # n /\ <<q, 1>> \in Job
        BY <1>2, <2>1, <2>7, <3>2, FirstJob DEF OneGeneration
      <4> QED BY <1>7, <2>1, <3>2, <4>1
    <3> QED BY <3>1, <3>2
  <2> QED BY <1>1, <2>1, <2>3, <2>4, <2>5, <2>6, <2>7 DEF OneGeneration
<1>11. SettlesDropped'
  <2>1. \A c \in Cancellers, q \in Runs : Settling(c, q)' <=> Settling(c, q)
    BY <1>1 DEF Settling
  <2>2. \A c \in Cancellers, q \in Runs : Settling(c, q) => q # r
    <3>1. \A c \in Cancellers, q \in Runs : Settling(c, q) => gen[q] = 1
      BY <1>2 DEF SettlesDropped
    <3> QED BY <1>3, <3>1
  <2> SUFFICES ASSUME NEW c \in Cancellers, NEW q \in Runs, Settling(c, q)
               PROVE  /\ gen'[q] = 1 /\ sched'[q] # "queued"
                      /\ op'[<<q, 1>>] = "dropped" \/ (op'[<<q, 1>>] = "queued" /\ hit[<<q, 1>>])
                      /\ canceller[c].pc = "settle" => lease[q] /\ \A d \in Cancellers : Settling(d, q) => d = c
    BY <1>1, <2>1 DEF SettlesDropped
  <2>3. /\ gen[q] = 1 /\ sched[q] # "queued" /\ q # r
        /\ op[<<q, 1>>] = "dropped" \/ (op[<<q, 1>>] = "queued" /\ hit[<<q, 1>>])
        /\ canceller[c].pc = "settle" => lease[q] /\ \A d \in Cancellers : Settling(d, q) => d = c
    BY <1>2, <2>2 DEF SettlesDropped
  <2>4. op'[<<q, 1>>] = op[<<q, 1>>] /\ gen'[q] = gen[q] /\ sched'[q] = sched[q]
    BY <1>1, <1>2, <1>4, <1>7, <2>3, FirstJob
  <2> QED BY <2>3, <2>4
<1>12. LeaseKept'
  <2>1. \A j \in Job : j # n => (Drained(j)' <=> Drained(j))
    BY <1>1, <1>7 DEF Drained
  <2>2. \A j \in Job : Drained(j)' \/ lease[j[1]]
    BY <1>2, <1>3, <2>1, FirstJob DEF LeaseKept
  <2>3. \A q \in Runs : creator'[q] = "accepted" => creator[q] = "accepted"
    BY <1>1, <1>2
  <2> QED BY <1>1, <1>2, <2>2, <2>3 DEF LeaseKept
<1> QED BY <1>5, <1>6, <1>10, <1>11, <1>12 DEF TurnInv

-----------------------------------------------------------------------------
(* cancel *)

LEMMA CancelMoves ==
    ASSUME CancelShapes, NEW c \in Cancellers, NEW p \in {"flag", "signal", "settle", "release", "done"},
           canceller' = [canceller EXCEPT ![c].pc = p],
           \/ canceller[c].pc \in {"flag", "signal"} /\ p \in {"flag", "signal"}
           \/ canceller[c].pc \in {"settle", "release", "done"} /\ p \in {"settle", "release", "done"}
    PROVE  /\ CancelShapes' /\ canceller[c].run \in Runs
           /\ \A d \in Cancellers : d # c => canceller'[d] = canceller[d]
           /\ canceller'[c].pc = p /\ canceller'[c].run = canceller[c].run
           /\ p \in {"flag", "signal"} => canceller'[c].record = canceller[c].record
<1> DEFINE u == [canceller[c] EXCEPT !.pc = p]
<1>1. canceller' = [canceller EXCEPT ![c] = u]
  OBVIOUS
<1>2. CASE canceller[c].pc \in {"flag", "signal"}
  <2>1. canceller[c] \in [pc : {"flag", "signal"}, run : Runs, record : Active]
    BY <1>2 DEF CancelShapes
  <2>2. /\ u \in [pc : {"flag", "signal"}, run : Runs, record : Active]
        /\ u.pc = p /\ u.run = canceller[c].run /\ u.record = canceller[c].record
    BY <1>2, <2>1
  <2> HIDE DEF u
  <2> QED BY <1>1, <2>1, <2>2 DEF CancelShapes
<1>3. CASE canceller[c].pc \in {"settle", "release", "done"}
  <2>1. canceller[c] \in [pc : {"settle", "release", "done"}, run : Runs, told : BOOLEAN]
    BY <1>3 DEF CancelShapes
  <2>2. /\ u \in [pc : {"settle", "release", "done"}, run : Runs, told : BOOLEAN]
        /\ u.pc = p /\ u.run = canceller[c].run
    BY <1>3, <2>1
  <2> HIDE DEF u
  <2> QED BY <1>1, <1>3, <2>1, <2>2 DEF CancelShapes
<1> QED BY <1>2, <1>3

LEMMA CancelTypes ==
    ASSUME CancelShapes
    PROVE  \A c \in Cancellers : canceller[c].pc \in {"idle", "flag", "signal", "settle", "release", "done", "lost"}
BY DEF CancelShapes

LEMMA TurnCancelRead ==
    ASSUME TurnInv, NEW c \in Cancellers, NEW r \in Runs, CancelRead(c, r)
    PROVE  TurnInv'
<1> DEFINE u == [pc |-> "flag", run |-> r, record |-> status[r]]
<1>1. /\ canceller' = [canceller EXCEPT ![c] = u] /\ status[r] \in Active
      /\ UNCHANGED <<status, lease, flagged, approval, jobs, creator, resumer, life>>
  BY DEF CancelRead, rows
<1>2. TypeOK /\ CancelShapes /\ NoQuestion
  BY DEF TurnInv
<1>3. /\ u \in [pc : {"flag", "signal"}, run : Runs, record : Active]
      /\ u.pc = "flag" /\ u.record # "interrupted"
  BY <1>1, <1>2 DEF NoQuestion
<1> HIDE DEF u
<1>4. /\ CancelShapes' /\ canceller'[c] = u
      /\ \A d \in Cancellers : d # c => canceller'[d] = canceller[d]
  BY <1>1, <1>2, <1>3 DEF CancelShapes
<1>5. TypeOK'
  BY <1>1, <1>2, <1>4, CancelTypes DEF TypeOK, CancelShapes, jobs, life
<1>6. \A d \in Cancellers : canceller'[d].pc \in {"flag", "signal"} => canceller'[d].record # "interrupted"
  BY <1>2, <1>3, <1>4 DEF NoQuestion
<1>7. \A d \in Cancellers : canceller'[d].pc \in {"settle", "release"} =>
         canceller[d].pc = canceller'[d].pc /\ canceller[d].run = canceller'[d].run
  BY <1>3, <1>4
<1> QED BY <1>1, <1>4, <1>5, <1>6, <1>7, TurnCall

LEMMA TurnCancelFlag ==
    ASSUME TurnInv, NEW c \in Cancellers, CancelFlag(c)
    PROVE  TurnInv'
<1>1. /\ canceller[c].pc = "flag" /\ canceller' = [canceller EXCEPT ![c].pc = "signal"]
      /\ flagged' = [flagged EXCEPT ![canceller[c].run] = TRUE]
      /\ UNCHANGED <<status, lease, approval, jobs, creator, resumer, life>>
  BY DEF CancelFlag
<1>2. TypeOK /\ CancelShapes /\ NoQuestion
  BY DEF TurnInv
<1>3. /\ CancelShapes'
      /\ \A d \in Cancellers : d # c => canceller'[d] = canceller[d]
      /\ canceller'[c].pc = "signal" /\ canceller'[c].record = canceller[c].record
  BY <1>1, <1>2, CancelMoves
<1>4. TypeOK'
  BY <1>1, <1>2, <1>3 DEF TypeOK, CancelShapes, jobs, life
<1>5. \A d \in Cancellers : canceller'[d].pc \in {"flag", "signal"} => canceller'[d].record # "interrupted"
  BY <1>1, <1>2, <1>3 DEF NoQuestion
<1>6. \A d \in Cancellers : canceller'[d].pc \in {"settle", "release"} =>
         canceller[d].pc = canceller'[d].pc /\ canceller[d].run = canceller'[d].run
  BY <1>3
<1> QED BY <1>1, <1>3, <1>4, <1>5, <1>6, TurnCall

\* The row of a job that will be dropped, and then its lease.
LEMMA TurnCancelSettle ==
    ASSUME TurnInv, NEW c \in Cancellers, CancelSettle(c)
    PROVE  TurnInv'
<1>1. /\ canceller[c].pc = "settle" /\ canceller' = [canceller EXCEPT ![c].pc = "release"]
      /\ Update(canceller[c].run, "cancelled", 0)
      /\ UNCHANGED <<gen, sched, registered, op, verdict, hit, creator, resumer, life>>
  BY DEF CancelSettle, jobs
<1>2. TypeOK /\ CancelShapes /\ NoQuestion /\ OneGeneration /\ SettlesDropped /\ LeaseKept
  BY DEF TurnInv
<1>3. /\ CancelShapes'
      /\ \A d \in Cancellers : d # c => canceller'[d] = canceller[d]
      /\ canceller'[c].pc = "release" /\ canceller'[c].run = canceller[c].run
      /\ canceller[c].run \in Runs
  BY <1>1, <1>2, CancelMoves
<1>4. PICK r \in Runs : r = canceller[c].run
  BY <1>3
<1>5. /\ status' = [status EXCEPT ![r] = "cancelled"] /\ approval' = [approval EXCEPT ![r] = 0]
      /\ UNCHANGED <<lease, flagged>>
  BY <1>1, <1>4 DEF Update
<1>6. TypeOK'
  BY <1>1, <1>2, <1>3, <1>5, RunLifecycleAssumption DEF TypeOK, CancelShapes, Terminal, life
<1>7. NoQuestion'
  BY <1>1, <1>2, <1>3, <1>5 DEF NoQuestion, TypeOK
<1>8. OneGeneration'
  BY <1>1, <1>2 DEF OneGeneration
<1>9. LeaseKept'
  <2>1. \A j \in Job : Drained(j)' <=> Drained(j)
    BY <1>1 DEF Drained
  <2> QED BY <1>1, <1>2, <1>5, <2>1 DEF LeaseKept
<1>10. SettlesDropped'
  <2>1. \A d \in Cancellers, q \in Runs : Settling(d, q)' <=> Settling(d, q)
    BY <1>1, <1>3 DEF Settling
  <2>2. \A d \in Cancellers : canceller'[d].pc = "settle" => canceller[d].pc = "settle"
    BY <1>3
  <2> QED BY <1>1, <1>2, <1>5, <2>1, <2>2 DEF SettlesDropped
<1> QED BY <1>3, <1>6, <1>7, <1>8, <1>9, <1>10 DEF TurnInv

LEMMA TurnCancelRelease ==
    ASSUME TurnInv, NEW c \in Cancellers, CancelRelease(c)
    PROVE  TurnInv'
<1>1. /\ canceller[c].pc = "release" /\ canceller' = [canceller EXCEPT ![c].pc = "done"]
      /\ Release(canceller[c].run)
      /\ UNCHANGED <<status, flagged, approval, gen, sched, registered, op, verdict, hit, creator, resumer, life>>
  BY DEF CancelRelease, jobs
<1>2. TypeOK /\ CancelShapes /\ NoQuestion /\ OneGeneration /\ SettlesDropped /\ LeaseKept
  BY DEF TurnInv
<1>3. /\ CancelShapes'
      /\ \A d \in Cancellers : d # c => canceller'[d] = canceller[d]
      /\ canceller'[c].pc = "done" /\ canceller[c].run \in Runs
  BY <1>1, <1>2, CancelMoves
<1>4. PICK r \in Runs : r = canceller[c].run
  BY <1>3
<1>5. lease' = [lease EXCEPT ![r] = @ /\ status[r] \notin Terminal]
  BY <1>1, <1>4 DEF Release
<1>6. \A q \in Runs : (lease'[q] => lease[q]) /\ (q # r => (lease'[q] <=> lease[q]))
  BY <1>2, <1>5 DEF TypeOK
<1>7. TypeOK'
  BY <1>1, <1>2, <1>3, <1>5 DEF TypeOK, CancelShapes, life
<1>8. NoQuestion'
  BY <1>1, <1>2, <1>3 DEF NoQuestion
<1>9. OneGeneration'
  BY <1>1, <1>2 DEF OneGeneration
<1>10. Settling(c, r)
  BY <1>1, <1>4 DEF Settling
<1>11. /\ gen[r] = 1
       /\ op[<<r, 1>>] = "dropped" \/ (op[<<r, 1>>] = "queued" /\ hit[<<r, 1>>])
  BY <1>2, <1>10 DEF SettlesDropped
<1>12. LeaseKept'
  <2>1. \A j \in Job : Drained(j)' <=> Drained(j)
    BY <1>1 DEF Drained
  <2>2. \A j \in Job : j[1] = r => Drained(j)
    <3> SUFFICES ASSUME NEW j \in Job, j[1] = r PROVE Drained(j)
      OBVIOUS
    <3>1. CASE op[j] = "none"
      BY <3>1 DEF Drained
    <3>2. CASE op[j] # "none"
      <4>1. j = <<r, 1>>
        BY <1>2, <3>2, JobShape DEF OneGeneration
      <4> QED BY <1>11, <4>1 DEF Drained
    <3> QED BY <3>1, <3>2
  <2>3. \A j \in Job : Drained(j)' \/ lease'[j[1]]
    BY <1>2, <1>6, <2>1, <2>2, JobShape DEF LeaseKept
  <2>4. creator[r] = "done"
    BY <1>2, <1>11 DEF OneGeneration
  <2>5. \A q \in Runs : creator'[q] = "accepted" => lease'[q]
    BY <1>1, <1>2, <1>6, <2>4 DEF LeaseKept
  <2>6. \A p, q \in Runs : lease'[p] /\ lease'[q] => p = q
    BY <1>2, <1>6 DEF LeaseKept
  <2> QED BY <2>3, <2>5, <2>6 DEF LeaseKept
<1>13. SettlesDropped'
  <2> SUFFICES ASSUME NEW d \in Cancellers, NEW q \in Runs, Settling(d, q)'
               PROVE  /\ gen[q] = 1 /\ sched[q] # "queued"
                      /\ op[<<q, 1>>] = "dropped" \/ (op[<<q, 1>>] = "queued" /\ hit[<<q, 1>>])
                      /\ canceller'[d].pc = "settle" => lease'[q] /\ \A e \in Cancellers : Settling(e, q)' => e = d
    BY <1>1 DEF SettlesDropped
  <2>1. \A e \in Cancellers, p \in Runs : Settling(e, p)' => Settling(e, p) /\ e # c /\ canceller'[e].pc = canceller[e].pc
    BY <1>3 DEF Settling
  <2>2. /\ gen[q] = 1 /\ sched[q] # "queued"
        /\ op[<<q, 1>>] = "dropped" \/ (op[<<q, 1>>] = "queued" /\ hit[<<q, 1>>])
        /\ canceller[d].pc = "settle" => lease[q] /\ \A e \in Cancellers : Settling(e, q) => e = d
    BY <1>2, <2>1 DEF SettlesDropped
  <2>3. canceller'[d].pc = "settle" => q # r
    BY <1>10, <2>1, <2>2
  <2> QED BY <1>6, <2>1, <2>2, <2>3
<1> QED BY <1>3, <1>7, <1>8, <1>9, <1>12, <1>13 DEF TurnInv

\* A call that raises settles nothing any more.
LEMMA CancelLost ==
    ASSUME CancelShapes, NEW c \in Cancellers, canceller' = [canceller EXCEPT ![c] = [pc |-> "lost"]]
    PROVE  /\ CancelShapes' /\ canceller'[c].pc = "lost"
           /\ \A d \in Cancellers : d # c => canceller'[d] = canceller[d]
BY DEF CancelShapes

LEMMA TurnCancelFails ==
    ASSUME TurnInv, NEW c \in Cancellers, CancelFails(c)
    PROVE  TurnInv'
<1>1. /\ canceller' = [canceller EXCEPT ![c] = [pc |-> "lost"]]
      /\ stranded' = stranded \/ stranded' = [stranded EXCEPT ![canceller[c].run] = TRUE]
      /\ UNCHANGED <<status, lease, flagged, approval, jobs, creator, resumer, restarts>>
  BY DEF CancelFails, Strand, rows
<1>2. TypeOK /\ CancelShapes /\ NoQuestion
  BY DEF TurnInv
<1>3. /\ CancelShapes' /\ canceller'[c].pc = "lost"
      /\ \A d \in Cancellers : d # c => canceller'[d] = canceller[d]
  BY <1>1, <1>2, CancelLost
<1>4. TypeOK'
  <2>1. stranded' \in [Runs -> BOOLEAN]
    BY <1>1, <1>2 DEF TypeOK
  <2>2. \A d \in Cancellers : canceller'[d].pc \in {"idle", "flag", "signal", "settle", "release", "done", "lost"}
    BY <1>3 DEF CancelShapes
  <2> QED BY <1>1, <1>2, <2>1, <2>2 DEF TypeOK, jobs
<1>5. \A d \in Cancellers : canceller'[d].pc \in {"flag", "signal"} => canceller'[d].record # "interrupted"
  BY <1>2, <1>3 DEF NoQuestion
<1>6. \A d \in Cancellers : canceller'[d].pc \in {"settle", "release"} =>
         canceller[d].pc = canceller'[d].pc /\ canceller[d].run = canceller'[d].run
  BY <1>3
<1> QED BY <1>1, <1>3, <1>4, <1>5, <1>6, TurnCall

-----------------------------------------------------------------------------
\* A new process finds nothing to settle and only drained jobs.
LEMMA TurnRestart == ASSUME TurnInv, Restart PROVE TurnInv'
<1>1. /\ status' = [r \in Runs |-> Recovered(r)]
      /\ lease' = [r \in Runs |-> lease[r] /\ Recovered(r) \notin Terminal]
      /\ creator' = [r \in Runs |-> IF creator[r] = "idle" THEN "idle" ELSE "done"]
      /\ sched' = [r \in Runs |-> "none"] /\ registered' = [r \in Runs |-> 0]
      /\ op' = [j \in Job |-> IF op[j] \in {"none", "done", "dropped"} THEN op[j] ELSE "lost"]
      /\ canceller' = [c \in Cancellers |-> Lost(canceller[c])]
      /\ resumer' = [h \in Resumers |-> Lost(resumer[h])]
      /\ restarts < MaxRestarts /\ restarts' = restarts + 1 /\ stranded' = [r \in Runs |-> FALSE]
      /\ UNCHANGED <<flagged, approval, gen, verdict, hit>>
  BY DEF Restart
<1>2. TypeOK /\ CancelShapes /\ NoQuestion /\ OneGeneration /\ SettlesDropped /\ LeaseKept
  BY DEF TurnInv
<1>3. CancelShapes'
  <2>1. \A c \in Cancellers : Lost(canceller[c]) \in
           [pc : {"idle", "lost"}] \cup [pc : {"settle", "release", "done"}, run : Runs, told : BOOLEAN]
    BY <1>2 DEF CancelShapes, Lost
  <2> QED BY <1>1, <2>1 DEF CancelShapes
<1>4. /\ \A c \in Cancellers : canceller'[c].pc \notin {"flag", "signal", "settle", "release"}
      /\ \A h \in Resumers : resumer'[h].pc = "idle"
  BY <1>1, <1>2 DEF Lost, NoQuestion
<1>5. TypeOK'
  <2>1. \A r \in Runs : Recovered(r) \in {"none"} \cup Active \cup Terminal
    BY <1>2 DEF TypeOK, Recovered, Terminal
  <2>2. /\ op' \in [Job -> OpStates] /\ lease' \in [Runs -> BOOLEAN]
        /\ creator' \in [Runs -> {"idle", "accepted", "releasing", "done"}]
    BY <1>1, <1>2 DEF TypeOK, OpStates
  <2>3. restarts' \in 0..MaxRestarts
    BY <1>1, <1>2, RunLifecycleAssumption DEF TypeOK
  <2>4. /\ status' \in [Runs -> {"none"} \cup Active \cup Terminal]
        /\ sched' \in [Runs -> Live \cup {"none", "ended"}] /\ registered' \in [Runs -> 0..MaxGen]
    BY <1>1, <2>1, RunLifecycleAssumption
  <2>5. /\ \A c \in Cancellers : canceller'[c].pc \in {"idle", "flag", "signal", "settle", "release", "done", "lost"}
        /\ \A h \in Resumers : resumer'[h].pc \in
              {"idle", "claim", "refused", "claimed", "wait", "scheduled", "cancelling", "failing",
               "releasing", "finished", "lost"}
    BY <1>3, <1>4 DEF CancelShapes
  <2> QED BY <1>1, <1>2, <2>2, <2>3, <2>4, <2>5 DEF TypeOK
<1>6. NoQuestion'
  <2>1. \A r \in Runs : status'[r] # "interrupted"
    BY <1>1, <1>2 DEF NoQuestion, Recovered
  <2> QED BY <1>1, <1>2, <1>4, <2>1 DEF NoQuestion
<1>7. OneGeneration'
  BY <1>1, <1>2 DEF OneGeneration, Live
<1>8. SettlesDropped'
  BY <1>4 DEF SettlesDropped, Settling
<1>9. LeaseKept'
  <2>1. \A j \in Job : Drained(j)'
    BY <1>1 DEF Drained
  <2>2. \A r \in Runs : (lease'[r] => lease[r]) /\ creator'[r] # "accepted"
    BY <1>1
  <2> QED BY <1>2, <2>1, <2>2 DEF LeaseKept
<1> QED BY <1>3, <1>5, <1>6, <1>7, <1>8, <1>9 DEF TurnInv

LEMMA TurnStill == ASSUME TurnInv, UNCHANGED vars PROVE TurnInv'
<1>1. /\ UNCHANGED <<status, lease, flagged, approval, creator, gen, sched, registered, op, verdict, hit>>
      /\ UNCHANGED <<canceller, resumer, life>>
  BY DEF vars, rows, jobs, calls, life
<1>2. TypeOK /\ CancelShapes /\ NoQuestion /\ OneGeneration /\ SettlesDropped /\ LeaseKept
  BY DEF TurnInv
<1>3. TypeOK'
  BY <1>1, <1>2 DEF TypeOK, life
<1>4. CancelShapes' /\ NoQuestion' /\ OneGeneration'
  BY <1>1, <1>2 DEF CancelShapes, NoQuestion, OneGeneration
<1>5. SettlesDropped'
  BY <1>1, <1>2 DEF SettlesDropped, Settling
<1>6. LeaseKept'
  BY <1>1, <1>2 DEF LeaseKept, Drained
<1> QED BY <1>3, <1>4, <1>5, <1>6 DEF TurnInv

LEMMA TurnNext == ASSUME TurnInv, ~Approvals, [Next]_vars PROVE TurnInv'
<1>1. CASE \E r \in Runs : CreateStep(r)
  BY <1>1, TurnCreate, TurnCreateSubmit, TurnCreateAbort, TurnCreateRelease, TurnCreateFails
     DEF CreateStep, CreateEnds
<1>2. CASE \E j \in Job : OpStep(j)
  BY <1>2, TurnOpStep
<1>3. CASE \E c \in Cancellers : CancelStep(c)
  <2>1. PICK c \in Cancellers : CancelStep(c)
    BY <1>3
  <2> QED BY <2>1, TurnSignal, TurnCancelFlag, TurnCancelSettle, TurnCancelRelease, TurnCancelFails
       DEF CancelStep
<1>4. CASE \E c \in Cancellers, r \in Runs : CancelRead(c, r)
  BY <1>4, TurnCancelRead
<1>5. CASE \E h \in Resumers : ResumeStep(h) \/ \E r \in Runs : ResumeRead(h, r)
  <2>1. NoQuestion
    BY DEF TurnInv
  <2>2. PICK h \in Resumers : ResumeStep(h) \/ \E r \in Runs : ResumeRead(h, r)
    BY <1>5
  <2>3. resumer[h].pc = "idle" /\ \A r \in Runs : status[r] # "interrupted"
    BY <2>1 DEF NoQuestion
  <2>4. ~ResumeStep(h)
    BY <2>3 DEF ResumeStep, ResumeRefused, ResumeExpired, ResumeClaim, ResumeWait, ResumeAwaitedCancelled,
       ResumeSubmit, ResumeRejected, ResumeAbandon, ResumeFinish, ResumeRelease, ResumeFails,
       Dispatchable, Awaited
  <2>5. \A r \in Runs : ~ResumeRead(h, r)
    BY <2>3 DEF ResumeRead
  <2> QED BY <2>2, <2>4, <2>5
<1>6. CASE Restart
  BY <1>6, TurnRestart
<1>7. CASE UNCHANGED vars
  BY <1>7, TurnStill
<1> QED BY <1>1, <1>2, <1>3, <1>4, <1>5, <1>6, <1>7 DEF Next

\* At most one job holds the runtime: all that do are one run's, and its first.
LEMMA TurnsFollow == ASSUME TurnInv PROVE TurnsApart
<1>1. TypeOK /\ OneGeneration /\ LeaseKept
  BY DEF TurnInv
<1>2. ReleaseAfterDrain
  <2> SUFFICES ASSUME NEW j \in Job, Idle(j[1]), ~Drained(j) PROVE FALSE
    BY DEF ReleaseAfterDrain, Drained
  <2> QED BY <1>1 DEF LeaseKept, Idle
<1> DEFINE S == {j \in Job : op[j] \in {"running", "writing"}}
<1>3. ASSUME NEW i \in S, NEW j \in S PROVE i = j
  <2>1. lease[i[1]] /\ lease[j[1]]
    BY <1>1 DEF LeaseKept, Drained
  <2>2. i = <<i[1], 1>> /\ j = <<j[1], 1>> /\ i[1] \in Runs /\ j[1] \in Runs
    BY <1>1, JobShape DEF OneGeneration
  <2> QED BY <1>1, <2>1, <2>2 DEF LeaseKept
<1> HIDE DEF S
<1>4. Cardinality(S) =< 1
  <2>1. CASE S = {}
    BY <2>1, FS_EmptySet
  <2>2. CASE S # {}
    <3>1. PICK j : j \in S
      BY <2>2
    <3>2. S = {j}
      BY <1>3, <3>1
    <3>3. Cardinality(S) = 1
      BY <3>2, FS_Singleton
    <3> QED BY <3>3
  <2> QED BY <2>1, <2>2
<1>5. OneRuntimePerConversation
  BY <1>4 DEF OneRuntimePerConversation, S
<1> QED BY <1>1, <1>2, <1>5 DEF TurnsApart

\* Turns of one conversation keep apart when no turn asks for an approval:
\* with approvals a stale cancellation breaks this, see RuntimeHoldsTurn.
THEOREM TurnsKeepApart == ASSUME ~Approvals PROVE Spec => []TurnsApart
<1>1. TurnInv /\ [Next]_vars => TurnInv'
  BY TurnNext
<1>2. TurnInv => TurnsApart
  BY TurnsFollow
<1> QED BY TurnInit, <1>1, <1>2, PTL DEF Spec

-----------------------------------------------------------------------------
(* Outcomes *)

\* Whoever writes a status finds the lease, or the row open.
LEMMA OutcomeStep ==
    ASSUME TurnInv, ~Approvals, Next, NEW r \in Runs, status[r] \in Terminal, ~lease[r]
    PROVE  status'[r] = status[r]
<1>1. TypeOK /\ CancelShapes /\ NoQuestion /\ OneGeneration /\ SettlesDropped /\ LeaseKept
  BY DEF TurnInv
<1>2. CASE \E q \in Runs : CreateStep(q)
  <2>1. PICK q \in Runs : CreateStep(q)
    BY <1>2
  <2>2. CASE Create(q)
    BY <1>1, <2>2 DEF Create, Terminal, TypeOK
  <2>3. CASE CreateAbort(q)
    <3>1. q # r
      BY <1>1, <2>3 DEF CreateAbort, LeaseKept
    <3> QED BY <1>1, <2>3, <3>1 DEF CreateAbort, Update, TypeOK
  <2> QED BY <2>1, <2>2, <2>3 DEF CreateStep, CreateEnds, CreateSubmit, CreateRelease, CreateFails, rows
<1>3. CASE \E j \in Job : OpStep(j)
  <2>1. PICK j \in Job : OpStep(j)
    BY <1>3
  <2>2. CASE OpRunning(j) \/ OpWrite(j) \/ OpCancelled(j) \/ OpFailed(j)
    <3>1. ~Drained(j)
      BY <2>2 DEF OpRunning, OpWrite, OpCancelled, OpFailed, Drained
    <3>2. j[1] # r
      BY <1>1, <3>1 DEF LeaseKept
    <3>3. \E t : status' = [status EXCEPT ![j[1]] = t]
      BY <2>2 DEF OpRunning, OpWrite, OpCancelled, OpFailed, Update
    <3> QED BY <1>1, <3>2, <3>3 DEF TypeOK
  <2> QED BY <2>1, <2>2 DEF OpStep, OpDrop, OpEnter, OpCheck, OpResult, OpInterruptedByCancel, OpRaise,
        OpWritten, OpUnwritten, OpRelease, OpUnreleased, OpLeave, rows
<1>4. CASE \E c \in Cancellers : CancelStep(c) \/ \E q \in Runs : CancelRead(c, q)
  <2>1. PICK c \in Cancellers : CancelStep(c) \/ \E q \in Runs : CancelRead(c, q)
    BY <1>4
  <2>2. CASE CancelSettle(c)
    <3>1. canceller[c].pc = "settle" /\ status' = [status EXCEPT ![canceller[c].run] = "cancelled"]
      BY <2>2 DEF CancelSettle, Update
    <3>2. canceller[c].run # r
      BY <1>1, <3>1 DEF SettlesDropped, Settling
    <3> QED BY <1>1, <3>1, <3>2 DEF TypeOK
  <2> QED BY <2>1, <2>2 DEF CancelStep, CancelFlag, CancelSignal, CancelRelease, CancelFails,
        CancelRead, rows
<1>5. CASE \E h \in Resumers : ResumeStep(h) \/ \E q \in Runs : ResumeRead(h, q)
  <2>1. PICK h \in Resumers : ResumeStep(h) \/ \E q \in Runs : ResumeRead(h, q)
    BY <1>5
  <2>2. resumer[h].pc = "idle" /\ \A q \in Runs : status[q] # "interrupted"
    BY <1>1 DEF NoQuestion
  <2>3. ~ResumeStep(h)
    BY <2>2 DEF ResumeStep, ResumeRefused, ResumeExpired, ResumeClaim, ResumeWait, ResumeAwaitedCancelled,
       ResumeSubmit, ResumeRejected, ResumeAbandon, ResumeFinish, ResumeRelease, ResumeFails,
       Dispatchable, Awaited
  <2> QED BY <2>1, <2>2, <2>3 DEF ResumeRead
<1>6. CASE Restart
  BY <1>6 DEF Restart, Recovered, Terminal
<1> QED BY <1>2, <1>3, <1>4, <1>5, <1>6 DEF Next

\* The comment in _release_turn, without approvals: a released outcome is never
\* rewritten, by a late cancellation or by a restart.
THEOREM ReleasedOutcomeStays == ASSUME ~Approvals PROVE Spec => OutcomeFinal
<1>1. TurnInv /\ [Next]_vars => TurnInv'
  BY TurnNext
<1>2. TurnInv /\ [Next]_vars =>
         [\A r \in Runs : status[r] \in Terminal /\ ~lease[r] => status'[r] = status[r]]_vars
  BY OutcomeStep
<1> QED BY TurnInit, <1>1, <1>2, PTL DEF Spec, OutcomeFinal

-----------------------------------------------------------------------------
(* An acknowledged cancellation *)

LEMMA StopInit == Init => StopInv
<1> SUFFICES ASSUME Init PROVE StopInv
  OBVIOUS
<1>1. StopShapes
  BY DEF Init, StopShapes, CancelShapes, Call
<1>2. FlagFirst /\ SignalStops
  BY DEF Init, FlagFirst, SignalStops, Call
<1>3. OneBusy /\ NothingBefore
  BY DEF Init, OneBusy, NothingBefore, Busy, Live
<1> QED BY <1>1, <1>2, <1>3 DEF StopInv

\* A step that moves one busy job on: only the check admits, and not past a flag.
LEMMA StopOp ==
    ASSUME StopInv, StopShapes', op \in [Job -> OpStates], NEW j \in Job, NEW o \in OpStates \ {"none", "queued"},
           op[j] \in Busy, op' = [op EXCEPT ![j] = o],
           o = "admitted" => ~flagged[j[1]],
           UNCHANGED <<flagged, gen, hit, creator, canceller>>,
           \A r \in Runs \ {j[1]} : sched'[r] = sched[r],
           o \in Busy /\ sched[j[1]] \in Live => sched'[j[1]] \in Live
    PROVE  StopInv'
<1>1. FlagFirst /\ OneBusy /\ NothingBefore /\ SignalStops
  BY DEF StopInv
<1>2. op'[j] = o /\ \A i \in Job : i # j => op'[i] = op[i]
  OBVIOUS
<1>3. FlagFirst'
  BY <1>1 DEF FlagFirst
<1>4. OneBusy'
  <2> SUFFICES ASSUME NEW i \in Job, (op'[i] \in Busy /\ ~flagged[i[1]]) \/ (op'[i] = "admitted" /\ ~hit[i])
               PROVE  /\ sched'[i[1]] \in Live /\ gen[i[1]] = i[2]
                      /\ \A k \in Job : k[1] = i[1] /\ k # i => op'[k] \notin Busy
    BY DEF OneBusy
  <2>1. CASE i = j
    <3>1. ~flagged[j[1]] /\ o \in Busy
      BY <1>2, <2>1 DEF Busy
    <3>2. /\ sched[j[1]] \in Live /\ gen[j[1]] = j[2]
          /\ \A k \in Job : k[1] = j[1] /\ k # j => op[k] \notin Busy
      BY <1>1, <3>1 DEF OneBusy
    <3> QED BY <1>2, <2>1, <3>1, <3>2
  <2>2. CASE i # j
    <3>1. /\ sched[i[1]] \in Live /\ gen[i[1]] = i[2]
          /\ \A k \in Job : k[1] = i[1] /\ k # i => op[k] \notin Busy
      BY <1>1, <1>2, <2>2 DEF OneBusy
    <3>2. i[1] # j[1] /\ i[1] \in Runs
      BY <2>2, <3>1, JobShape
    <3> QED BY <1>2, <3>1, <3>2
  <2> QED BY <2>1, <2>2
<1>5. NothingBefore'
  <2>1. creator[j[1]] = "done"
    BY <1>1, JobShape DEF NothingBefore, Busy
  <2> SUFFICES ASSUME NEW r \in Runs, creator[r] # "done"
               PROVE  sched'[r] \notin Live /\ \A i \in Job : i[1] = r => op'[i] = "none"
    BY DEF NothingBefore
  <2>2. r # j[1]
    BY <2>1
  <2> QED BY <1>1, <1>2, <2>2 DEF NothingBefore
<1>6. SignalStops'
  <2> SUFFICES ASSUME NEW c \in Cancellers, canceller[c].pc \in {"settle", "release", "done"},
                      NEW i \in Job, i[1] = canceller[c].run, op'[i] = "admitted"
               PROVE  hit[i]
    BY DEF SignalStops
  <2>1. flagged[i[1]]
    BY <1>1 DEF FlagFirst
  <2>2. i # j
    BY <1>2, <2>1
  <2> QED BY <1>1, <1>2, <2>2 DEF SignalStops
<1> QED BY <1>3, <1>4, <1>5, <1>6 DEF StopInv

LEMMA StopOpStep == ASSUME StopInv, ApprovalInv, NEW j \in Job, OpStep(j) PROVE StopInv'
<1>0. /\ StopShapes /\ op \in [Job -> OpStates] /\ j[1] \in Runs
      /\ sched \in [Runs -> Live \cup {"none", "ended"}]
  BY JobShape DEF StopInv, StopShapes, ApprovalInv, Shapes
<1>1. PICK o \in OpStates \ {"none", "queued"} : op' = [op EXCEPT ![j] = o] /\ (o = "admitted" => ~flagged[j[1]])
  <2> DEFINE P(o) == op' = [op EXCEPT ![j] = o] /\ (o = "admitted" => ~flagged[j[1]])
  <2>1. CASE OpDrop(j)
    <3>1. P("dropped") /\ "dropped" \in OpStates \ {"none", "queued"}
      BY <2>1 DEF OpDrop, OpStates
    <3> QED BY <3>1
  <2>2. CASE OpEnter(j)
    <3>1. P("entered") /\ "entered" \in OpStates \ {"none", "queued"}
      BY <2>2 DEF OpEnter, OpStates
    <3> QED BY <3>1
  <2>3. CASE OpCheck(j)
    <3>1. P(IF hit[j] \/ flagged[j[1]] THEN "cancelling" ELSE "admitted")
      BY <2>3 DEF OpCheck
    <3>2. (IF hit[j] \/ flagged[j[1]] THEN "cancelling" ELSE "admitted") \in OpStates \ {"none", "queued"}
      BY DEF OpStates
    <3> QED BY <3>1, <3>2
  <2>4. CASE OpRunning(j)
    <3>1. P(IF hit[j] THEN "cancelling" ELSE "running")
      BY <2>4 DEF OpRunning
    <3>2. (IF hit[j] THEN "cancelling" ELSE "running") \in OpStates \ {"none", "queued"}
      BY DEF OpStates
    <3> QED BY <3>1, <3>2
  <2>5. CASE OpResult(j)
    <3>1. P("writing") /\ "writing" \in OpStates \ {"none", "queued"}
      BY <2>5 DEF OpResult, OpStates
    <3> QED BY <3>1
  <2>6. CASE OpInterruptedByCancel(j)
    <3>1. P("cancelling") /\ "cancelling" \in OpStates \ {"none", "queued"}
      BY <2>6 DEF OpInterruptedByCancel, OpStates
    <3> QED BY <3>1
  <2>7. CASE OpRaise(j)
    <3>1. P("failing") /\ "failing" \in OpStates \ {"none", "queued"}
      BY <2>7 DEF OpRaise, OpStates
    <3> QED BY <3>1
  <2>8. CASE OpWrite(j)
    <3>1. P("written") /\ "written" \in OpStates \ {"none", "queued"}
      BY <2>8 DEF OpWrite, OpStates
    <3> QED BY <3>1
  <2>9. CASE OpWritten(j) \/ OpCancelled(j) \/ OpFailed(j) \/ OpUnwritten(j)
    <3>1. P("releasing") /\ "releasing" \in OpStates \ {"none", "queued"}
      BY <2>9 DEF OpWritten, OpCancelled, OpFailed, OpUnwritten, OpStates
    <3> QED BY <3>1
  <2>10. CASE OpRelease(j) \/ OpUnreleased(j)
    <3>1. P("leaving") /\ "leaving" \in OpStates \ {"none", "queued"}
      BY <2>10 DEF OpRelease, OpUnreleased, OpStates
    <3> QED BY <3>1
  <2>11. CASE OpLeave(j)
    <3>1. P("done") /\ "done" \in OpStates \ {"none", "queued"}
      BY <2>11 DEF OpLeave, OpStates
    <3> QED BY <3>1
  <2> QED BY <2>1, <2>2, <2>3, <2>4, <2>5, <2>6, <2>7, <2>8, <2>9, <2>10, <2>11 DEF OpStep
<1>2. op[j] \in Busy
  BY DEF OpStep, OpDrop, OpEnter, OpCheck, OpRunning, OpResult, OpInterruptedByCancel, OpRaise, OpWrite,
     OpWritten, OpCancelled, OpFailed, OpUnwritten, OpRelease, OpUnreleased, OpLeave, Busy
<1>3. UNCHANGED <<flagged, gen, hit, creator, canceller>>
  BY DEF OpStep, OpDrop, OpEnter, OpCheck, OpRunning, OpResult, OpInterruptedByCancel, OpRaise, OpWrite,
     OpWritten, OpCancelled, OpFailed, OpUnwritten, OpRelease, OpUnreleased, OpLeave, rows, calls, Update
<1>4. \/ sched' = sched
      \/ sched' = [sched EXCEPT ![j[1]] = "running"]
      \/ sched' = [sched EXCEPT ![j[1]] = "ended"] /\ op'[j] \in {"dropped", "done"}
  <2>1. CASE OpDrop(j) \/ OpLeave(j)
    BY <1>0, <2>1 DEF OpDrop, OpLeave
  <2>2. CASE OpEnter(j)
    BY <2>2 DEF OpEnter
  <2> QED BY <2>1, <2>2 DEF OpStep, OpCheck, OpRunning, OpResult, OpInterruptedByCancel, OpRaise, OpWrite,
        OpWritten, OpCancelled, OpFailed, OpUnwritten, OpRelease, OpUnreleased
<1>5. StopShapes'
  BY <1>0, <1>3, <1>4 DEF StopShapes, CancelShapes, Live
<1>6. \A r \in Runs \ {j[1]} : sched'[r] = sched[r]
  BY <1>0, <1>4
<1>7. o \in Busy /\ sched[j[1]] \in Live => sched'[j[1]] \in Live
  BY <1>0, <1>1, <1>4 DEF Busy, Live
<1> QED BY <1>0, <1>1, <1>2, <1>3, <1>5, <1>6, <1>7, StopOp

\* The next generation is queued when no status is live.
LEMMA StopEnqueue ==
    ASSUME StopInv, ApprovalInv, NEW r \in Runs, Enqueue(r), sched[r] \notin Live, creator'[r] = "done",
           \A q \in Runs \ {r} : creator'[q] = creator[q],
           creator' \in [Runs -> {"idle", "accepted", "releasing", "done"}],
           UNCHANGED <<flagged, canceller>>
    PROVE  StopInv'
<1> DEFINE n == <<r, gen[r] + 1>>
<1>1. /\ gen' = [gen EXCEPT ![r] = gen[r] + 1] /\ sched' = [sched EXCEPT ![r] = "queued"]
      /\ op' = [op EXCEPT ![n] = "queued"] /\ hit' = hit
  BY DEF Enqueue
<1>2. /\ StopShapes /\ FlagFirst /\ OneBusy /\ NothingBefore /\ SignalStops
      /\ sched \in [Runs -> Live \cup {"none", "ended"}] /\ gen \in [Runs -> Nat] /\ op \in [Job -> OpStates]
  BY DEF StopInv, StopShapes, ApprovalInv, Shapes
<1>3. /\ \A i \in Job : i # n => op'[i] = op[i]
      /\ \A i \in Job : op'[i] = op[i] \/ (i = n /\ op'[i] = "queued")
      /\ \A q \in Runs \ {r} : gen'[q] = gen[q] /\ sched'[q] = sched[q]
      /\ gen'[r] = gen[r] + 1 /\ sched'[r] = "queued"
  BY <1>1, <1>2
<1>4. StopShapes'
  BY <1>1, <1>2 DEF StopShapes, CancelShapes, Live
<1>5. FlagFirst'
  BY <1>1, <1>2 DEF FlagFirst
<1>6. OneBusy'
  <2> SUFFICES ASSUME NEW i \in Job, (op'[i] \in Busy /\ ~flagged[i[1]]) \/ (op'[i] = "admitted" /\ ~hit[i])
               PROVE  /\ sched'[i[1]] \in Live /\ gen'[i[1]] = i[2]
                      /\ \A k \in Job : k[1] = i[1] /\ k # i => op'[k] \notin Busy
    BY <1>1 DEF OneBusy
  <2>1. CASE i = n
    <3>1. op'[i] = "queued"
      BY <1>1, <1>2, <2>1
    <3>2. ~flagged[r] /\ i[1] = r /\ i[2] = gen[r] + 1
      BY <2>1, <3>1
    <3>3. \A k \in Job : k[1] = r => op[k] \notin Busy
      BY <1>2, <3>2 DEF OneBusy
    <3> QED BY <1>3, <2>1, <3>2, <3>3 DEF Live
  <2>2. CASE i # n
    <3>1. /\ sched[i[1]] \in Live /\ gen[i[1]] = i[2]
          /\ \A k \in Job : k[1] = i[1] /\ k # i => op[k] \notin Busy
      BY <1>2, <1>3, <2>2 DEF OneBusy
    <3>2. i[1] # r /\ i[1] \in Runs /\ n[1] = r
      BY <3>1, JobShape
    <3> QED BY <1>3, <3>1, <3>2
  <2> QED BY <2>1, <2>2
<1>7. NothingBefore'
  <2> SUFFICES ASSUME NEW q \in Runs, creator'[q] # "done"
               PROVE  sched'[q] \notin Live /\ \A i \in Job : i[1] = q => op'[i] = "none"
    BY DEF NothingBefore
  <2>1. q # r /\ creator[q] # "done"
    OBVIOUS
  <2>2. \A i \in Job : i[1] = q => i # n
    BY <2>1
  <2> QED BY <1>2, <1>3, <2>1, <2>2 DEF NothingBefore
<1>8. SignalStops'
  BY <1>1, <1>2, <1>3 DEF SignalStops
<1> QED BY <1>4, <1>5, <1>6, <1>7, <1>8 DEF StopInv

\* Rows and approvals are nothing to it, nor the first steps of create.
LEMMA StopElsewhere ==
    ASSUME StopInv, UNCHANGED <<flagged, jobs, canceller>>,
           creator' \in [Runs -> {"idle", "accepted", "releasing", "done"}],
           \A r \in Runs : creator'[r] # "done" => creator[r] # "done"
    PROVE  StopInv'
<1>1. /\ StopShapes /\ FlagFirst /\ OneBusy /\ NothingBefore /\ SignalStops
      /\ UNCHANGED <<gen, sched, op, hit>>
  BY DEF StopInv, jobs
<1>2. StopShapes' /\ FlagFirst'
  BY <1>1 DEF StopShapes, CancelShapes, FlagFirst
<1>3. OneBusy' /\ NothingBefore'
  BY <1>1 DEF OneBusy, NothingBefore
<1>4. SignalStops'
  BY <1>1 DEF SignalStops
<1> QED BY <1>2, <1>3, <1>4 DEF StopInv

LEMMA StopCreate == ASSUME StopInv, ApprovalInv, NEW r \in Runs, CreateStep(r) PROVE StopInv'
<1>0. creator \in [Runs -> {"idle", "accepted", "releasing", "done"}] /\ NothingBefore
  BY DEF StopInv, StopShapes
<1>1. CASE CreateSubmit(r)
  <2>1. /\ creator[r] = "accepted" /\ Enqueue(r) /\ creator' = [creator EXCEPT ![r] = "done"]
        /\ UNCHANGED <<flagged, canceller>>
    BY <1>1 DEF CreateSubmit, rows
  <2>2. sched[r] \notin Live
    BY <1>0, <2>1 DEF NothingBefore
  <2>3. /\ creator'[r] = "done" /\ \A q \in Runs \ {r} : creator'[q] = creator[q]
        /\ creator' \in [Runs -> {"idle", "accepted", "releasing", "done"}]
    BY <1>0, <2>1
  <2> QED BY <2>1, <2>2, <2>3, StopEnqueue
<1>2. CASE Create(r) \/ CreateAbort(r) \/ CreateRelease(r) \/ CreateFails(r)
  <2>1. UNCHANGED <<flagged, jobs, canceller>>
    BY <1>2 DEF Create, CreateAbort, CreateRelease, CreateFails, Update, rows
  <2>2. creator[r] # "done" /\ \E t \in {"accepted", "releasing", "done"} : creator' = [creator EXCEPT ![r] = t]
    BY <1>2 DEF Create, CreateAbort, CreateRelease, CreateFails
  <2>3. creator' \in [Runs -> {"idle", "accepted", "releasing", "done"}]
    BY <1>0, <2>2
  <2>4. \A q \in Runs : creator'[q] # "done" => creator[q] # "done"
    BY <1>0, <2>2
  <2> QED BY <2>1, <2>3, <2>4, StopElsewhere
<1> QED BY <1>1, <1>2 DEF CreateStep, CreateEnds

\* resume submits only when the status is not live, for a run that has run.
LEMMA StopResume ==
    ASSUME StopInv, ApprovalInv, NEW h \in Resumers, ResumeStep(h) \/ \E r \in Runs : ResumeRead(h, r)
    PROVE  StopInv'
<1>0. creator \in [Runs -> {"idle", "accepted", "releasing", "done"}] /\ NothingBefore
  BY DEF StopInv, StopShapes
<1>1. CASE ResumeSubmit(h)
  <2>1. /\ Enqueue(resumer[h].run) /\ sched[resumer[h].run] \notin Live /\ resumer[h].pc \in {"claimed", "wait"}
        /\ UNCHANGED <<flagged, creator, canceller>>
    BY <1>1 DEF ResumeSubmit, Dispatchable, Awaited, rows
  <2>2. Won(h)
    BY <2>1 DEF Won
  <2>3. <<resumer[h].run, resumer[h].id>> \in Job /\ op[<<resumer[h].run, resumer[h].id>>] # "none"
    BY <2>2 DEF ApprovalInv, ConsumedStays, Past
  <2>4. resumer[h].run \in Runs
    BY <2>3 DEF Job
  <2>5. creator[resumer[h].run] = "done"
    BY <1>0, <2>3, <2>4 DEF NothingBefore
  <2>6. PICK r \in Runs : r = resumer[h].run
    BY <2>4
  <2> QED BY <1>0, <2>1, <2>5, <2>6, StopEnqueue
<1>2. CASE ~ResumeSubmit(h)
  <2>1. UNCHANGED <<flagged, jobs, canceller, creator>>
    BY <1>2 DEF ResumeStep, ResumeRead, ResumeRefused, ResumeExpired, ResumeClaim, ResumeWait,
       ResumeAwaitedCancelled, ResumeRejected, ResumeAbandon, ResumeFinish, ResumeRelease, ResumeFails,
       rows, Update
  <2> QED BY <1>0, <2>1, StopElsewhere
<1> QED BY <1>1, <1>2

-----------------------------------------------------------------------------
\* The signal: what was admitted is the latest job, and it is hit.
LEMMA StopSignal == ASSUME StopInv, ApprovalInv, NEW c \in Cancellers, CancelSignal(c) PROVE StopInv'
<1>1. /\ StopShapes /\ CancelShapes /\ FlagFirst /\ OneBusy /\ NothingBefore /\ SignalStops
      /\ sched \in [Runs -> Live \cup {"none", "ended"}] /\ hit \in [Job -> BOOLEAN]
  BY DEF StopInv, StopShapes
<1>2. canceller[c].pc = "signal"
  BY DEF CancelSignal
<1>3. canceller[c] \in [pc : {"flag", "signal"}, run : Runs, record : Active]
  BY <1>1, <1>2 DEF CancelShapes
<1>4. PICK r \in Runs : r = canceller[c].run
  BY <1>3
<1> DEFINE told == \/ sched[r] \in Live
                   \/ PendingDispatch(canceller[c].record, sched[r])
                   \/ canceller[c].record = "interrupted"
           u == [pc |-> IF SettlesHere(canceller[c].record, sched[r]) THEN "settle" ELSE "done",
                 run |-> r, told |-> told]
<1>5. /\ SchedulerCancel(r) /\ canceller' = [canceller EXCEPT ![c] = u]
      /\ UNCHANGED <<flagged, gen, op, creator>>
  BY <1>4 DEF CancelSignal, rows
<1>6. u \in [pc : {"settle", "release", "done"}, run : Runs, told : BOOLEAN] /\ u.run = r
  BY <1>3 DEF PendingDispatch
<1> HIDE DEF u, told
<1>7. /\ canceller'[c] = u /\ \A d \in Cancellers : d # c => canceller'[d] = canceller[d]
      /\ CancelShapes'
  BY <1>1, <1>5, <1>6 DEF CancelShapes
<1>8. /\ \A q \in Runs : sched'[q] = sched[q] \/ (q = r /\ sched'[q] = "ended")
      /\ sched[r] \notin Live => hit' = hit
      /\ hit' \in [Job -> BOOLEAN]
      /\ \A i \in Job : hit[i] => hit'[i]
      /\ \A i \in Job : i[1] # r => (hit'[i] <=> hit[i])
      /\ \A i \in Job : sched[r] \in Live /\ i = <<r, gen[r]>> => hit'[i]
  BY <1>1, <1>5, SignalEffect
<1>9. flagged[r]
  BY <1>1, <1>2, <1>4 DEF FlagFirst
<1>10. StopShapes'
  <2>1. sched' \in [Runs -> Live \cup {"none", "ended"}]
    BY <1>1, <1>5 DEF SchedulerCancel
  <2> QED BY <1>1, <1>5, <1>7, <1>8, <2>1 DEF StopShapes
<1>11. FlagFirst'
  <2>1. \A i \in Job : hit'[i] => flagged[i[1]]
    BY <1>1, <1>8, <1>9 DEF FlagFirst
  <2>2. \A d \in Cancellers : canceller'[d].pc \in {"signal", "settle", "release", "done"} => flagged[canceller'[d].run]
    BY <1>1, <1>6, <1>7, <1>9 DEF FlagFirst
  <2> QED BY <1>5, <2>1, <2>2 DEF FlagFirst
<1>12. \A i \in Job : i[1] = r /\ op[i] = "admitted" => hit'[i]
  <2> SUFFICES ASSUME NEW i \in Job, i[1] = r, op[i] = "admitted", ~hit[i] PROVE hit'[i]
    BY <1>8
  <2>1. sched[r] \in Live /\ gen[r] = i[2]
    BY <1>1 DEF OneBusy
  <2>2. i = <<r, gen[r]>>
    BY <2>1, JobShape
  <2> QED BY <1>8, <2>1, <2>2
<1>13. OneBusy'
  <2> SUFFICES ASSUME NEW i \in Job, (op[i] \in Busy /\ ~flagged[i[1]]) \/ (op[i] = "admitted" /\ ~hit'[i])
               PROVE  /\ sched'[i[1]] \in Live /\ gen[i[1]] = i[2]
                      /\ \A k \in Job : k[1] = i[1] /\ k # i => op[k] \notin Busy
    BY <1>5 DEF OneBusy
  <2>1. i[1] # r /\ i[1] \in Runs
    BY <1>9, <1>12, JobShape
  <2> QED BY <1>1, <1>8, <2>1 DEF OneBusy
<1>14. NothingBefore'
  BY <1>1, <1>5, <1>8 DEF NothingBefore, Live
<1>15. SignalStops'
  BY <1>1, <1>5, <1>6, <1>7, <1>8, <1>12 DEF SignalStops
<1> QED BY <1>10, <1>11, <1>13, <1>14, <1>15 DEF StopInv

\* The other steps of cancel.
LEMMA StopCall ==
    ASSUME StopInv, CancelShapes', flagged' \in [Runs -> BOOLEAN], UNCHANGED <<jobs, creator>>,
           \A r \in Runs : flagged[r] => flagged'[r],
           \A c \in Cancellers : canceller'[c].pc \in {"signal", "settle", "release", "done"} => flagged'[canceller'[c].run],
           \A c \in Cancellers : canceller'[c].pc \in {"settle", "release", "done"} =>
                 canceller[c].pc \in {"settle", "release", "done"} /\ canceller'[c].run = canceller[c].run
    PROVE  StopInv'
<1>1. /\ StopShapes /\ FlagFirst /\ OneBusy /\ NothingBefore /\ SignalStops
      /\ UNCHANGED <<gen, sched, op, hit>>
  BY DEF StopInv, jobs
<1>2. StopShapes'
  BY <1>1 DEF StopShapes
<1>3. FlagFirst'
  BY <1>1, JobShape DEF FlagFirst
<1>4. OneBusy'
  BY <1>1, JobShape DEF OneBusy
<1>5. NothingBefore' /\ SignalStops'
  BY <1>1 DEF NothingBefore, SignalStops
<1> QED BY <1>2, <1>3, <1>4, <1>5 DEF StopInv

LEMMA StopCancel ==
    ASSUME StopInv, ApprovalInv, NEW c \in Cancellers, CancelStep(c) \/ \E r \in Runs : CancelRead(c, r)
    PROVE  StopInv'
<1>0. CancelShapes /\ FlagFirst /\ flagged \in [Runs -> BOOLEAN]
  BY DEF StopInv, StopShapes
<1>1. CASE CancelSignal(c)
  BY <1>1, StopSignal
<1>2. CASE \E r \in Runs : CancelRead(c, r)
  <2>1. PICK r \in Runs : CancelRead(c, r)
    BY <1>2
  <2> DEFINE u == [pc |-> "flag", run |-> r, record |-> status[r]]
  <2>2. /\ canceller' = [canceller EXCEPT ![c] = u] /\ status[r] \in Active
        /\ UNCHANGED <<flagged, jobs, creator>>
    BY <2>1 DEF CancelRead, rows
  <2>3. u \in [pc : {"flag", "signal"}, run : Runs, record : Active] /\ u.pc = "flag"
    BY <2>2
  <2> HIDE DEF u
  <2>4. /\ CancelShapes' /\ canceller'[c] = u
        /\ \A d \in Cancellers : d # c => canceller'[d] = canceller[d]
    BY <1>0, <2>2, <2>3 DEF CancelShapes
  <2> QED BY <1>0, <2>2, <2>3, <2>4, StopCall DEF FlagFirst
<1>3. CASE CancelFlag(c)
  <2>1. /\ canceller[c].pc = "flag" /\ canceller' = [canceller EXCEPT ![c].pc = "signal"]
        /\ flagged' = [flagged EXCEPT ![canceller[c].run] = TRUE]
        /\ UNCHANGED <<jobs, creator>>
    BY <1>3 DEF CancelFlag
  <2>2. /\ CancelShapes' /\ canceller[c].run \in Runs
        /\ \A d \in Cancellers : d # c => canceller'[d] = canceller[d]
        /\ canceller'[c].pc = "signal" /\ canceller'[c].run = canceller[c].run
    BY <1>0, <2>1, CancelMoves
  <2>3. /\ flagged' \in [Runs -> BOOLEAN] /\ flagged'[canceller[c].run]
        /\ \A r \in Runs : flagged[r] => flagged'[r]
    BY <1>0, <2>1, <2>2
  <2>4. \A d \in Cancellers : canceller[d].pc \in {"signal", "settle", "release", "done"} => canceller[d].run \in Runs
    BY <1>0 DEF CancelShapes
  <2>5. \A d \in Cancellers : canceller'[d].pc \in {"signal", "settle", "release", "done"} => flagged'[canceller'[d].run]
    BY <1>0, <2>2, <2>3, <2>4 DEF FlagFirst
  <2>6. \A d \in Cancellers : canceller'[d].pc \in {"settle", "release", "done"} =>
           canceller[d].pc \in {"settle", "release", "done"} /\ canceller'[d].run = canceller[d].run
    BY <2>2
  <2> QED BY <2>1, <2>2, <2>3, <2>5, <2>6, StopCall
<1>4. CASE CancelSettle(c) \/ CancelRelease(c)
  <2>1. PICK p \in {"release", "done"} : canceller' = [canceller EXCEPT ![c].pc = p]
    BY <1>4 DEF CancelSettle, CancelRelease
  <2>2. canceller[c].pc \in {"settle", "release"} /\ UNCHANGED <<flagged, jobs, creator>>
    BY <1>4 DEF CancelSettle, CancelRelease, Update
  <2>3. /\ CancelShapes'
        /\ \A d \in Cancellers : d # c => canceller'[d] = canceller[d]
        /\ canceller'[c].pc = p /\ canceller'[c].run = canceller[c].run
    BY <1>0, <2>1, <2>2, CancelMoves
  <2>4. \A d \in Cancellers : canceller'[d].pc \in {"signal", "settle", "release", "done"} => flagged'[canceller'[d].run]
    BY <1>0, <2>2, <2>3 DEF FlagFirst
  <2>5. \A d \in Cancellers : canceller'[d].pc \in {"settle", "release", "done"} =>
           canceller[d].pc \in {"settle", "release", "done"} /\ canceller'[d].run = canceller[d].run
    BY <2>2, <2>3
  <2> QED BY <1>0, <2>2, <2>3, <2>4, <2>5, StopCall
<1>5. CASE CancelFails(c)
  <2>1. canceller' = [canceller EXCEPT ![c] = [pc |-> "lost"]] /\ UNCHANGED <<flagged, jobs, creator>>
    BY <1>5 DEF CancelFails, rows
  <2>2. /\ CancelShapes' /\ canceller'[c].pc = "lost"
        /\ \A d \in Cancellers : d # c => canceller'[d] = canceller[d]
    BY <1>0, <2>1, CancelLost
  <2>3. \A d \in Cancellers : canceller'[d].pc \in {"signal", "settle", "release", "done"} => flagged'[canceller'[d].run]
    BY <1>0, <2>1, <2>2 DEF FlagFirst
  <2>4. \A d \in Cancellers : canceller'[d].pc \in {"settle", "release", "done"} =>
           canceller[d].pc \in {"settle", "release", "done"} /\ canceller'[d].run = canceller[d].run
    BY <2>2
  <2> QED BY <1>0, <2>1, <2>2, <2>3, <2>4, StopCall
<1> QED BY <1>1, <1>2, <1>3, <1>4, <1>5 DEF CancelStep

LEMMA StopRestart == ASSUME StopInv, Restart PROVE StopInv'
<1>1. /\ creator' = [r \in Runs |-> IF creator[r] = "idle" THEN "idle" ELSE "done"]
      /\ sched' = [r \in Runs |-> "none"]
      /\ op' = [j \in Job |-> IF op[j] \in {"none", "done", "dropped"} THEN op[j] ELSE "lost"]
      /\ canceller' = [c \in Cancellers |-> Lost(canceller[c])]
      /\ UNCHANGED <<flagged, gen, hit>>
  BY DEF Restart
<1>2. StopShapes /\ CancelShapes /\ FlagFirst /\ OneBusy /\ NothingBefore /\ SignalStops
  BY DEF StopInv, StopShapes
<1>3. CancelShapes'
  <2>1. \A c \in Cancellers : Lost(canceller[c]) \in
           [pc : {"idle", "lost"}] \cup [pc : {"settle", "release", "done"}, run : Runs, told : BOOLEAN]
    BY <1>2 DEF CancelShapes, Lost
  <2> QED BY <1>1, <2>1 DEF CancelShapes
<1>4. StopShapes'
  BY <1>1, <1>2, <1>3 DEF StopShapes, Live
<1>5. \A c \in Cancellers : canceller'[c].pc \in {"signal", "settle", "release", "done"} => canceller'[c] = canceller[c]
  BY <1>1 DEF Lost
<1>6. FlagFirst'
  BY <1>1, <1>2, <1>5 DEF FlagFirst
<1>7. \A j \in Job : op'[j] \notin Busy /\ op'[j] # "admitted" /\ (op[j] = "none" => op'[j] = "none")
  BY <1>1 DEF Busy
<1>8. OneBusy' /\ SignalStops'
  BY <1>7 DEF OneBusy, SignalStops
<1>9. NothingBefore'
  BY <1>1, <1>2, <1>7 DEF NothingBefore, Live
<1> QED BY <1>4, <1>6, <1>8, <1>9 DEF StopInv

LEMMA StopNext == ASSUME StopInv, ApprovalInv, [Next]_vars PROVE StopInv'
<1>1. CASE \E r \in Runs : CreateStep(r)
  BY <1>1, StopCreate
<1>2. CASE \E j \in Job : OpStep(j)
  BY <1>2, StopOpStep
<1>3. CASE \E c \in Cancellers : CancelStep(c) \/ \E r \in Runs : CancelRead(c, r)
  BY <1>3, StopCancel
<1>4. CASE \E h \in Resumers : ResumeStep(h) \/ \E r \in Runs : ResumeRead(h, r)
  BY <1>4, StopResume
<1>5. CASE Restart
  BY <1>5, StopRestart
<1>6. CASE UNCHANGED vars
  <2>1. UNCHANGED <<flagged, jobs, canceller, creator>>
    BY <1>6 DEF vars, rows, calls
  <2>2. creator \in [Runs -> {"idle", "accepted", "releasing", "done"}]
    BY DEF StopInv, StopShapes
  <2> QED BY <2>1, <2>2, StopElsewhere
<1> QED BY <1>1, <1>2, <1>3, <1>4, <1>5, <1>6 DEF Next

\* Only OpRunning enters the runtime, from an admitted job that is not hit.
LEMMA StopStep ==
    ASSUME StopInv, ApprovalInv, Next, NEW j \in Job, Acknowledged(j[1]), op'[j] = "running"
    PROVE  op[j] = "running"
<1>1. SignalStops /\ op \in [Job -> OpStates]
  BY DEF StopInv, ApprovalInv, Shapes
<1>2. op[j] = "admitted" => hit[j]
  BY <1>1 DEF Acknowledged, SignalStops
<1>3. CASE \E i \in Job : OpStep(i)
  <2>1. PICK i \in Job : OpStep(i)
    BY <1>3
  <2>2. CASE OpRunning(i)
    BY <1>1, <1>2, <2>2 DEF OpRunning
  <2>3. CASE OpCheck(i)
    BY <1>1, <2>3 DEF OpCheck
  <2> QED BY <1>1, <2>1, <2>2, <2>3 DEF OpStep, OpDrop, OpEnter, OpResult, OpInterruptedByCancel, OpRaise,
        OpWrite, OpWritten, OpCancelled, OpFailed, OpUnwritten, OpRelease, OpUnreleased, OpLeave
<1>4. CASE \E r \in Runs : CreateStep(r)
  BY <1>1, <1>4 DEF CreateStep, CreateEnds, Create, CreateSubmit, CreateAbort, CreateRelease, CreateFails,
     Enqueue, jobs
<1>5. CASE \E c \in Cancellers : CancelStep(c) \/ \E r \in Runs : CancelRead(c, r)
  BY <1>5 DEF CancelStep, CancelRead, CancelFlag, CancelSignal, CancelSettle, CancelRelease, CancelFails, jobs
<1>6. CASE \E h \in Resumers : ResumeStep(h) \/ \E r \in Runs : ResumeRead(h, r)
  BY <1>1, <1>6 DEF ResumeStep, ResumeRead, ResumeRefused, ResumeExpired, ResumeClaim, ResumeWait,
     ResumeAwaitedCancelled, ResumeSubmit, ResumeRejected, ResumeAbandon, ResumeFinish, ResumeRelease, ResumeFails,
     Enqueue, jobs
<1>7. CASE Restart
  BY <1>7 DEF Restart
<1> QED BY <1>3, <1>4, <1>5, <1>6, <1>7 DEF Next

\* After cancel answered True no runtime of that run is entered again, for any
\* number of runs, approvals, calls and crashes.
THEOREM CancelStopsRuntime == Spec => AcknowledgedCancelStopsRuntime
<1>1. ApprovalInv /\ [Next]_vars => ApprovalInv'
  BY StepInv
<1>2. StopInv /\ ApprovalInv /\ [Next]_vars => StopInv'
  BY StopNext
<1>3. StopInv /\ ApprovalInv /\ [Next]_vars =>
         [\A j \in Job : Acknowledged(j[1]) /\ op'[j] = "running" => op[j] = "running"]_vars
  BY StopStep
<1> QED BY InitInv, StopInit, <1>1, <1>2, <1>3, PTL DEF Spec, AcknowledgedCancelStopsRuntime

=============================================================================
