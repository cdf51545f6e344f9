--------------------------- MODULE ObserversProofs ---------------------------
(***************************************************************************)
(* What holds of the components that answer beside a run, for every value   *)
(* of their constants: the subagents, the event stream and its window, the  *)
(* client of a tool server.  Each section shows an invariant of one         *)
(* component inductive; the last one carries the results over to SumSpec,   *)
(* whose steps are steps or stutters of every component.                    *)
(***************************************************************************)
EXTENDS Observers, FiniteSetTheorems, SequenceTheorems, TLAPS

-----------------------------------------------------------------------------
(* Subagents: any callers, turns and restarts *)

-----------------------------------------------------------------------------
(* The operations *)

LEMMA ChildInitInv == Init => SubagentsInv
BY SubagentsAssumption DEF Init, SubagentsInv, TypeOK, OperationsSound, ScheduleSound, LockHeld,
   FollowSound, NoOrphanRow, Gen, Early, Live, Executing, Ended, Settling, Terminal, NONE

\* A job that has not completed is the row's and the last one submitted, and
\* nobody can have claimed another generation.
LEMMA ChildAlone ==
    ASSUME SubagentsInv, NEW g \in Gen, op[g] \in Early
    PROVE  /\ g = job /\ g = row.gen /\ g # 0 /\ row.status # "completed"
           /\ \A h \in Gen \ {g} : op[h] \notin Early
           /\ \A c \in Callers : pc[c] # "claimed"
           /\ \A c \in Callers : pc[c] = "ready" => pin[c] # g
<1>0. op[g] # NONE /\ op[g] \in Live
  BY DEF Early, Live, Executing, Ended, NONE
<1>1. g <= job /\ g = row.gen /\ row.status # "completed" /\ \A h \in Gen \ {g} : op[h] \notin Early
  BY <1>0 DEF SubagentsInv, OperationsSound
<1>2. g = job /\ g # 0
  BY <1>1, SubagentsAssumption DEF SubagentsInv, OperationsSound, TypeOK, Gen
<1>3. \A c \in Callers : pc[c] # "claimed"
  BY <1>1, <1>2, SubagentsAssumption DEF SubagentsInv, LockHeld, TypeOK, Gen
<1>4. \A c \in Callers : pc[c] = "ready" => pin[c] # g
  BY <1>0, <1>2 DEF SubagentsInv, FollowSound
<1> QED BY <1>1, <1>2, <1>3, <1>4

\* The fields of the row that an operation writes.
LEMMA ChildRowWritten ==
    ASSUME TypeOK, NEW s \in Settling \cup Terminal
    PROVE  /\ Written(s) \in [status : Settling \cup Terminal \cup {NONE}, gen : 0..MaxGen]
           /\ Written(s).status = s /\ Written(s).gen = row.gen
BY DEF TypeOK, Written, Settling, Terminal

\* An operation that moves inside its life disturbs nothing, if what it says of
\* the row is settled, or its last write is still to come, or the row is
\* another generation's.
LEMMA ChildOperationMoves ==
    ASSUME SubagentsInv, NEW g \in Gen, NEW next \in Executing, op[g] \in Executing,
           op' = [op EXCEPT ![g] = next],
           row' \in [status : Settling \cup Terminal \cup {NONE}, gen : 0..MaxGen],
           row'.gen = row.gen,
           row' = row \/ op[g] \in Early \/ row'.status \in Terminal \ {"completed"},
           next \in Early => op[g] \in Early /\ row'.status # "completed",
           next = "completing" => row'.status = "completed",
           next \in Ended => row'.status \in Terminal \/ (row' = row /\ g # row.gen),
           UNCHANGED <<schedVars, callVars, lifeVars>>
    PROVE  SubagentsInv'
<1>1. op[g] \in Early =>
         /\ g = job /\ g = row.gen
         /\ \A h \in Gen \ {g} : op[h] \notin Early
         /\ \A c \in Callers : pc[c] # "claimed"
  BY ChildAlone
<1>2. TypeOK'
  BY DEF SubagentsInv, TypeOK, schedVars, callVars, lifeVars
<1>3. /\ \A h \in Gen : op'[h] = IF h = g THEN next ELSE op[h]
      /\ next \in Live /\ next # "queued" /\ next # NONE /\ next \notin {"dropped", "drained"}
      /\ op[g] # "queued" /\ op[g] # NONE /\ op[g] \in Live /\ op[g] \notin {"dropped", "drained"}
  BY DEF SubagentsInv, TypeOK, Live, Executing, Ended, NONE
<1>4. OperationsSound'
  <2> SUFFICES ASSUME NEW h \in Gen
               PROVE  /\ op'[h] # NONE => h <= job
                      /\ op'[h] \in Early => h = row'.gen /\ row'.status # "completed"
                      /\ op'[h] = "completing" /\ h = row'.gen => row'.status \in Terminal
                      /\ op'[h] \in Executing => h = row'.gen \/ Overtaken(h)
                      /\ token[h] \/ settled[h] => op'[h] # NONE
                      /\ settled[h] => op'[h] \in {"queued", "dropped", "drained"}
                      /\ settled[h] /\ op'[h] = "queued" => token[h]
    BY DEF SubagentsInv, OperationsSound, Overtaken, schedVars, callVars
  <2>1. /\ op[h] # NONE => h <= job
        /\ op[h] \in Early => h = row.gen /\ row.status # "completed"
        /\ op[h] = "completing" /\ h = row.gen => row.status \in Terminal
        /\ op[h] \in Executing => h = row.gen \/ Overtaken(h)
        /\ token[h] \/ settled[h] => op[h] # NONE
        /\ settled[h] => op[h] \in {"queued", "dropped", "drained"}
        /\ settled[h] /\ op[h] = "queued" => token[h]
    BY DEF SubagentsInv, OperationsSound
  <2>2. CASE h = g
    <3>1. op'[h] \in Early => h = row'.gen /\ row'.status # "completed"
      BY <1>1, <1>3, <2>2
    <3>2. op'[h] = "completing" => row'.status \in Terminal
      BY <1>3, <2>2 DEF Terminal
    <3> QED BY <1>3, <2>1, <2>2, <3>1, <3>2
  <2>3. CASE h # g
    <3>1. op[h] \in Early => op[g] \notin Early /\ row'.status # "completed"
      BY <1>1, <2>1, <2>3
    <3>2. op[h] = "completing" /\ h = row.gen => row'.status \in Terminal
      BY <1>1, <2>1, <2>3
    <3> QED BY <1>3, <2>1, <2>3, <3>1, <3>2
  <2> QED BY <2>2, <2>3
<1>5. ScheduleSound'
  <2>1. row'.status = "completed" => job \in {0, row.gen}
    BY <1>1 DEF SubagentsInv, ScheduleSound
  <2>2. sched = "queued" => job # 0 /\ op'[job] = "queued"
    BY <1>3, SubagentsAssumption DEF SubagentsInv, ScheduleSound, TypeOK, Gen
  <2>3. sched = "running" => job # 0 /\ reg = job /\ op'[job] \in Executing
    BY <1>3, SubagentsAssumption DEF SubagentsInv, ScheduleSound, TypeOK, Gen
  <2>4. job # 0 => op'[job] # NONE
    BY <1>3, SubagentsAssumption DEF SubagentsInv, ScheduleSound, TypeOK, Gen
  <2> QED BY <2>1, <2>2, <2>3, <2>4 DEF ScheduleSound, schedVars
<1>6. LockHeld'
  BY <1>1 DEF SubagentsInv, LockHeld, callVars, schedVars
<1>7. FollowSound'
  <2> SUFFICES ASSUME NEW c \in Callers, pc[c] \in {"waiting", "ready"}, pin[c] # 0
               PROVE  /\ pin[c] <= row'.gen
                      /\ \A d \in Callers : pc[d] = "claimed" => pin[c] < row'.gen
                      /\ borrowed[c] \in {0, pin[c]}
                      /\ op'[pin[c]] # "queued"
                      /\ pc[c] = "ready" \/ borrowed[c] = 0 => op'[pin[c]] \notin Live
    BY DEF FollowSound, callVars
  <2>1. pin[c] \in Gen
    BY SubagentsAssumption DEF SubagentsInv, TypeOK, Gen
  <2> QED BY <1>3, <2>1 DEF SubagentsInv, FollowSound
<1>8. NoOrphanRow'
  <2> SUFFICES ASSUME row'.status \in Settling, open
               PROVE  \/ \E c \in Callers : pc[c] = "claimed" /\ claimed[c] = row.gen
                      \/ op'[row.gen] = "queued" /\ ~token[row.gen]
                      \/ op'[row.gen] \in Executing \ Ended
    BY DEF NoOrphanRow, schedVars, callVars, lifeVars
  <2>1. row'.status \notin Terminal
    BY DEF Terminal, Settling
  <2>2. CASE g = row.gen
    BY <1>3, <2>1, <2>2
  <2>3. CASE g # row.gen
    <3>1. row' = row
      BY <1>1, <2>1, <2>3
    <3>2. row.gen \in Gen => op'[row.gen] = op[row.gen]
      BY <1>3, <2>3
    <3>3. row.gen \notin Gen => op' [row.gen] = op[row.gen]
      BY <2>3
    <3> QED BY <3>1, <3>2, <3>3 DEF SubagentsInv, NoOrphanRow
  <2> QED BY <2>2, <2>3
<1> QED BY <1>2, <1>4, <1>5, <1>6, <1>7, <1>8 DEF SubagentsInv

LEMMA ChildOperationStep == ASSUME SubagentsInv, NEW g \in Gen, Operation(g) \/ Finish(g)
                                   PROVE SubagentsInv'
<1> USE DEF Early, Executing, Ended
<1> DEFINE Rowed == [status : Settling \cup Terminal \cup {NONE}, gen : 0..MaxGen]
<1>0. row \in Rowed /\ TypeOK
  BY DEF SubagentsInv, TypeOK
<1>1. op[g] \in Early => row.status # "completed"
  BY ChildAlone
<1>2. CASE Enter(g)
  <2>1. PICK next \in {"cancelling", "starting"} : op' = [op EXCEPT ![g] = next]
    BY <1>2 DEF Enter, Goto
  <2> QED BY <1>0, <1>1, <1>2, <2>1, ChildOperationMoves DEF Enter
<1>3. CASE OpWrite(g, "starting", "running", "started")
  <2>1. PICK next \in {"cancelling", "started"} : op' = [op EXCEPT ![g] = next]
    BY <1>3 DEF OpWrite, Goto
  <2>2. row' \in Rowed /\ row'.gen = row.gen /\ row'.status # "completed"
    BY <1>0, <1>3, ChildRowWritten DEF OpWrite, Settling
  <2> QED BY <1>3, <2>1, <2>2, ChildOperationMoves DEF OpWrite
<1>4. CASE OpEmit(g, "started", "asking")
  <2>1. PICK next \in {"cancelling", "asking", "failing"} : op' = [op EXCEPT ![g] = next]
    BY <1>4 DEF OpEmit, Goto
  <2> QED BY <1>0, <1>1, <1>4, <2>1, ChildOperationMoves DEF OpEmit
<1>5. CASE Runner(g)
  <2>1. PICK next \in {"cancelling", "answered", "failing"} : op' = [op EXCEPT ![g] = next]
    BY <1>5 DEF Runner, Goto
  <2> QED BY <1>0, <1>1, <1>5, <2>1, ChildOperationMoves DEF Runner
<1>6. CASE OpWrite(g, "answered", "completed", "completing")
  <2>1. PICK next \in {"cancelling", "completing"} : op' = [op EXCEPT ![g] = next]
    BY <1>6 DEF OpWrite, Goto
  <2>2. row' \in Rowed /\ row'.gen = row.gen /\ row'.status = "completed"
    BY <1>0, <1>6, ChildRowWritten DEF OpWrite, Terminal
  <2> QED BY <1>6, <2>1, <2>2, ChildOperationMoves DEF OpWrite
<1>7. CASE OpEmit(g, "completing", "returned")
  <2>1. PICK next \in {"cancelling", "returned", "failing"} : op' = [op EXCEPT ![g] = next]
    BY <1>7 DEF OpEmit, Goto
  <2>2. g = row.gen => row.status \in Terminal
    BY <1>7 DEF SubagentsInv, OperationsSound, OpEmit
  <2> QED BY <1>0, <1>7, <2>1, <2>2, ChildOperationMoves DEF OpEmit
<1>8. ASSUME NEW at \in {"cancelling", "failing"}, NEW s \in Terminal \ {"completed"},
             NEW next \in {"cancelled", "raised"}, FinishAs(g, at, s, next)
      PROVE  SubagentsInv'
  <2>1. row' \in Rowed /\ row'.gen = row.gen /\ row'.status \in Terminal \ {"completed"}
    BY <1>0, <1>8, ChildRowWritten DEF FinishAs
  <2> QED BY <1>8, <2>1, ChildOperationMoves DEF FinishAs, Goto
<1> QED BY <1>2, <1>3, <1>4, <1>5, <1>6, <1>7, <1>8 DEF Operation, Finish, Terminal

-----------------------------------------------------------------------------
(* The worker *)

\* A job that leaves the worker's hands, by a drop or a collection, disturbs
\* nothing when the row does not wait for it; whoever waits for it goes on.
LEMMA ChildWorkerMoves ==
    ASSUME SubagentsInv, NEW g \in Gen, op[g] \in Live, NEW next \in {"dropped", "drained"},
           op' = [op EXCEPT ![g] = next], settled' = [settled EXCEPT ![g] = TRUE],
           sched' \in Terminal, reg' \in 0..MaxGen,
           (op[g] = "queued" /\ token[g]) \/ op[g] \in Ended,
           UNCHANGED <<row, job, token, hit, callVars, lifeVars>>
    PROVE  SubagentsInv'
<1>1. TypeOK'
  BY DEF SubagentsInv, TypeOK, callVars, lifeVars, Terminal
<1>2. /\ \A h \in Gen : op'[h] = IF h = g THEN next ELSE op[h]
      /\ \A h \in Gen : settled'[h] = (h = g \/ settled[h])
      /\ next \notin Live /\ next \notin Early /\ next \notin Executing
      /\ next # "queued" /\ next # NONE /\ next # "completing" /\ op[g] # NONE
  BY DEF SubagentsInv, TypeOK, Live, Early, Executing, Ended, NONE
<1>3. OperationsSound'
  <2> SUFFICES ASSUME NEW h \in Gen
               PROVE  /\ op'[h] # NONE => h <= job
                      /\ op'[h] \in Early => h = row.gen /\ row.status # "completed"
                      /\ op'[h] = "completing" /\ h = row.gen => row.status \in Terminal
                      /\ op'[h] \in Executing => h = row.gen \/ Overtaken(h)
                      /\ token[h] \/ settled'[h] => op'[h] # NONE
                      /\ settled'[h] => op'[h] \in {"queued", "dropped", "drained"}
                      /\ settled'[h] /\ op'[h] = "queued" => token[h]
    BY DEF SubagentsInv, OperationsSound, Overtaken, callVars
  <2>1. /\ op[h] # NONE => h <= job
        /\ op[h] \in Early => h = row.gen /\ row.status # "completed"
        /\ op[h] = "completing" /\ h = row.gen => row.status \in Terminal
        /\ op[h] \in Executing => h = row.gen \/ Overtaken(h)
        /\ token[h] \/ settled[h] => op[h] # NONE
        /\ settled[h] => op[h] \in {"queued", "dropped", "drained"}
        /\ settled[h] /\ op[h] = "queued" => token[h]
    BY DEF SubagentsInv, OperationsSound
  <2> QED BY <1>2, <2>1
<1>4. ScheduleSound'
  <2>1. job # 0 => op'[job] # NONE
    BY <1>2, SubagentsAssumption DEF SubagentsInv, ScheduleSound, TypeOK, Gen
  <2>2. sched' \notin {"queued", "running"}
    BY DEF Terminal
  <2> QED BY <2>1, <2>2 DEF SubagentsInv, ScheduleSound
<1>5. LockHeld'
  BY DEF SubagentsInv, LockHeld, callVars
<1>6. FollowSound'
  <2> SUFFICES ASSUME NEW c \in Callers, pc[c] \in {"waiting", "ready"}, pin[c] # 0
               PROVE  /\ op'[pin[c]] # "queued"
                      /\ pc[c] = "ready" \/ borrowed[c] = 0 => op'[pin[c]] \notin Live
    BY DEF SubagentsInv, FollowSound, callVars
  <2>1. pin[c] \in Gen
    BY SubagentsAssumption DEF SubagentsInv, TypeOK, Gen
  <2> QED BY <1>2, <2>1 DEF SubagentsInv, FollowSound
<1>7. NoOrphanRow'
  <2> SUFFICES ASSUME row.status \in Settling, open
               PROVE  \/ \E c \in Callers : pc[c] = "claimed" /\ claimed[c] = row.gen
                      \/ op'[row.gen] = "queued" /\ ~token[row.gen]
                      \/ op'[row.gen] \in Executing \ Ended
    BY DEF NoOrphanRow, callVars, lifeVars
  <2>1. CASE \E c \in Callers : pc[c] = "claimed" /\ claimed[c] = row.gen
    BY <2>1
  <2>2. CASE op[row.gen] = "queued" /\ ~token[row.gen]
    <3>1. row.gen # g
      BY <2>2 DEF Ended
    <3> QED BY <2>2, <3>1
  <2>3. CASE op[row.gen] \in Executing \ Ended
    <3>1. row.gen # g
      BY <2>3 DEF Executing, Ended
    <3> QED BY <2>3, <3>1
  <2> QED BY <2>1, <2>2, <2>3 DEF SubagentsInv, NoOrphanRow
<1> QED BY <1>1, <1>3, <1>4, <1>5, <1>6, <1>7 DEF SubagentsInv

LEMMA ChildWorkerStep == ASSUME SubagentsInv, NEW g \in Gen, Drop(g) \/ Collect(g)
                                PROVE SubagentsInv'
<1>0. reg \in 0..MaxGen /\ 0 \in 0..MaxGen
  BY SubagentsAssumption DEF SubagentsInv, TypeOK
<1>1. CASE Drop(g)
  BY <1>0, <1>1, ChildWorkerMoves DEF Drop, Goto, Live, Terminal
<1>2. CASE Collect(g)
  <2>1. op[g] \in Live
    BY <1>2 DEF Collect, Live, Executing
  <2>2. sched' \in Terminal
    BY <1>2 DEF Collect, Terminal, Ended
  <2>3. op' = [op EXCEPT ![g] = "drained"] /\ op[g] \in Ended
    BY <1>2 DEF Collect, Goto
  <2>4. settled' = [settled EXCEPT ![g] = TRUE] /\ reg' = 0
    BY <1>2 DEF Collect
  <2>5. UNCHANGED <<row, job, token, hit, callVars, lifeVars>>
    BY <1>2 DEF Collect
  <2> QED BY <1>0, <2>1, <2>2, <2>3, <2>4, <2>5, ChildWorkerMoves
<1> QED BY <1>1, <1>2

LEMMA ChildTakeStep == ASSUME SubagentsInv, NEW g \in Gen, Take(g) PROVE SubagentsInv'
<1>1. /\ g = job /\ g = row.gen /\ g # 0 /\ row.status # "completed"
      /\ \A h \in Gen \ {g} : op[h] \notin Early
      /\ \A c \in Callers : pc[c] # "claimed"
      /\ \A c \in Callers : pc[c] = "ready" => pin[c] # g
  BY ChildAlone DEF Take, Early
<1>2. TypeOK'
  BY DEF Take, Goto, SubagentsInv, TypeOK, Executing, Settling, callVars, lifeVars, Gen
<1>3. /\ \A h \in Gen : op'[h] = IF h = g THEN "taken" ELSE op[h]
      /\ op[g] = "queued" /\ ~token[g] /\ reg' = g /\ sched' = "running"
      /\ UNCHANGED <<row, job, settled, token, hit, callVars, lifeVars>>
      /\ "taken" \in Executing /\ "taken" \in Early /\ "taken" \notin Ended /\ "taken" \in Live
      /\ "queued" \notin Executing /\ "queued" \in Live /\ "taken" # NONE /\ "queued" # NONE
  BY DEF SubagentsInv, TypeOK, Take, Goto, Live, Early, Executing, Ended, NONE
<1>4. OperationsSound'
  <2> SUFFICES ASSUME NEW h \in Gen
               PROVE  /\ op'[h] # NONE => h <= job
                      /\ op'[h] \in Early => h = row.gen /\ row.status # "completed"
                      /\ op'[h] = "completing" /\ h = row.gen => row.status \in Terminal
                      /\ op'[h] \in Executing => h = row.gen \/ Overtaken(h)
                      /\ token[h] \/ settled[h] => op'[h] # NONE
                      /\ settled[h] => op'[h] \in {"queued", "dropped", "drained"}
                      /\ settled[h] /\ op'[h] = "queued" => token[h]
    BY <1>3 DEF SubagentsInv, OperationsSound, Overtaken, callVars
  <2>1. /\ op[h] # NONE => h <= job
        /\ op[h] \in Early => h = row.gen /\ row.status # "completed"
        /\ op[h] = "completing" /\ h = row.gen => row.status \in Terminal
        /\ op[h] \in Executing => h = row.gen \/ Overtaken(h)
        /\ token[h] \/ settled[h] => op[h] # NONE
        /\ settled[h] => op[h] \in {"queued", "dropped", "drained"}
        /\ settled[h] /\ op[h] = "queued" => token[h]
    BY DEF SubagentsInv, OperationsSound
  <2> QED BY <1>1, <1>3, <2>1
<1>5. ScheduleSound'
  BY <1>1, <1>3 DEF SubagentsInv, ScheduleSound
<1>6. LockHeld'
  BY <1>3 DEF SubagentsInv, LockHeld, callVars
<1>7. FollowSound'
  <2> SUFFICES ASSUME NEW c \in Callers, pc[c] \in {"waiting", "ready"}, pin[c] # 0
               PROVE  /\ op'[pin[c]] # "queued"
                      /\ pc[c] = "ready" \/ borrowed[c] = 0 => op'[pin[c]] \notin Live
    BY <1>3 DEF SubagentsInv, FollowSound, callVars
  <2>1. pin[c] \in Gen
    BY SubagentsAssumption DEF SubagentsInv, TypeOK, Gen
  <2> QED BY <1>1, <1>3, <2>1 DEF SubagentsInv, FollowSound
<1>8. NoOrphanRow'
  BY <1>1, <1>3 DEF NoOrphanRow
<1> QED BY <1>2, <1>4, <1>5, <1>6, <1>7, <1>8 DEF SubagentsInv

-----------------------------------------------------------------------------
(* The requests *)

\* What changes only the progress of a caller outside the lock.
LEMMA ChildCallerMoves ==
    ASSUME SubagentsInv, NEW c \in Callers, NEW next \in {"waiting", "ready", "done"},
           pc[c] \notin {"claimed", "submitted"}, claimed[c] = 0, pc' = [pc EXCEPT ![c] = next],
           row.gen # 0, pin' \in [Callers -> 0..MaxGen], borrowed' \in [Callers -> 0..MaxGen],
           \A d \in Callers \ {c} : pin'[d] = pin[d] /\ borrowed'[d] = borrowed[d],
           next # "done" /\ pin'[c] # 0 =>
                /\ pin'[c] <= row.gen /\ borrowed'[c] \in {0, pin'[c]}
                /\ \A d \in Callers : pc[d] = "claimed" => pin'[c] < row.gen
                /\ op[pin'[c]] # "queued"
                /\ next = "ready" \/ borrowed'[c] = 0 => op[pin'[c]] \notin Live,
           UNCHANGED <<row, schedVars, op, lock, claimed, lifeVars>>
    PROVE  SubagentsInv'
<1>1. TypeOK'
  BY DEF SubagentsInv, TypeOK, schedVars, lifeVars
<1>2. \A d \in Callers : pc'[d] = IF d = c THEN next ELSE pc[d]
  BY DEF SubagentsInv, TypeOK
<1>3. \A g \in Gen : Overtaken(g) => Overtaken(g)'
  <2> SUFFICES ASSUME NEW g \in Gen, NEW d \in Callers, pin[d] = 0, claimed[d] = g + 1
               PROVE  pin'[d] = 0
    BY DEF Overtaken
  <2>1. d # c
    BY SubagentsAssumption DEF Gen
  <2> QED BY <2>1
<1>4. OperationsSound'
  BY <1>3 DEF SubagentsInv, OperationsSound, schedVars
<1>5. ScheduleSound'
  BY DEF SubagentsInv, ScheduleSound, schedVars
<1>6. LockHeld'
  BY <1>2 DEF SubagentsInv, LockHeld, schedVars
<1>7. FollowSound'
  <2> SUFFICES ASSUME NEW d \in Callers, pc'[d] \in {"waiting", "ready"}, pin'[d] # 0
               PROVE  /\ pin'[d] <= row.gen
                      /\ \A e \in Callers : pc'[e] = "claimed" => pin'[d] < row.gen
                      /\ borrowed'[d] \in {0, pin'[d]}
                      /\ op[pin'[d]] # "queued"
                      /\ pc'[d] = "ready" \/ borrowed'[d] = 0 => op[pin'[d]] \notin Live
    BY DEF FollowSound
  <2>1. CASE d = c
    BY <1>2, <2>1
  <2>2. CASE d # c
    BY <1>2, <2>2 DEF SubagentsInv, FollowSound
  <2> QED BY <2>1, <2>2
<1>8. NoOrphanRow'
  BY <1>2 DEF SubagentsInv, NoOrphanRow, schedVars, lifeVars
<1> QED BY <1>1, <1>4, <1>5, <1>6, <1>7, <1>8 DEF SubagentsInv

LEMMA ChildFollowStep ==
    ASSUME SubagentsInv, NEW c \in Callers, FollowRead(c) \/ FollowWait(c) \/ FollowCancelled(c)
    PROVE  SubagentsInv'
<1>0. /\ pc[c] \notin {"claimed", "submitted"} /\ claimed[c] = 0
      /\ pin \in [Callers -> 0..MaxGen] /\ borrowed \in [Callers -> 0..MaxGen]
  BY DEF FollowRead, FollowWait, FollowCancelled, SubagentsInv, LockHeld, TypeOK
<1>1. CASE FollowRead(c)
  <2>1. PICK p \in Gen \cup {0} :
          /\ pin' = [pin EXCEPT ![c] = p]
          /\ \/ CallGoto(c, "done") /\ UNCHANGED borrowed
             \/ /\ p # 0 => row.gen = p /\ row.status = "completed"
                /\ CallGoto(c, "waiting") /\ borrowed' = [borrowed EXCEPT ![c] = job]
    BY <1>1 DEF FollowRead, Borrow
  <2>2. /\ pc[c] = "idle" /\ row.gen # 0 /\ p \in 0..MaxGen
        /\ UNCHANGED <<row, schedVars, op, lock, claimed, lifeVars>>
        /\ \A d \in Callers : pc[d] # "claimed"
    BY <1>1, SubagentsAssumption DEF FollowRead, SubagentsInv, LockHeld, Gen, NONE
  <2>3. /\ pin' \in [Callers -> 0..MaxGen] /\ pin'[c] = p
        /\ \A d \in Callers \ {c} : pin'[d] = pin[d]
    BY <1>0, <2>1, <2>2
  <2>4. CASE CallGoto(c, "done") /\ UNCHANGED borrowed
    BY <1>0, <2>2, <2>3, <2>4, ChildCallerMoves DEF CallGoto
  <2>5. CASE /\ p # 0 => row.gen = p /\ row.status = "completed"
             /\ CallGoto(c, "waiting") /\ borrowed' = [borrowed EXCEPT ![c] = job]
    <3>1. /\ borrowed' \in [Callers -> 0..MaxGen] /\ borrowed'[c] = job
          /\ \A d \in Callers \ {c} : borrowed'[d] = borrowed[d]
      BY <2>5 DEF SubagentsInv, TypeOK
    <3>2. ASSUME p # 0
          PROVE  p <= row.gen /\ job \in {0, p} /\ op[p] # "queued" /\ (job = 0
              => op[p] \notin Live)
      <4>1. p \in Gen /\ row.gen = p /\ row.status = "completed" /\ p <= row.gen
        BY <2>5, <3>2, SubagentsAssumption DEF SubagentsInv, TypeOK, Gen
      <4>2. op[p] # "queued"
        BY <4>1 DEF SubagentsInv, OperationsSound, Early
      <4>3. job = 0 => op[p] = NONE
        BY <4>1 DEF SubagentsInv, OperationsSound, Gen
      <4>4. NONE \notin Live
        BY DEF Live, Executing, Ended, NONE
      <4> QED BY <4>1, <4>2, <4>3, <4>4 DEF SubagentsInv, ScheduleSound
    <3>3. pc' = [pc EXCEPT ![c] = "waiting"]
      BY <2>5 DEF CallGoto
    <3> QED BY <1>0, <2>2, <2>3, <3>1, <3>2, <3>3, ChildCallerMoves
  <2> QED BY <2>1, <2>4, <2>5
<1>2. CASE FollowWait(c)
  <2>1. ASSUME pin[c] # 0
        PROVE  /\ pin[c] <= row.gen /\ borrowed[c] \in {0, pin[c]}
               /\ \A d \in Callers : pc[d] = "claimed" => pin[c] < row.gen
               /\ op[pin[c]] # "queued" /\ op[pin[c]] \notin Live
    <3>1. /\ pin[c] <= row.gen /\ borrowed[c] \in {0, pin[c]}
          /\ \A d \in Callers : pc[d] = "claimed" => pin[c] < row.gen
          /\ op[pin[c]] # "queued"
          /\ borrowed[c] = 0 => op[pin[c]] \notin Live
      BY <1>2, <2>1 DEF FollowWait, SubagentsInv, FollowSound
    <3>2. CASE borrowed[c] = 0
      BY <3>1, <3>2
    <3>3. CASE borrowed[c] # 0
      <4>1. settled[pin[c]]
        BY <1>2, <3>1, <3>3 DEF FollowWait
      <4>2. pin[c] \in Gen
        BY <1>0, <2>1, SubagentsAssumption DEF Gen
      <4>3. op[pin[c]] \in {"dropped", "drained"}
        BY <3>1, <4>1, <4>2 DEF SubagentsInv, OperationsSound
      <4>4. op[pin[c]] \notin Live
        BY <4>3 DEF Live, Executing, Ended
      <4> QED BY <3>1, <4>4
    <3> QED BY <3>2, <3>3
  <2>2. row.gen # 0
    BY <1>2 DEF FollowWait, SubagentsInv, LockHeld
  <2> QED BY <1>0, <1>2, <2>1, <2>2, ChildCallerMoves DEF FollowWait, CallGoto
<1>3. CASE FollowCancelled(c)
  <2>1. row.gen # 0
    BY <1>3 DEF FollowCancelled, SubagentsInv, LockHeld
  <2> QED BY <1>0, <1>3, <2>1, ChildCallerMoves DEF FollowCancelled, CallGoto
<1> QED BY <1>1, <1>2, <1>3

\* The next generation is claimed, or claimed and finished at once.
LEMMA ChildClaimed ==
    ASSUME SubagentsInv, NEW c \in Callers, NEW s \in {"queued", "cancelled"},
           row.gen < MaxGen, row' = [status |-> s, gen |-> row.gen + 1],
           \A g \in Gen : op[g] \notin Early,
           pin[c] = 0 \/ row.gen = 0 \/ op[row.gen] \notin Executing,
           lock = NONE, pc[c] \in {"idle", "ready"},
           claimed' = [claimed EXCEPT ![c] = row.gen + 1],
           s = "queued" => pc' = [pc EXCEPT ![c] = "claimed"] /\ lock' = c,
           s = "cancelled" => pc' = [pc EXCEPT ![c] = "done"] /\ UNCHANGED lock,
           UNCHANGED <<schedVars, op, pin, borrowed, lifeVars>>
    PROVE  SubagentsInv'
<1>1. row.gen + 1 \in 0..MaxGen /\ row.gen \in Nat /\ job \in Nat /\ job <= row.gen
  BY SubagentsAssumption DEF SubagentsInv, TypeOK, OperationsSound
<1>2. TypeOK'
  BY <1>1 DEF SubagentsInv, TypeOK, schedVars, lifeVars, Settling, Terminal
<1>3. /\ row'.gen = row.gen + 1 /\ row'.status = s
      /\ \A d \in Callers : /\ pc'[d] = IF d = c THEN IF s = "queued" THEN "claimed" ELSE "done"
                                       ELSE pc[d]
                            /\ claimed'[d] = IF d = c THEN row.gen + 1 ELSE claimed[d]
  BY DEF SubagentsInv, TypeOK
<1>4. claimed[c] = 0 /\ \A d \in Callers : pc[d] \notin {"claimed", "submitted"}
  BY SubagentsAssumption DEF SubagentsInv, LockHeld, NONE
<1>5. OperationsSound'
  <2> SUFFICES ASSUME NEW g \in Gen
               PROVE  /\ op[g] = "completing" /\ g = row'.gen => row'.status \in Terminal
                      /\ op[g] \in Executing => g = row'.gen \/ Overtaken(g)'
    BY <1>1, <1>3 DEF SubagentsInv, OperationsSound, schedVars
  <2>1. op[g] \in Executing => g <= row.gen
    <3>1. op[g] \in Executing => op[g] # NONE
      BY DEF Executing, Ended, NONE
    <3> QED BY <1>1, <3>1 DEF SubagentsInv, OperationsSound, Gen
  <2>2. "completing" \in Executing
    BY DEF Executing
  <2>3. ASSUME op[g] \in Executing PROVE Overtaken(g)'
    <3>1. CASE Overtaken(g)
      <4>1. PICK d \in Callers : pin[d] = 0 /\ claimed[d] = g + 1
        BY <3>1 DEF Overtaken
      <4>2. d # c
        BY <1>4, <4>1 DEF Gen
      <4> QED BY <1>3, <4>1, <4>2 DEF Overtaken
    <3>2. CASE g = row.gen
      <4>1. pin[c] = 0
        BY <2>3, <3>2 DEF Gen
      <4> QED BY <1>3, <3>2, <4>1 DEF Overtaken
    <3> QED BY <2>3, <3>1, <3>2 DEF SubagentsInv, OperationsSound
  <2> QED BY <1>1, <1>3, <2>1, <2>2, <2>3 DEF Gen
<1>6. ScheduleSound'
  BY <1>3 DEF SubagentsInv, ScheduleSound, schedVars
<1>7. LockHeld'
  <2> SUFFICES ASSUME NEW d \in Callers
               PROVE  /\ pc'[d] \in {"claimed", "submitted"} <=> lock' = d
                      /\ pc'[d] = "claimed" => /\ claimed'[d] = row'.gen /\ job < row'.gen
                                               /\ row'.status # "completed"
                      /\ pc'[d] # "idle" => row'.gen # 0
                      /\ pc'[d] \in {"idle", "waiting", "ready"} => claimed'[d] = 0
    BY DEF LockHeld, schedVars
  <2>1. pc[d] \in {"idle", "waiting", "ready"} => claimed[d] = 0
    BY DEF SubagentsInv, LockHeld
  <2>2. lock' = IF s = "queued" THEN c ELSE NONE
    OBVIOUS
  <2> QED BY <1>1, <1>3, <1>4, <2>1, <2>2, SubagentsAssumption DEF NONE
<1>8. FollowSound'
  <2> SUFFICES ASSUME NEW d \in Callers, pc'[d] \in {"waiting", "ready"}, pin[d] # 0
               PROVE  /\ pin[d] < row'.gen
                      /\ borrowed[d] \in {0, pin[d]}
                      /\ op[pin[d]] # "queued"
                      /\ pc'[d] = "ready" \/ borrowed[d] = 0 => op[pin[d]] \notin Live
    <3> QED BY <1>1, <1>3 DEF FollowSound, SubagentsInv, TypeOK
  <2>1. /\ pc'[d] = pc[d] /\ pin[d] <= row.gen /\ borrowed[d] \in {0, pin[d]}
        /\ op[pin[d]] # "queued"
        /\ pc[d] = "ready" \/ borrowed[d] = 0 => op[pin[d]] \notin Live
    BY <1>3 DEF SubagentsInv, FollowSound
  <2>2. pin[d] \in Nat
    BY SubagentsAssumption DEF SubagentsInv, TypeOK
  <2> QED BY <1>1, <1>3, <2>1, <2>2
<1>9. NoOrphanRow'
  BY <1>3 DEF NoOrphanRow, Settling
<1> QED BY <1>2, <1>5, <1>6, <1>7, <1>8, <1>9 DEF SubagentsInv

LEMMA ChildClaimStep == ASSUME SubagentsInv, NEW c \in Callers, Spawn(c) \/ FollowClaim(c)
                               PROVE SubagentsInv'
<1>1. CASE Spawn(c)
  <2>1. row.gen = 0 /\ row.gen < MaxGen /\ row.gen + 1 = 1 /\ pc[c] = "idle"
    BY <1>1, SubagentsAssumption DEF Spawn
  <2>2. \A g \in Gen : op[g] \notin Early
    BY <2>1 DEF SubagentsInv, OperationsSound, Gen
  <2>3. lock = NONE
    BY <2>1 DEF SubagentsInv, TypeOK, LockHeld
  <2>4. /\ claimed' = [claimed EXCEPT ![c] = row.gen + 1]
        /\ \/ /\ row' = [status |-> "queued", gen |-> row.gen + 1]
              /\ pc' = [pc EXCEPT ![c] = "claimed"] /\ lock' = c
           \/ /\ row' = [status |-> "cancelled", gen |-> row.gen + 1]
              /\ pc' = [pc EXCEPT ![c] = "done"] /\ UNCHANGED lock
    BY <1>1, <2>1 DEF Spawn, CallGoto
  <2>5. UNCHANGED <<schedVars, op, pin, borrowed, lifeVars>>
    BY <1>1 DEF Spawn
  <2> QED BY <2>1, <2>2, <2>3, <2>4, <2>5, ChildClaimed
<1>2. CASE FollowClaim(c) /\ Claimable(c)
  <2>1. /\ row.gen < MaxGen /\ pc[c] = "ready" /\ lock = NONE /\ row.status = "completed"
        /\ (pin[c] # 0 => row.gen = pin[c])
    BY <1>2 DEF FollowClaim, Claimable
  <2>2. pin[c] = 0 \/ op[row.gen] \notin Executing
    BY <2>1 DEF SubagentsInv, FollowSound, Live
  <2>3. \A g \in Gen : op[g] \notin Early
    BY <2>1 DEF SubagentsInv, OperationsSound
  <2>4. /\ claimed' = [claimed EXCEPT ![c] = row.gen + 1]
        /\ \/ /\ row' = [status |-> "queued", gen |-> row.gen + 1]
              /\ pc' = [pc EXCEPT ![c] = "claimed"] /\ lock' = c
           \/ /\ row' = [status |-> "cancelled", gen |-> row.gen + 1]
              /\ pc' = [pc EXCEPT ![c] = "done"] /\ UNCHANGED lock
    BY <1>2 DEF FollowClaim, CallGoto
  <2>5. UNCHANGED <<schedVars, op, pin, borrowed, lifeVars>>
    BY <1>2 DEF FollowClaim
  <2> QED BY <2>1, <2>2, <2>3, <2>4, <2>5, ChildClaimed
<1>3. CASE FollowClaim(c) /\ ~Claimable(c)
  <2>1. /\ pc[c] = "ready" /\ pc' = [pc EXCEPT ![c] = "done"]
        /\ UNCHANGED <<row, schedVars, op, lock, pin, borrowed, claimed, lifeVars>>
    BY <1>3 DEF FollowClaim, CallGoto
  <2>2. /\ row.gen # 0 /\ claimed[c] = 0
        /\ pin \in [Callers -> 0..MaxGen] /\ borrowed \in [Callers -> 0..MaxGen]
    BY <2>1 DEF SubagentsInv, LockHeld, TypeOK
  <2> QED BY <2>1, <2>2, ChildCallerMoves
<1> QED BY <1>1, <1>2, <1>3

LEMMA ChildSubmitStep == ASSUME SubagentsInv, NEW c \in Callers, Submit(c) PROVE SubagentsInv'
<1> DEFINE g == claimed[c]
<1>1. /\ pc[c] = "claimed" /\ lock = c /\ g = row.gen /\ job < row.gen /\ row.status # "completed"
      /\ \A d \in Callers \ {c} : pc[d] \notin {"claimed", "submitted"}
  BY DEF Submit, SubagentsInv, LockHeld
<1>2. g \in Gen /\ g \in 0..MaxGen /\ job \in Nat /\ g # 0 /\ row.gen \in Nat
  BY <1>1, SubagentsAssumption DEF SubagentsInv, TypeOK, Gen
<1>3. op[g] = NONE /\ \A h \in Gen : op[h] \notin Early
  <2>1. \A h \in Gen : op[h] # NONE => h <= job
    BY DEF SubagentsInv, OperationsSound
  <2>2. \A h \in Gen : op[h] \in Early => op[h] # NONE /\ h = row.gen
    BY DEF SubagentsInv, OperationsSound, Early, NONE
  <2> QED BY <1>1, <1>2, <2>1, <2>2 DEF Gen
<1>4. /\ job' = g /\ sched' = "queued" /\ op' = [op EXCEPT ![g] = "queued"]
      /\ pc' = [pc EXCEPT ![c] = "submitted"]
      /\ UNCHANGED <<row, reg, settled, token, hit, lock, pin, borrowed, claimed, lifeVars>>
  BY DEF Submit, CallGoto
<1>5. TypeOK'
  BY <1>2, <1>4 DEF SubagentsInv, TypeOK, lifeVars, Settling
<1>6. /\ \A h \in Gen : op'[h] = IF h = g THEN "queued" ELSE op[h]
      /\ \A d \in Callers : pc'[d] = IF d = c THEN "submitted" ELSE pc[d]
      /\ "queued" # NONE /\ "queued" \notin Executing /\ "queued" \in Live
  BY <1>4 DEF SubagentsInv, TypeOK, NONE, Live, Executing, Ended
<1>7. OperationsSound'
  <2> SUFFICES ASSUME NEW h \in Gen
               PROVE  /\ op'[h] # NONE => h <= g
                      /\ op'[h] \in Early => h = row.gen /\ row.status # "completed"
                      /\ op'[h] = "completing" /\ h = row.gen => row.status \in Terminal
                      /\ op'[h] \in Executing => h = row.gen \/ Overtaken(h)
                      /\ token[h] \/ settled[h] => op'[h] # NONE
                      /\ settled[h] => op'[h] \in {"queued", "dropped", "drained"}
                      /\ settled[h] /\ op'[h] = "queued" => token[h]
    BY <1>1, <1>2, <1>4 DEF OperationsSound, Overtaken
  <2>1. /\ op[h] # NONE => h <= job
        /\ op[h] = "completing" /\ h = row.gen => row.status \in Terminal
        /\ op[h] \in Executing => h = row.gen \/ Overtaken(h)
        /\ token[h] \/ settled[h] => op[h] # NONE
        /\ settled[h] => op[h] \in {"queued", "dropped", "drained"}
        /\ settled[h] /\ op[h] = "queued" => token[h]
    BY DEF SubagentsInv, OperationsSound
  <2>2. h \in Nat
    BY DEF Gen
  <2> QED BY <1>1, <1>2, <1>3, <1>6, <2>1, <2>2
<1>8. ScheduleSound'
  BY <1>1, <1>2, <1>4, <1>6 DEF ScheduleSound
<1>9. LockHeld'
  BY <1>1, <1>4, <1>6 DEF SubagentsInv, LockHeld
<1>10. FollowSound'
  <2> SUFFICES ASSUME NEW d \in Callers, pc'[d] \in {"waiting", "ready"}, pin[d] # 0
               PROVE  /\ pin[d] <= row.gen
                      /\ \A e \in Callers : pc'[e] = "claimed" => pin[d] < row.gen
                      /\ borrowed[d] \in {0, pin[d]}
                      /\ op'[pin[d]] # "queued"
                      /\ pc'[d] = "ready" \/ borrowed[d] = 0 => op'[pin[d]] \notin Live
    BY <1>4 DEF FollowSound
  <2>1. pc[d] = pc'[d] /\ pin[d] < row.gen /\ pin[d] \in Gen
    BY <1>1, <1>6, SubagentsAssumption DEF SubagentsInv, FollowSound, TypeOK, Gen
  <2>2. pin[d] # g
    BY <1>1, <1>2, <2>1 DEF Gen
  <2> QED BY <1>1, <1>6, <2>1, <2>2 DEF SubagentsInv, FollowSound
<1>11. NoOrphanRow'
  <2>1. ~token[g]
    BY <1>2, <1>3 DEF SubagentsInv, OperationsSound
  <2> QED BY <1>1, <1>2, <1>4, <1>6, <2>1 DEF NoOrphanRow
<1> QED BY <1>5, <1>7, <1>8, <1>9, <1>10, <1>11 DEF SubagentsInv

LEMMA ChildRefuseStep == ASSUME SubagentsInv, NEW c \in Callers, Reject(c) \/ Announce(c)
                                PROVE SubagentsInv'
<1>1. /\ pc[c] \in {"claimed", "submitted"} /\ lock = c
      /\ \A d \in Callers \ {c} : pc[d] \notin {"claimed", "submitted"}
      /\ lock' = NONE /\ pc' = [pc EXCEPT ![c] = "done"] /\ NONE \notin Callers
      /\ UNCHANGED <<schedVars, op, pin, borrowed, claimed, lifeVars>>
  BY SubagentsAssumption DEF Reject, Announce, Leave, CallGoto, SubagentsInv, LockHeld, NONE
<1>2. \/ row' = row /\ pc[c] = "submitted"
      \/ row' = Written("failed") /\ pc[c] = "claimed"
  BY DEF Reject, Announce
<1>3. /\ row'.gen = row.gen /\ (row' = row \/ row'.status = "failed")
      /\ row' \in [status : Settling \cup Terminal \cup {NONE}, gen : 0..MaxGen]
  BY <1>2, ChildRowWritten DEF Terminal, SubagentsInv, TypeOK
<1>4. \A d \in Callers : pc'[d] = IF d = c THEN "done" ELSE pc[d]
  BY <1>1 DEF SubagentsInv, TypeOK
<1>5. TypeOK'
  BY <1>1, <1>3 DEF SubagentsInv, TypeOK, schedVars, lifeVars
<1>6. OperationsSound'
  BY <1>1, <1>3 DEF SubagentsInv, OperationsSound, Overtaken, schedVars, Terminal
<1>7. ScheduleSound'
  BY <1>1, <1>3 DEF SubagentsInv, ScheduleSound, schedVars
<1>8. LockHeld'
  BY <1>1, <1>3, <1>4 DEF SubagentsInv, LockHeld, schedVars
<1>9. FollowSound'
  BY <1>1, <1>3, <1>4 DEF SubagentsInv, FollowSound
<1>10. NoOrphanRow'
  <2>1. "failed" \notin Settling
    BY DEF Settling
  <2> SUFFICES ASSUME row'.status \in Settling, open
               PROVE  \/ \E d \in Callers : pc'[d] = "claimed" /\ claimed[d] = row.gen
                      \/ op[row.gen] = "queued" /\ ~token[row.gen]
                      \/ op[row.gen] \in Executing \ Ended
    BY <1>1, <1>3 DEF NoOrphanRow, schedVars, lifeVars
  <2>2. row' = row /\ pc[c] = "submitted"
    BY <1>2, <1>3, <2>1, ChildRowWritten DEF SubagentsInv, Terminal
  <2>3. \A d \in Callers : pc[d] = "claimed" => pc'[d] = "claimed"
    BY <1>4, <2>2
  <2> QED BY <2>2, <2>3 DEF SubagentsInv, NoOrphanRow
<1> QED BY <1>5, <1>6, <1>7, <1>8, <1>9, <1>10 DEF SubagentsInv

-----------------------------------------------------------------------------
(* Cancellation, close and restart *)

\* The token of what the scheduler still has is set, and the row follows if the
\* job was only queued.
LEMMA ChildCancelKeeps ==
    ASSUME SubagentsInv, ScheduledCancel, UNCHANGED <<op, pin, borrowed, claimed, lifeVars>>,
           \/ lock = NONE /\ UNCHANGED <<pc, lock>>
           \/ \E c \in Callers : pc[c] = "submitted" /\ Leave(c)
    PROVE  SubagentsInv'
<1>1. /\ pc' \in [Callers -> {"idle", "waiting", "ready", "claimed", "submitted", "done"}]
      /\ lock' \in Callers \cup {NONE}
      /\ \A d \in Callers : /\ pc'[d] \in {"claimed", "submitted"} <=> lock' = d
                            /\ pc[d] # "claimed" /\ pc'[d] # "claimed"
                            /\ pc'[d] \in {"idle", "waiting", "ready"} => pc'[d] = pc[d]
                            /\ pc'[d] # "idle" => pc[d] # "idle"
  BY SubagentsAssumption DEF SubagentsInv, TypeOK, LockHeld, Leave, CallGoto, NONE
<1>2. CASE sched \notin Settling
  <2>1. UNCHANGED <<row, schedVars>>
    BY <1>2 DEF ScheduledCancel
  <2>2. TypeOK'
    BY <1>1, <2>1 DEF SubagentsInv, TypeOK, schedVars, lifeVars
  <2>3. OperationsSound' /\ ScheduleSound'
    BY <2>1 DEF SubagentsInv, OperationsSound, Overtaken, ScheduleSound, schedVars
  <2>4. LockHeld'
    BY <1>1, <2>1 DEF SubagentsInv, LockHeld, schedVars
  <2>5. FollowSound'
    BY <1>1, <2>1 DEF SubagentsInv, FollowSound
  <2>6. NoOrphanRow'
    BY <1>1, <2>1 DEF SubagentsInv, NoOrphanRow, schedVars, lifeVars
  <2> QED BY <2>2, <2>3, <2>4, <2>5, <2>6 DEF SubagentsInv
<1>3. CASE sched \in Settling
  <2>1. /\ token' = [token EXCEPT ![job] = TRUE]
        /\ \/ settled' = settled
           \/ reg = 0 /\ settled' = [settled EXCEPT ![job] = TRUE]
        /\ hit' = hit \/ hit' = [hit EXCEPT ![reg] = TRUE]
        /\ row' = IF sched = "queued" THEN Written("cancelled") ELSE row
        /\ sched' = "cancelled" /\ job' = job /\ reg' = reg
    BY <1>3 DEF ScheduledCancel
  <2>2. /\ row'.gen = row.gen
        /\ row' \in [status : Settling \cup Terminal \cup {NONE}, gen : 0..MaxGen]
        /\ sched = "queued" => row'.status = "cancelled"
        /\ sched # "queued" => row' = row
    BY <2>1, ChildRowWritten DEF SubagentsInv, TypeOK, Terminal
  <2>3. /\ job \in Gen /\ op[job] # NONE
        /\ sched = "queued" \/ reg = 0 => op[job] = "queued"
        /\ sched = "running" => op[job] \in Executing
    BY <1>3, SubagentsAssumption DEF SubagentsInv, TypeOK, ScheduleSound, Settling, Gen,
       Executing, Ended, NONE
  <2>4. /\ \A g \in Gen : token'[g] = (g = job \/ token[g])
        /\ \A g \in Gen : settled'[g] => settled[g] \/ (g = job /\ op[g] = "queued")
    <3>1. token \in [Gen -> BOOLEAN] /\ settled \in [Gen -> BOOLEAN]
      BY DEF SubagentsInv, TypeOK
    <3>2. \A g \in Gen : token'[g] = (g = job \/ token[g])
      BY <2>1, <2>3, <3>1
    <3>3. ASSUME NEW g \in Gen, settled'[g] PROVE settled[g] \/ (g = job /\ op[g] = "queued")
      <4>1. CASE settled' = settled
        BY <3>3, <4>1
      <4>2. CASE reg = 0 /\ settled' = [settled EXCEPT ![job] = TRUE]
        <5>1. g # job => settled'[g] = settled[g]
          BY <3>1, <4>2
        <5> QED BY <2>3, <3>3, <4>2, <5>1
      <4> QED BY <2>1, <4>1, <4>2
    <3> QED BY <3>2, <3>3
  <2>5. TypeOK'
    <3>1. /\ token' \in [Gen -> BOOLEAN] /\ settled' \in [Gen -> BOOLEAN]
             /\ hit' \in [Gen -> BOOLEAN]
          /\ sched' \in Terminal
      BY <2>1 DEF SubagentsInv, TypeOK, Terminal
    <3> QED BY <1>1, <2>1, <2>2, <3>1 DEF SubagentsInv, TypeOK, lifeVars
  <2>6. OperationsSound'
    <3> SUFFICES ASSUME NEW g \in Gen
                 PROVE  /\ op[g] \in Early => g = row'.gen /\ row'.status # "completed"
                        /\ op[g] = "completing" /\ g = row'.gen => row'.status \in Terminal
                        /\ op[g] \in Executing => g = row'.gen \/ Overtaken(g)
                        /\ token'[g] \/ settled'[g] => op[g] # NONE
                        /\ settled'[g] => op[g] \in {"queued", "dropped", "drained"}
                        /\ settled'[g] /\ op[g] = "queued" => token'[g]
      BY <2>1, <2>2 DEF SubagentsInv, OperationsSound, Overtaken
    <3>1. "cancelled" \in Terminal
      BY DEF Terminal
    <3> QED BY <2>2, <2>3, <2>4, <3>1 DEF SubagentsInv, OperationsSound
  <2>7. ScheduleSound'
    BY <2>1, <2>2 DEF SubagentsInv, ScheduleSound
  <2>8. LockHeld'
    BY <1>1, <2>2 DEF SubagentsInv, LockHeld
  <2>9. FollowSound'
    BY <1>1, <2>2 DEF SubagentsInv, FollowSound
  <2>10. NoOrphanRow'
    <3> SUFFICES ASSUME row'.status \in Settling, open
                 PROVE  op[row.gen] \in Executing \ Ended
      BY <2>2 DEF NoOrphanRow, lifeVars
    <3>1. row' = row /\ sched = "running"
      BY <1>3, <2>2 DEF Settling
    <3>2. op[row.gen] # "queued"
      <4>1. SUFFICES ASSUME op[row.gen] = "queued" PROVE FALSE
        OBVIOUS
      <4>2. row.gen \in 0..MaxGen /\ job <= row.gen /\ job \in Gen
        BY <2>3 DEF SubagentsInv, TypeOK, OperationsSound
      <4>3. row.gen \in Gen
        BY <4>2, SubagentsAssumption DEF Gen
      <4>4. row.gen <= job
        BY <4>1, <4>3 DEF SubagentsInv, OperationsSound, NONE
      <4>5. row.gen = job
        BY <4>2, <4>3, <4>4 DEF Gen
      <4> QED BY <2>3, <3>1, <4>1, <4>5 DEF Executing, Ended
    <3> QED BY <1>1, <3>1, <3>2 DEF SubagentsInv, NoOrphanRow
  <2> QED BY <2>5, <2>6, <2>7, <2>8, <2>9, <2>10 DEF SubagentsInv
<1> QED BY <1>2, <1>3

LEMMA ChildCloseStep == ASSUME SubagentsInv, Close PROVE SubagentsInv'
<1>1. /\ row' = row /\ job' = job /\ reg' = reg /\ op' = op /\ open' = FALSE
      /\ UNCHANGED <<callVars, restarts>>
      /\ \A g \in Gen : /\ token'[g] = (token[g] \/ (g = job /\ (sched = "queued" \/ reg # 0)))
                        /\ settled'[g] = (settled[g] \/ (g = job /\ sched = "queued"))
      /\ sched' = IF sched = "queued" THEN "cancelled" ELSE sched
  BY DEF Close
<1>2. TypeOK'
  <2>1. /\ token' \in [Gen -> BOOLEAN] /\ settled' \in [Gen -> BOOLEAN] /\ hit' \in [Gen -> BOOLEAN]
    BY DEF Close, SubagentsInv, TypeOK
  <2>2. sched' \in Settling \cup Terminal \cup {NONE}
    BY <1>1 DEF SubagentsInv, TypeOK, Terminal
  <2> QED BY <1>1, <2>1, <2>2 DEF SubagentsInv, TypeOK, callVars
<1>3. OperationsSound'
  <2> SUFFICES ASSUME NEW g \in Gen
               PROVE  /\ token'[g] \/ settled'[g] => op[g] # NONE
                      /\ settled'[g] => op[g] \in {"queued", "dropped", "drained"}
                      /\ settled'[g] /\ op[g] = "queued" => token'[g]
    BY <1>1 DEF SubagentsInv, OperationsSound, Overtaken, callVars
  <2>1. sched = "queued" => op[job] = "queued"
    BY DEF SubagentsInv, ScheduleSound
  <2>2. reg # 0 /\ g = job => op[job] # NONE
    BY SubagentsAssumption DEF SubagentsInv, ScheduleSound, Gen
  <2>3. "queued" # NONE
    BY DEF NONE
  <2> QED BY <1>1, <2>1, <2>2, <2>3 DEF SubagentsInv, OperationsSound
<1>4. ScheduleSound'
  BY <1>1 DEF SubagentsInv, ScheduleSound
<1>5. LockHeld' /\ FollowSound'
  BY <1>1 DEF SubagentsInv, LockHeld, FollowSound, callVars
<1>6. NoOrphanRow'
  BY <1>1 DEF NoOrphanRow
<1> QED BY <1>2, <1>3, <1>4, <1>5, <1>6 DEF SubagentsInv

LEMMA ChildRestartStep == ASSUME SubagentsInv, Restart PROVE SubagentsInv'
<1>1. /\ row' \in [status : Settling \cup Terminal \cup {NONE}, gen : 0..MaxGen]
      /\ row'.gen = row.gen /\ row'.status \notin Settling
  <2>1. CASE row.status \in Settling
    <3>1. row' = Written("failed")
      BY <2>1 DEF Restart, FailIncomplete
    <3> QED BY <3>1, ChildRowWritten DEF SubagentsInv, Terminal, Settling
  <2>2. CASE row.status \notin Settling
    BY <2>2 DEF Restart, FailIncomplete, SubagentsInv, TypeOK
  <2> QED BY <2>1, <2>2
<1>2. TypeOK'
  <2>1. pc' \in [Callers -> {"idle", "waiting", "ready", "claimed", "submitted", "done"}]
    BY DEF Restart
  <2>2. restarts' \in 0..MaxRestarts
    BY SubagentsAssumption DEF Restart, SubagentsInv, TypeOK
  <2> QED BY <1>1, <2>1, <2>2, SubagentsAssumption DEF Restart, SubagentsInv, TypeOK
<1>3. /\ NONE \notin Early /\ NONE \notin Executing /\ NONE # "queued" /\ NONE # "completing"
      /\ row.gen \in Nat
  BY SubagentsAssumption DEF Early, Executing, Ended, NONE, SubagentsInv, TypeOK
<1>4. OperationsSound'
  BY <1>1, <1>3 DEF OperationsSound, Restart
<1>5. ScheduleSound'
  BY <1>3 DEF ScheduleSound, Restart, NONE
<1>6. LockHeld'
  BY <1>1, SubagentsAssumption DEF SubagentsInv, LockHeld, Restart, NONE
<1>7. FollowSound'
  BY DEF FollowSound, Restart
<1>8. NoOrphanRow'
  BY <1>1 DEF NoOrphanRow
<1> QED BY <1>2, <1>4, <1>5, <1>6, <1>7, <1>8 DEF SubagentsInv

-----------------------------------------------------------------------------
LEMMA ChildNextStep == SubagentsInv /\ [Next]_vars => SubagentsInv'
<1> SUFFICES ASSUME SubagentsInv, [Next]_vars PROVE SubagentsInv'
  OBVIOUS
<1>1. ASSUME NEW g \in Gen, Drop(g) \/ Take(g) \/ Operation(g) \/ Finish(g) \/ Collect(g)
      PROVE  SubagentsInv'
  BY <1>1, ChildWorkerStep, ChildTakeStep, ChildOperationStep
<1>2. ASSUME NEW c \in Callers,
             \/ Spawn(c) \/ FollowRead(c) \/ FollowWait(c) \/ FollowCancelled(c) \/ FollowClaim(c)
             \/ Submit(c) \/ Reject(c) \/ Announce(c)
      PROVE  SubagentsInv'
  BY <1>2, ChildFollowStep, ChildClaimStep, ChildSubmitStep, ChildRefuseStep
<1>3. ASSUME NEW c \in Callers, AnnounceCancelled(c) PROVE SubagentsInv'
  BY <1>3, ChildCancelKeeps DEF AnnounceCancelled
<1>4. CASE Cancel
  BY <1>4, ChildCancelKeeps DEF Cancel, callVars
<1>5. CASE UNCHANGED vars
  BY <1>5 DEF vars, schedVars, callVars, lifeVars, SubagentsInv, TypeOK, OperationsSound,
     Overtaken, ScheduleSound, LockHeld, FollowSound, NoOrphanRow
<1> QED BY <1>1, <1>2, <1>3, <1>4, <1>5, ChildCloseStep, ChildRestartStep DEF Next

LEMMA ChildBelonging == SubagentsInv => RowsBelong
BY DEF SubagentsInv, OperationsSound, RowsBelong, WritesOwnGeneration

-----------------------------------------------------------------------------
(* EventStream: any runs, streams, selections and losses *)

\* What the invariant says of the view and of what is on its way to it.
StreamContinues(k) ==
    /\ Stream!ViewSound(k)
    /\ current # Stream!None => Stream!WireSound(stream[current], k)
    /\ epoch > 0 => Stream!RefreshSound(refresh[epoch], k)

-----------------------------------------------------------------------------
(* Segments of a log *)

LEMMA StreamLastOf == ASSUME NEW r, NEW k \in Nat PROVE Stream!Last(Stream!Segment(r, 0, k)) = k
<1>1. {item[2] : item \in Stream!Segment(r, 0, k)} \cup {0} = 0..k
  <2>1. ASSUME NEW n \in 1..k PROVE n \in {item[2] : item \in Stream!Segment(r, 0, k)}
    <3>1. <<r, n>> \in Stream!Segment(r, 0, k) /\ <<r, n>>[2] = n
      BY DEF Stream!Segment
    <3> QED BY <3>1
  <2>2. ASSUME NEW item \in Stream!Segment(r, 0, k) PROVE item[2] \in 0..k
    BY DEF Stream!Segment
  <2> QED BY <2>1, <2>2
<1>2. \A x \in 0..k : (\A y \in 0..k : x >= y) <=> x = k
  OBVIOUS
<1>3. Stream!Max(0..k) = k
  BY <1>2 DEF Stream!Max
<1> QED BY <1>1, <1>3 DEF Stream!Last

\* A query returns what comes next in the log.
LEMMA StreamQueryIs ==
    ASSUME Stream!StreamBounds, NEW r \in Runs, log[r] \in Nat, NEW a \in Nat
    PROVE  \E m \in 0..log[r] : Stream!Query(r, a) = Stream!Segment(r, a, m)
<1> DEFINE m == IF a + Page <= log[r] THEN a + Page ELSE log[r]
<1>1. m \in 0..log[r] /\ \A n \in Nat : n \in (a + 1)..m <=> n \in 1..log[r] /\ n > a
      /\ n <= a + Page
  BY DEF Stream!StreamBounds
<1>2. (a + 1)..m = {n \in 1..log[r] : n > a /\ n <= a + Page}
  BY <1>1
<1> QED BY <1>1, <1>2 DEF Stream!Query, Stream!Segment

\* What continues a view at or before its end extends it.
LEMMA StreamJoined ==
    ASSUME NEW r, NEW k \in Nat, NEW a \in 0..k, NEW m \in Nat
    PROVE  Stream!Segment(r, 0, k) \cup Stream!Segment(r, a, m) = Stream!Segment(r, 0,
        IF m > k THEN m ELSE k)
<1> DEFINE j == IF m > k THEN m ELSE k
<1>1. j \in Nat /\ j >= k /\ (j = k \/ j = m) /\ (0 + 1)..k \cup (a + 1)..m = (0 + 1)..j
  OBVIOUS
<1>2. Stream!Segment(r, 0, k) \cup Stream!Segment(r, a, m) = {<<r,
                                                                n>> : n \in (0 + 1)..k \cup (a + 1)..m}
  BY DEF Stream!Segment
<1> QED BY <1>1, <1>2 DEF Stream!Segment

LEMMA StreamFacts ==
    ASSUME Stream!StreamTypes
    PROVE  /\ \A s \in Streams : stream[s] \in Stream!Connections
           /\ \A e \in 1..MaxSelects : refresh[e] \in Stream!Refreshes
           /\ \A r \in Runs : log[r] \in Nat
BY DEF Stream!StreamTypes

\* The view may grow, and the log.
LEMMA StreamWireGrows ==
    ASSUME NEW t, NEW k \in Nat, NEW j \in Nat, k <= j, Stream!WireSound(t, k)
    PROVE  Stream!WireSound(t, j)
<1>1. 0..k \subseteq 0..j
  OBVIOUS
<1> QED BY <1>1 DEF Stream!WireSound

LEMMA StreamRefreshGrows ==
    ASSUME NEW q \in Stream!Refreshes, NEW k \in Nat, NEW j \in Nat, k <= j,
           Stream!RefreshSound(q, k)
    PROVE  Stream!RefreshSound(q, j)
BY DEF Stream!RefreshSound, Stream!Refreshes

-----------------------------------------------------------------------------
(* What a step of one part leaves of the rest *)

LEMMA StreamServerMoves ==
    ASSUME Stream!StreamInv, NEW s \in Streams, NEW t \in Stream!Connections,
           stream' = [stream EXCEPT ![s] = t],
           t.pc # "closed" => t.run \in Runs,
           t.pc = "send" => \E m \in 0..log[t.run] : t.page = Stream!Segment(t.run, t.cursor, m),
           \A k \in Nat : current = s /\ StreamContinues(k) => Stream!WireSound(t, k),
           UNCHANGED <<log, epoch, shown, view, current, refresh>>
    PROVE  Stream!StreamInv'
<1>1. Stream!StreamTypes'
  BY StreamFacts DEF Stream!StreamInv, Stream!StreamTypes
<1>2. Stream!Selected'
  BY DEF Stream!StreamInv, Stream!Selected
<1>7. Stream!PagesSound'
  <2>1. \A c \in Streams : stream'[c] = IF c = s THEN t ELSE stream[c]
    BY DEF Stream!StreamInv, Stream!StreamTypes
  <2> QED BY <2>1 DEF Stream!StreamInv, Stream!PagesSound
<1>3. PICK k \in Nat : StreamContinues(k)
  BY DEF Stream!StreamInv, StreamContinues
<1>4. Stream!ViewSound(k)'
  BY <1>3 DEF StreamContinues, Stream!ViewSound
<1>5. ASSUME current # Stream!None PROVE Stream!WireSound(stream[current], k)'
  <2>1. \A c \in Streams : stream'[c] = IF c = s THEN t ELSE stream[c]
    BY DEF Stream!StreamInv, Stream!StreamTypes
  <2>2. current \in Streams
    BY <1>5 DEF Stream!StreamInv, Stream!StreamTypes
  <2>3. Stream!WireSound(stream'[current], k)
    BY <1>3, <1>5, <2>1, <2>2 DEF StreamContinues
  <2> QED BY <2>3 DEF Stream!WireSound
<1>6. (epoch > 0 => Stream!RefreshSound(refresh[epoch], k))'
  BY <1>3 DEF StreamContinues, Stream!RefreshSound
<1> QED BY <1>1, <1>2, <1>4, <1>5, <1>6, <1>7 DEF Stream!StreamInv

LEMMA StreamRefreshMoves ==
    ASSUME Stream!StreamInv, NEW e \in 1..MaxSelects, NEW q \in Stream!Refreshes,
           refresh' = [refresh EXCEPT ![e] = q], e > epoch => q.pc = "idle", q.pc # "idle"
               => q.run \in Runs,
           \A k \in Nat : epoch = e /\ StreamContinues(k) => Stream!RefreshSound(q, k),
           UNCHANGED <<log, epoch, shown, view, current, stream>>
    PROVE  Stream!StreamInv'
<1>1. Stream!StreamTypes'
  BY StreamFacts DEF Stream!StreamInv, Stream!StreamTypes
<1>2. \A c \in 1..MaxSelects : refresh'[c] = IF c = e THEN q ELSE refresh[c]
  BY DEF Stream!StreamInv, Stream!StreamTypes
<1>3. Stream!Selected'
  BY <1>2 DEF Stream!StreamInv, Stream!Selected
<1>4. PICK k \in Nat : StreamContinues(k)
  BY DEF Stream!StreamInv, StreamContinues
<1>5. Stream!ViewSound(k)' /\ (current # Stream!None => Stream!WireSound(stream[current], k))'
  BY <1>4 DEF StreamContinues, Stream!ViewSound, Stream!WireSound
<1>6. (epoch > 0 => Stream!RefreshSound(refresh[epoch], k))'
  <2> SUFFICES ASSUME epoch > 0 PROVE Stream!RefreshSound(refresh'[epoch], k)
    BY DEF Stream!RefreshSound
  <2>1. epoch \in 1..MaxSelects
    BY DEF Stream!StreamInv, Stream!StreamTypes
  <2> QED BY <1>2, <1>4, <2>1 DEF StreamContinues
<1>7. Stream!PagesSound'
  BY DEF Stream!StreamInv, Stream!PagesSound
<1> QED BY <1>1, <1>3, <1>5, <1>6, <1>7 DEF Stream!StreamInv

-----------------------------------------------------------------------------
(* The server's stream *)

\* The connection keeps its wire: it changes stage, or lists a page.
LEMMA StreamStageMoves ==
    ASSUME Stream!StreamBounds, Stream!StreamInv, NEW s \in Streams, NEW t \in Stream!Connections,
           stream' = [stream EXCEPT ![s] = t], stream[s].pc \notin {"closed", "ended"},
           t.run = stream[s].run, t.epoch = stream[s].epoch, t.wire = stream[s].wire,
           t.pc # "closed", t.pc # "ended" => t.cursor = stream[s].cursor,
           t.pc = "send" => \E m \in 0..log[t.run] : t.page = Stream!Segment(t.run, t.cursor, m),
           UNCHANGED <<log, epoch, shown, view, current, refresh>>
    PROVE  Stream!StreamInv'
<1>1. ASSUME NEW k \in Nat, current = s, StreamContinues(k) PROVE Stream!WireSound(t, k)
  <2>1. Stream!WireSound(stream[s], k) /\ shown \in Runs
    BY <1>1 DEF StreamContinues, Stream!StreamInv, Stream!Selected, Stream!StreamBounds,
       Stream!StreamTypes
  <2> QED BY <2>1 DEF Stream!WireSound
<1>2. t.run \in Runs
  BY DEF Stream!StreamInv, Stream!StreamTypes
<1> QED BY <1>1, <1>2, StreamServerMoves

LEMMA StreamServeStep == ASSUME Stream!StreamBounds, Stream!StreamInv, NEW s \in Streams,
                                Stream!Serve(s) PROVE Stream!StreamInv'
<1>1. /\ stream[s] \in Stream!Connections
      /\ stream[s].cursor \in Nat /\ stream[s].page \in SUBSET (Runs \X Nat)
      /\ stream[s].wire \in Seq(Runs \X Nat)
      /\ stream[s].pc # "closed" => stream[s].run \in Runs /\ log[stream[s].run] \in Nat
  BY StreamFacts DEF Stream!StreamInv, Stream!StreamTypes, Stream!Connections
<1>2. CASE Stream!List(s)
  <2>1. PICK g : g = Stream!Query(stream[s].run, stream[s].cursor)
    OBVIOUS
  <2>2. PICK m \in 0..log[stream[s].run] : g = Stream!Segment(stream[s].run, stream[s].cursor, m)
    BY <1>1, <1>2, <2>1, StreamQueryIs DEF Stream!List
  <2>3. g \in SUBSET (Runs \X Nat)
    BY <1>1, <1>2, <2>1 DEF Stream!List, Stream!Query
  <2>4. stream[s].pc = "list" /\ UNCHANGED <<log, epoch, shown, view, current, refresh>>
    BY <1>2 DEF Stream!List, Stream!server
  <2>5. CASE shutdown
    <3>1. PICK t : t = [stream[s] EXCEPT !.pc = "ended", !.cursor = 0]
      OBVIOUS
    <3>2. /\ t \in Stream!Connections /\ t.pc = "ended" /\ t.run = stream[s].run
          /\ t.epoch = stream[s].epoch /\ t.wire = stream[s].wire
      BY <1>1, <3>1 DEF Stream!Connections
    <3>3. stream' = [stream EXCEPT ![s] = t]
      BY <1>2, <2>5, <3>1 DEF Stream!List
    <3> QED BY <2>4, <3>2, <3>3, StreamStageMoves
  <2>6. CASE ~shutdown
    <3>1. PICK p \in {"idle", "send"} : p = IF g = {} THEN "idle" ELSE "send"
      OBVIOUS
    <3>2. PICK t : t = [stream[s] EXCEPT !.pc = p, !.page = g]
      OBVIOUS
    <3>3. /\ t \in Stream!Connections /\ t.pc = p /\ t.page = g /\ t.cursor = stream[s].cursor
          /\ t.run = stream[s].run /\ t.epoch = stream[s].epoch /\ t.wire = stream[s].wire
      BY <1>1, <2>3, <3>2 DEF Stream!Connections
    <3>4. stream' = [stream EXCEPT ![s] = t]
      BY <1>2, <2>1, <2>6, <3>1, <3>2 DEF Stream!List
    <3> QED BY <2>2, <2>4, <3>3, <3>4, StreamStageMoves
  <2> QED BY <2>5, <2>6
<1>3. CASE Stream!Judge(s) /\ stream[s].run \in terminal
  <2>1. PICK t : t = [stream[s] EXCEPT !.pc = "ended", !.cursor = 0]
    OBVIOUS
  <2>2. /\ t \in Stream!Connections /\ t.pc = "ended" /\ t.run = stream[s].run
        /\ t.epoch = stream[s].epoch /\ t.wire = stream[s].wire
    BY <1>1, <2>1 DEF Stream!Connections
  <2>3. /\ stream[s].pc \in {"idle", "send"} /\ stream' = [stream EXCEPT ![s] = t]
        /\ UNCHANGED <<log, epoch, shown, view, current, refresh>>
    BY <1>3, <2>1 DEF Stream!Judge, Stream!server
  <2> QED BY <2>2, <2>3, StreamStageMoves
<1>4. CASE (Stream!Judge(s) /\ stream[s].run \notin terminal) \/ Stream!Wake(s)
  <2>1. PICK p \in {"wait", "list"} :
           p = IF Stream!Wake(s) \/ stream[s].pc = "send" THEN "list" ELSE "wait"
    OBVIOUS
  <2>2. PICK t : t = [stream[s] EXCEPT !.pc = p]
    OBVIOUS
  <2>3. /\ t \in Stream!Connections /\ t.pc = p /\ t.cursor = stream[s].cursor
        /\ t.run = stream[s].run /\ t.epoch = stream[s].epoch /\ t.wire = stream[s].wire
    BY <1>1, <2>2 DEF Stream!Connections
  <2>4. stream' = [stream EXCEPT ![s] = t]
    <3>1. CASE Stream!Wake(s)
      BY <2>1, <2>2, <3>1 DEF Stream!Wake
    <3>2. CASE Stream!Judge(s) /\ stream[s].run \notin terminal
      <4>1. stream[s].pc \in {"idle", "send"} /\ ~Stream!Wake(s)
        BY <3>2 DEF Stream!Judge, Stream!Wake
      <4>2. stream' = [stream EXCEPT ![s] =
                          [stream[s] EXCEPT !.pc = IF stream[s].pc = "idle" THEN "wait" ELSE "list"]]
        BY <3>2 DEF Stream!Judge
      <4> QED BY <2>1, <2>2, <4>1, <4>2
    <3> QED BY <1>4, <3>1, <3>2
  <2>5. /\ stream[s].pc \in {"idle", "send", "wait"}
        /\ UNCHANGED <<log, epoch, shown, view, current, refresh>>
    BY <1>4 DEF Stream!Judge, Stream!Wake, Stream!server
  <2> QED BY <2>3, <2>4, <2>5, StreamStageMoves
<1>5. CASE Stream!Send(s)
  <2>1. PICK c : c = stream[s]
    OBVIOUS
  <2>2. PICK item : item = CHOOSE i \in c.page : \A j \in c.page : i[2] <= j[2]
    OBVIOUS
  <2>3. /\ c \in Stream!Connections /\ c.pc = "send" /\ c.page # {} /\ c.run \in Runs
        /\ UNCHANGED <<log, epoch, shown, view, current, refresh>>
    BY <1>1, <1>5, <2>1 DEF Stream!Send, Stream!server
  <2>4. PICK t : t = [c EXCEPT !.page = c.page \ {item}, !.cursor = item[2],
                               !.wire = c.wire \o <<item>>]
    OBVIOUS
  <2>5. stream' = [stream EXCEPT ![s] = t]
    BY <1>5, <2>1, <2>2, <2>4 DEF Stream!Send
  <2>6. PICK m \in 0..log[c.run] : c.page = Stream!Segment(c.run, c.cursor, m)
    BY <2>1, <2>3 DEF Stream!StreamInv, Stream!PagesSound
  <2>7. log[c.run] \in Nat /\ c.cursor \in Nat /\ c.wire \in Seq(Runs \X Nat)
    BY <1>1, <2>1, <2>3
  <2>8. /\ item = <<c.run, c.cursor + 1>>
        /\ c.page \ {item} = Stream!Segment(c.run, c.cursor + 1, m) /\ c.cursor + 1 <= m
    <3>1. c.cursor + 1 <= m
      BY <2>3, <2>6, <2>7 DEF Stream!Segment
    <3>2. \A n \in (c.cursor + 1)..m : <<c.run, n>> \in c.page
      BY <2>6 DEF Stream!Segment
    <3>3. \A j \in c.page : \E n \in (c.cursor + 1)..m : j = <<c.run, n>> /\ j[2] = n
      BY <2>6 DEF Stream!Segment
    <3>4. <<c.run, c.cursor + 1>> \in c.page /\ <<c.run, c.cursor + 1>>[2] = c.cursor + 1
      BY <2>7, <3>1, <3>2
    <3>5. \A j \in c.page : c.cursor + 1 <= j[2]
      BY <2>7, <3>3
    <3>6. item \in c.page /\ \A j \in c.page : item[2] <= j[2]
      BY <2>2, <3>4, <3>5
    <3>7. item = <<c.run, c.cursor + 1>>
      <4>1. PICK n \in (c.cursor + 1)..m : item = <<c.run, n>> /\ item[2] = n
        BY <3>3, <3>6
      <4>2. n <= c.cursor + 1
        BY <3>4, <3>6, <4>1
      <4> QED BY <2>7, <4>1, <4>2
    <3>8. c.page \ {item} = Stream!Segment(c.run, c.cursor + 1, m)
      <4>1. ASSUME NEW j \in c.page, j # item PROVE j \in Stream!Segment(c.run, c.cursor + 1, m)
        <5>1. PICK n \in (c.cursor + 1)..m : j = <<c.run, n>>
          BY <3>3
        <5>2. n \in (c.cursor + 1 + 1)..m
          BY <2>7, <3>7, <4>1, <5>1
        <5> QED BY <5>1, <5>2 DEF Stream!Segment
      <4>2. ASSUME NEW j \in Stream!Segment(c.run, c.cursor + 1, m) PROVE j \in c.page \ {item}
        <5>1. PICK n \in (c.cursor + 1 + 1)..m : j = <<c.run, n>>
          BY <4>2 DEF Stream!Segment
        <5>2. n \in (c.cursor + 1)..m /\ n # c.cursor + 1
          BY <2>7, <5>1
        <5> QED BY <3>2, <3>7, <5>1, <5>2
      <4> QED BY <4>1, <4>2
    <3> QED BY <3>1, <3>7, <3>8
  <2>9. /\ t \in Stream!Connections /\ t.pc = "send" /\ t.run = c.run /\ t.epoch = c.epoch
        /\ t.page = Stream!Segment(c.run, t.cursor, m) /\ t.cursor = c.cursor + 1
        /\ t.wire = Append(c.wire, <<c.run, c.cursor + 1>>)
    <3>1. item \in Runs \X Nat /\ item[2] = c.cursor + 1
      BY <2>3, <2>7, <2>8
    <3>2. PICK w : w = Append(c.wire, item)
      OBVIOUS
    <3>3. c.wire \o <<item>> = w /\ w \in Seq(Runs \X Nat)
      BY <2>7, <3>1, <3>2
    <3>a. c.page \in SUBSET (Runs \X Nat)
      BY <2>3 DEF Stream!Connections
    <3>b. PICK g : g = c.page \ {item}
      OBVIOUS
    <3>4. g = c.page \ {item} /\ g \in SUBSET (Runs \X Nat)
      BY <3>a, <3>b
    <3>5. PICK n \in Nat : n = c.cursor + 1
      BY <2>7
    <3>6. t = [c EXCEPT !.page = g, !.cursor = n, !.wire = w]
      BY <2>4, <3>1, <3>3, <3>4, <3>5
    <3>7. /\ t \in Stream!Connections /\ t.pc = c.pc /\ t.run = c.run /\ t.epoch = c.epoch
          /\ t.page = g /\ t.cursor = n /\ t.wire = w
      BY <2>3, <3>3, <3>4, <3>5, <3>6 DEF Stream!Connections
    <3> QED BY <2>3, <2>8, <3>2, <3>4, <3>5, <3>7
  <2>10. ASSUME NEW k \in Nat, current = s, StreamContinues(k) PROVE Stream!WireSound(t, k)
    <3>1. Stream!WireSound(c, k) /\ shown \in Runs /\ c.run = shown
      BY <2>1, <2>10 DEF StreamContinues, Stream!StreamInv, Stream!Selected, Stream!StreamBounds,
         Stream!StreamTypes, Stream!WireSound
    <3>2. PICK a \in 0..k : /\ \A i \in 1..Len(c.wire) : c.wire[i] = <<shown, a + i>>
                            /\ c.cursor = a + Len(c.wire)
      BY <2>3, <3>1 DEF Stream!WireSound
    <3>3. Len(t.wire) = Len(c.wire) + 1 /\ Len(c.wire) \in Nat
      BY <2>7, <2>9
    <3>4. ASSUME NEW i \in 1..Len(t.wire) PROVE t.wire[i] = <<shown, a + i>>
      <4>1. CASE i = Len(c.wire) + 1
        <5>1. t.wire[i] = <<c.run, c.cursor + 1>>
          BY <2>7, <2>9, <4>1
        <5>2. c.cursor + 1 = a + i
          BY <3>2, <3>3, <4>1
        <5> QED BY <3>1, <5>1, <5>2
      <4>2. CASE i \in 1..Len(c.wire)
        BY <2>7, <2>9, <3>2, <4>2
      <4> QED BY <3>3, <4>1, <4>2
    <3>5. /\ t.cursor = a + Len(t.wire) /\ t.cursor <= log[shown]
      BY <2>6, <2>7, <2>8, <2>9, <3>1, <3>2, <3>3
    <3> QED BY <2>9, <3>1, <3>4, <3>5 DEF Stream!WireSound
  <2>11. t.run \in Runs /\ t.page = Stream!Segment(t.run, t.cursor, m) /\ m \in 0..log[t.run]
    BY <2>3, <2>6, <2>9
  <2> QED BY <2>3, <2>5, <2>9, <2>10, <2>11, StreamServerMoves
<1> QED BY <1>2, <1>3, <1>4, <1>5 DEF Stream!Serve

-----------------------------------------------------------------------------
(* The inspector *)

\* Asking says nothing yet but where it continues.
LEMMA StreamBeginIs ==
    ASSUME Stream!StreamTypes, NEW e \in 1..MaxSelects, NEW r \in Runs, NEW k \in Nat,
           Stream!BeginRefresh(e, r, Stream!Segment(r, 0, k))
    PROVE  \E q \in Stream!Refreshes :
              /\ refresh' = [refresh EXCEPT ![e] = q]
              /\ \/ q = refresh[e] /\ refresh[e].pc # "idle"
                 \/ q.pc = "asking" /\ q.run = r /\ q.after = k
<1>1. Stream!Last(Stream!Segment(r, 0, k)) = k
  BY StreamLastOf
<1>2. CASE refresh[e].pc = "idle"
  <2>1. PICK q : q = [Stream!NoRefresh EXCEPT !.pc = "asking", !.run = r, !.after = k]
    OBVIOUS
  <2>2. q = [pc |-> "asking", run |-> r, after |-> k, rows |-> {}, status |-> "unread"]
    BY <2>1 DEF Stream!NoRefresh
  <2>3. q \in Stream!Refreshes /\ q.pc = "asking" /\ q.run = r /\ q.after = k
    BY <2>2 DEF Stream!Refreshes
  <2>4. refresh' = [refresh EXCEPT ![e] = q]
    BY <1>1, <1>2, <2>1 DEF Stream!BeginRefresh
  <2> QED BY <2>3, <2>4
<1>3. CASE refresh[e].pc # "idle"
  <2>1. refresh' = [refresh EXCEPT ![e] = refresh[e]]
    BY <1>3 DEF Stream!BeginRefresh
  <2> QED BY <1>3, <2>1 DEF Stream!StreamTypes
<1> QED BY <1>2, <1>3

LEMMA StreamNoRefreshIs == Stream!NoRefresh \in Stream!Refreshes /\ Stream!NoRefresh.pc = "idle"
BY DEF Stream!NoRefresh, Stream!Refreshes

LEMMA StreamPollStep == ASSUME Stream!StreamBounds, Stream!StreamInv, Stream!Poll
                               PROVE Stream!StreamInv'
<1>1. epoch > 0 /\ epoch \in 1..MaxSelects /\ shown \in Runs /\ refresh[epoch].pc = "idle"
  BY DEF Stream!StreamInv, Stream!StreamTypes, Stream!Selected, Stream!Poll, Stream!StreamBounds
<1>2. PICK k \in Nat : StreamContinues(k)
  BY DEF Stream!StreamInv, StreamContinues
<1>3. view = Stream!Segment(shown, 0, k)
  BY <1>2 DEF StreamContinues, Stream!ViewSound
<1>4. PICK q \in Stream!Refreshes : /\ refresh' = [refresh EXCEPT ![epoch] = q]
                                    /\ q.pc = "asking" /\ q.run = shown /\ q.after = k
  BY <1>1, <1>3, StreamBeginIs DEF Stream!Poll, Stream!StreamInv
<1>5. ASSUME NEW j \in Nat, StreamContinues(j) PROVE Stream!RefreshSound(q, j)
  <2>1. view = Stream!Segment(shown, 0, j)
    BY <1>5 DEF StreamContinues, Stream!ViewSound
  <2>2. j = k
    BY <1>3, <2>1, StreamLastOf
  <2> QED BY <1>4, <2>2 DEF Stream!RefreshSound
<1>6. UNCHANGED <<log, epoch, shown, view, current, stream>> /\ ~(epoch > epoch)
  BY <1>1 DEF Stream!Poll, Stream!server
<1> QED BY <1>1, <1>4, <1>5, <1>6, StreamRefreshMoves

LEMMA StreamAnswerStep ==
    ASSUME Stream!StreamBounds, Stream!StreamInv, NEW e \in 1..MaxSelects,
           Stream!AnswerRun(e) \/ Stream!AnswerEvents(e) \/ Stream!RefreshFails(e)
    PROVE  Stream!StreamInv'
<1>1. PICK o : o = refresh[e]
  OBVIOUS
<1>2. /\ o \in Stream!Refreshes /\ o.pc # "idle" /\ ~(e > epoch) /\ o.run \in Runs
         /\ log[o.run] \in Nat
      /\ UNCHANGED <<log, epoch, shown, view, current, stream>> /\ o.after \in Nat
  BY <1>1 DEF Stream!AnswerRun, Stream!AnswerEvents, Stream!RefreshFails, Stream!StreamInv,
     Stream!StreamTypes, Stream!Selected, Stream!server, Stream!Refreshes
<1>3. CASE Stream!AnswerRun(e)
  <2>1. PICK x \in {"active", "terminal"} : refresh' = [refresh EXCEPT ![e].status = x]
    BY <1>3 DEF Stream!AnswerRun
  <2>2. PICK q : q = [o EXCEPT !.status = x]
    OBVIOUS
  <2>3. /\ q \in Stream!Refreshes /\ q.pc = o.pc /\ q.run = o.run /\ q.after = o.after
           /\ q.rows = o.rows
    BY <1>2, <2>2 DEF Stream!Refreshes
  <2>4. refresh' = [refresh EXCEPT ![e] = q]
    BY <1>1, <2>1, <2>2
  <2>5. ASSUME NEW k \in Nat, epoch = e, StreamContinues(k) PROVE Stream!RefreshSound(q, k)
    <3>1. Stream!RefreshSound(o, k)
      BY <1>1, <2>5 DEF StreamContinues
    <3> QED BY <2>3, <3>1 DEF Stream!RefreshSound
  <2> QED BY <1>2, <2>3, <2>4, <2>5, StreamRefreshMoves
<1>4. CASE Stream!AnswerEvents(e)
  <2>1. PICK g : g = Stream!Query(o.run, o.after)
    OBVIOUS
  <2>2. PICK m \in 0..log[o.run] : g = Stream!Segment(o.run, o.after, m)
    BY <1>2, <2>1, StreamQueryIs
  <2>3. g \in SUBSET (Runs \X Nat)
    BY <1>2, <2>1 DEF Stream!Query
  <2>4. PICK q : q = [o EXCEPT !.pc = "rows", !.rows = g]
    OBVIOUS
  <2>5. /\ q \in Stream!Refreshes /\ q.pc = "rows" /\ q.run = o.run /\ q.after = o.after
           /\ q.rows = g
    BY <1>2, <2>3, <2>4 DEF Stream!Refreshes
  <2>6. refresh' = [refresh EXCEPT ![e] = q]
    BY <1>1, <1>4, <2>1, <2>4 DEF Stream!AnswerEvents
  <2>7. ASSUME NEW k \in Nat, epoch = e, StreamContinues(k) PROVE Stream!RefreshSound(q, k)
    <3>1. o.run = shown /\ o.after <= k
      BY <1>1, <1>2, <2>7 DEF StreamContinues, Stream!RefreshSound
    <3> QED BY <2>2, <2>5, <3>1 DEF Stream!RefreshSound
  <2> QED BY <1>2, <2>5, <2>6, <2>7, StreamRefreshMoves
<1>5. CASE Stream!RefreshFails(e)
  <2>1. refresh' = [refresh EXCEPT ![e] = Stream!NoRefresh]
    BY <1>5 DEF Stream!RefreshFails
  <2>2. ASSUME NEW k \in Nat PROVE Stream!RefreshSound(Stream!NoRefresh, k)
    BY StreamNoRefreshIs DEF Stream!RefreshSound
  <2> QED BY <1>2, <2>1, <2>2, StreamNoRefreshIs, StreamRefreshMoves
<1> QED BY <1>3, <1>4, <1>5

LEMMA StreamSelectStep == ASSUME Stream!StreamBounds, Stream!StreamInv, NEW r \in Runs,
                                 Stream!Select(r) PROVE Stream!StreamInv'
<1>1. /\ epoch + 1 \in 1..MaxSelects /\ epoch + 1 \in 0..MaxSelects /\ epoch \in Nat
      /\ Stream!StreamTypes
      /\ \A e \in 1..MaxSelects : e > epoch => refresh[e].pc = "idle"
  BY DEF Stream!StreamInv, Stream!StreamTypes, Stream!Selected, Stream!Select, Stream!StreamBounds
<1>2. /\ epoch' = epoch + 1 /\ shown' = r /\ view' = {} /\ current' = Stream!None
      /\ UNCHANGED <<log, stream>>
  BY DEF Stream!Select, Stream!server
<1>3. {} = Stream!Segment(r, 0, 0)
  BY DEF Stream!Segment
<1>4. PICK q \in Stream!Refreshes : /\ refresh' = [refresh EXCEPT ![epoch + 1] = q]
                                    /\ q.pc = "asking" /\ q.run = r /\ q.after = 0
  <2>1. Stream!BeginRefresh(epoch + 1, r, Stream!Segment(r, 0, 0))
    BY <1>3 DEF Stream!Select
  <2>2. refresh[epoch + 1].pc = "idle"
    BY <1>1
  <2> QED BY <1>1, <2>1, <2>2, StreamBeginIs
<1>5. \A e \in 1..MaxSelects : refresh'[e] = IF e = epoch + 1 THEN q ELSE refresh[e]
  BY <1>1, <1>4 DEF Stream!StreamTypes
<1>6. Stream!StreamTypes'
  <2>1. refresh' \in [1..MaxSelects -> Stream!Refreshes]
    BY <1>1, <1>4 DEF Stream!StreamTypes
  <2>2. \A e \in 1..MaxSelects : refresh'[e].pc # "idle" => refresh'[e].run \in Runs
    BY <1>1, <1>4, <1>5 DEF Stream!StreamTypes
  <2> QED BY <1>1, <1>2, <2>1, <2>2 DEF Stream!StreamTypes
<1>7. Stream!Selected'
  BY <1>1, <1>2, <1>5 DEF Stream!Selected
<1>8. Stream!PagesSound'
  BY <1>2 DEF Stream!StreamInv, Stream!PagesSound
<1>9. Stream!ViewSound(0)'
  BY <1>2, <1>3 DEF Stream!ViewSound
<1>10. Stream!RefreshSound(refresh[epoch], 0)'
  BY <1>1, <1>2, <1>4, <1>5 DEF Stream!RefreshSound
<1> QED BY <1>2, <1>6, <1>7, <1>8, <1>9, <1>10 DEF Stream!StreamInv

\* A connection opens, ends or is lost; the view and the last refresh may grow with it.
LEMMA StreamViewMoves ==
    ASSUME Stream!StreamInv, Stream!StreamTypes', Stream!PagesSound', NEW k \in Nat,
           NEW j \in Nat, StreamContinues(k), k <= j,
           Stream!ViewSound(j)', epoch > 0,
           \A e \in 1..MaxSelects :
               \/ refresh'[e] = refresh[e]
               \/ refresh'[e].pc = "idle"
               \/ e = epoch /\ refresh'[e].pc = "asking" /\ refresh'[e].run = shown
                  /\ refresh'[e].after <= j,
           \/ current' = Stream!None
           \/ current' # Stream!None /\ current' \in Streams /\ Stream!WireSound(stream[current],
              j)',
           UNCHANGED <<log, epoch, shown>>
    PROVE  Stream!StreamInv'
<1>1. Stream!Selected'
  BY DEF Stream!StreamInv, Stream!Selected
<1>2. epoch \in 1..MaxSelects
  BY DEF Stream!StreamInv, Stream!StreamTypes
<1>3. Stream!RefreshSound(refresh[epoch], j)'
  <2>1. Stream!RefreshSound(refresh[epoch], k) /\ refresh[epoch] \in Stream!Refreshes
    BY <1>2 DEF StreamContinues, Stream!StreamInv, Stream!StreamTypes
  <2>2. Stream!RefreshSound(refresh[epoch], j)
    BY <2>1, StreamRefreshGrows
  <2> QED BY <1>2, <2>2 DEF Stream!RefreshSound
<1> QED BY <1>1, <1>3 DEF Stream!StreamInv

LEMMA StreamClosedIs ==
    /\ Stream!Closed.pc = "closed" /\ Stream!Closed.wire = <<>> /\ Stream!Closed.page = {}
    /\ Stream!StreamBounds => Stream!Closed \in Stream!Connections
BY DEF Stream!Closed, Stream!Connections, Stream!StreamBounds

\* Only connections that the inspector does not read change, and they end.
LEMMA StreamEndStep ==
    ASSUME Stream!StreamBounds, Stream!StreamInv, NEW s \in Streams, Stream!EndStream(s)
           \/ Stream!Drop(s)
    PROVE  Stream!StreamInv'
<1>1. /\ stream' = [stream EXCEPT ![s] = Stream!Closed]
      /\ current' = IF current = s THEN Stream!None ELSE current
      /\ UNCHANGED <<log, epoch, shown, view, refresh>>
  BY DEF Stream!EndStream, Stream!Drop, Stream!server
<1>2. \A c \in Streams : stream'[c] = IF c = s THEN Stream!Closed ELSE stream[c]
  BY <1>1 DEF Stream!StreamInv, Stream!StreamTypes
<1>3. Stream!StreamTypes'
  BY <1>1, <1>2, StreamClosedIs DEF Stream!StreamInv, Stream!StreamTypes
<1>4. Stream!Selected'
  BY <1>1 DEF Stream!StreamInv, Stream!Selected
<1>5. Stream!PagesSound'
  BY <1>1, <1>2, StreamClosedIs DEF Stream!StreamInv, Stream!PagesSound
<1>6. PICK k \in Nat : StreamContinues(k)
  BY DEF Stream!StreamInv, StreamContinues
<1>7. Stream!ViewSound(k)' /\ (epoch > 0 => Stream!RefreshSound(refresh[epoch], k))'
  BY <1>1, <1>6 DEF StreamContinues, Stream!ViewSound, Stream!RefreshSound
<1>8. ASSUME current' # Stream!None PROVE Stream!WireSound(stream[current], k)'
  <2>1. current' = current /\ current \in Streams /\ current # s /\ current # Stream!None
    BY <1>1, <1>8 DEF Stream!StreamInv, Stream!StreamTypes
  <2>2. stream'[current'] = stream[current] /\ Stream!WireSound(stream[current], k)
    BY <1>2, <1>6, <2>1 DEF StreamContinues
  <2>3. Stream!WireSound(stream'[current'], k)
    BY <2>2
  <2> QED BY <1>1, <2>3 DEF Stream!WireSound
<1> QED BY <1>3, <1>4, <1>5, <1>6, <1>7, <1>8 DEF Stream!StreamInv

LEMMA StreamRefreshedStep ==
    ASSUME Stream!StreamBounds, Stream!StreamInv, NEW e \in 1..MaxSelects, Stream!Refreshed(e)
    PROVE  Stream!StreamInv'
<1>1. /\ refresh' = [refresh EXCEPT ![e] = Stream!NoRefresh] /\ refresh[e].pc = "rows"
      /\ UNCHANGED <<log, epoch, shown>> /\ epoch > 0 /\ shown \in Runs /\ log[shown] \in Nat
      /\ epoch \in 1..MaxSelects
  BY DEF Stream!Refreshed, Stream!server, Stream!StreamInv, Stream!StreamTypes, Stream!Selected,
     Stream!StreamBounds
<1>2. /\ \A c \in 1..MaxSelects : refresh'[c] = IF c = e THEN Stream!NoRefresh ELSE refresh[c]
      /\ refresh' \in [1..MaxSelects -> Stream!Refreshes]
      /\ \A c \in 1..MaxSelects : refresh'[c].pc # "idle" => refresh'[c].run \in Runs
  BY <1>1, StreamNoRefreshIs DEF Stream!StreamInv, Stream!StreamTypes
<1>3. PICK k \in Nat : StreamContinues(k)
  BY DEF Stream!StreamInv, StreamContinues
<1>4. CASE e # epoch
  <2>1. UNCHANGED <<view, current, stream>>
    BY <1>4 DEF Stream!Refreshed
  <2>2. Stream!StreamTypes'
    BY <1>1, <1>2, <2>1 DEF Stream!StreamInv, Stream!StreamTypes
  <2>3. Stream!PagesSound' /\ Stream!ViewSound(k)'
    BY <1>1, <1>3, <2>1 DEF Stream!StreamInv, Stream!PagesSound, StreamContinues, Stream!ViewSound
  <2>4. current # Stream!None => current \in Streams /\ Stream!WireSound(stream[current], k)'
    BY <1>1, <1>3, <2>1 DEF Stream!StreamInv, Stream!StreamTypes, StreamContinues,
       Stream!WireSound
  <2> QED BY <1>1, <1>2, <1>3, <2>1, <2>2, <2>3, <2>4, StreamNoRefreshIs, StreamViewMoves
<1>5. CASE e = epoch
  <2>1. /\ view' = view \cup refresh[e].rows
        /\ \/ current' = Stream!None /\ UNCHANGED stream
           \/ UNCHANGED <<current, stream>>
           \/ \E s \in Streams :
                /\ stream[s].pc = "closed" /\ current' = s
                /\ stream' = [stream EXCEPT ![s] = [Stream!Closed EXCEPT !.pc = "list",
                   !.run = shown,
                                                    !.epoch = epoch, !.cursor = Stream!Last(view')]]
    BY <1>5 DEF Stream!Refreshed
  <2>2. view = Stream!Segment(shown, 0, k) /\ k \in Nat /\ (k > 0 => k <= log[shown])
        /\ Stream!RefreshSound(refresh[e], k)
    BY <1>1, <1>3, <1>5 DEF StreamContinues, Stream!ViewSound
  <2>3. refresh[e].after \in 0..k
    BY <1>1, <2>2 DEF Stream!RefreshSound, Stream!StreamInv, Stream!StreamTypes, Stream!Refreshes
  <2>4. PICK m \in 0..log[shown] : refresh[e].rows = Stream!Segment(shown, refresh[e].after, m)
    BY <1>1, <2>2 DEF Stream!RefreshSound
  <2>5. PICK j \in Nat : j >= k /\ (j = k \/ j = m) /\ view' = Stream!Segment(shown, 0, j)
    <3>1. PICK a \in 0..k : a = refresh[e].after
      BY <2>3
    <3>2. view' = Stream!Segment(shown, 0, k) \cup Stream!Segment(shown, a, m) /\ m \in Nat
      BY <1>1, <2>1, <2>2, <2>4, <3>1
    <3>3. PICK j \in Nat : j >= k /\ (j = k \/ j = m) /\ j = IF m > k THEN m ELSE k
      BY <2>2, <3>2
    <3>4. PICK r : r = shown
      OBVIOUS
    <3>5. Stream!Segment(r, 0, k) \cup Stream!Segment(r, a, m) = Stream!Segment(r, 0, j)
      BY <2>2, <3>2, <3>3, StreamJoined
    <3> QED BY <3>2, <3>3, <3>4, <3>5
  <2>6. Stream!ViewSound(j)'
    BY <1>1, <2>2, <2>5 DEF Stream!ViewSound
  <2>7. CASE current' = Stream!None /\ UNCHANGED stream
    <3>1. Stream!StreamTypes' /\ Stream!PagesSound'
      BY <1>1, <1>2, <2>7 DEF Stream!StreamInv, Stream!StreamTypes, Stream!PagesSound
    <3> QED BY <1>1, <1>2, <1>3, <2>5, <2>6, <2>7, <3>1, StreamNoRefreshIs, StreamViewMoves
  <2>8. CASE UNCHANGED <<current, stream>>
    <3>1. Stream!StreamTypes' /\ Stream!PagesSound'
      BY <1>1, <1>2, <2>8 DEF Stream!StreamInv, Stream!StreamTypes, Stream!PagesSound
    <3>2. ASSUME current # Stream!None PROVE current \in Streams
                 /\ Stream!WireSound(stream[current], j)'
      <4>1. Stream!WireSound(stream[current], k)
        BY <1>3, <3>2 DEF StreamContinues
      <4>2. Stream!WireSound(stream[current], j)
        BY <2>5, <4>1, StreamWireGrows
      <4> QED BY <1>1, <2>8, <3>2, <4>2 DEF Stream!WireSound, Stream!StreamInv, Stream!StreamTypes
    <3> QED BY <1>1, <1>2, <1>3, <2>5, <2>6, <2>8, <3>1, <3>2, StreamNoRefreshIs, StreamViewMoves
  <2>9. ASSUME NEW s \in Streams, current' = s,
               stream' = [stream EXCEPT ![s] = [Stream!Closed EXCEPT !.pc = "list", !.run = shown,
                                                !.epoch = epoch, !.cursor = Stream!Last(view')]]
        PROVE  Stream!StreamInv'
    <3>1. Stream!Last(view') = j
      BY <2>5, StreamLastOf
    <3>2. PICK t : t = [Stream!Closed EXCEPT !.pc = "list", !.run = shown, !.epoch = epoch,
          !.cursor = j]
      OBVIOUS
    <3>3. t = [pc |-> "list", run |-> shown, epoch |-> epoch, cursor |-> j, page |-> {},
          wire |-> <<>>]
      BY <3>2 DEF Stream!Closed
    <3>4. /\ t \in Stream!Connections /\ t.pc = "list" /\ t.run = shown /\ t.epoch = epoch
             /\ t.cursor = j
          /\ t.wire = <<>>
      BY <1>1, <3>3 DEF Stream!Connections
    <3>5. stream' = [stream EXCEPT ![s] = t]
      BY <2>9, <3>1, <3>2
    <3>6. \A c \in Streams : stream'[c] = IF c = s THEN t ELSE stream[c]
      BY <3>5 DEF Stream!StreamInv, Stream!StreamTypes
    <3>7. Stream!StreamTypes'
      BY <1>1, <1>2, <2>9, <3>4, <3>5, <3>6 DEF Stream!StreamInv, Stream!StreamTypes
    <3>8. Stream!PagesSound'
      BY <1>1, <3>4, <3>6 DEF Stream!StreamInv, Stream!PagesSound
    <3>9. Stream!WireSound(stream[current], j)'
      <4>1. stream'[current'] = t /\ Len(t.wire) = 0
        BY <2>9, <3>4, <3>6
      <4>2. j <= log[shown] /\ j \in 0..j /\ j + 0 = j
        BY <1>1, <2>2, <2>5
      <4>3. \E a \in 0..j : /\ \A i \in 1..Len(t.wire) : t.wire[i] = <<shown, a + i>>
                            /\ a + Len(t.wire) <= log[shown]
                            /\ t.pc # "ended" => t.cursor = a + Len(t.wire)
        <5>1. \A i \in 1..Len(t.wire) : FALSE
          BY <4>1
        <5> QED BY <3>4, <4>1, <4>2, <5>1
      <4>4. Stream!WireSound(t, j)
        BY <3>4, <4>3 DEF Stream!WireSound
      <4>5. Stream!WireSound(stream'[current'], j)
        BY <4>1, <4>4
      <4> QED BY <1>1, <4>5 DEF Stream!WireSound
    <3>10. current' # Stream!None
      BY <2>9 DEF Stream!StreamBounds
    <3> QED BY <1>1, <1>2, <1>3, <2>5, <2>6, <2>9, <3>7, <3>8, <3>9, <3>10, StreamNoRefreshIs,
        StreamViewMoves
  <2> QED BY <2>1, <2>7, <2>8, <2>9
<1> QED BY <1>4, <1>5

LEMMA StreamDeliverStep ==
    ASSUME Stream!StreamBounds, Stream!StreamInv, NEW s \in Streams, Stream!Deliver(s)
    PROVE  Stream!StreamInv'
<1>1. PICK c : c = stream[s]
  OBVIOUS
<1>2. /\ c \in Stream!Connections /\ c.wire \in Seq(Runs \X Nat) /\ c.wire # <<>>
      /\ UNCHANGED <<log, epoch, shown, current>>
      /\ c.pc # "closed" => c.run \in Runs
  BY <1>1 DEF Stream!StreamInv, Stream!StreamTypes, Stream!Connections, Stream!Deliver,
     Stream!server
<1>3. PICK t : t = [c EXCEPT !.wire = Tail(c.wire)]
  OBVIOUS
<1>4. /\ t \in Stream!Connections /\ t.pc = c.pc /\ t.run = c.run /\ t.epoch = c.epoch
      /\ t.cursor = c.cursor /\ t.page = c.page /\ t.wire = Tail(c.wire)
  <2>1. PICK w \in Seq(Runs \X Nat) : w = Tail(c.wire)
    BY <1>2, HeadTailProperties
  <2>2. t = [c EXCEPT !.wire = w]
    BY <1>3, <2>1
  <2> QED BY <1>2, <2>1, <2>2 DEF Stream!Connections
<1>5. stream' = [stream EXCEPT ![s] = t]
  BY <1>1, <1>3 DEF Stream!Deliver
<1>6. \A d \in Streams : stream'[d] = IF d = s THEN t ELSE stream[d]
  BY <1>5 DEF Stream!StreamInv, Stream!StreamTypes
<1>7. c.pc = "send" => \E m \in 0..log[c.run] : c.page = Stream!Segment(c.run, c.cursor, m)
  BY <1>1 DEF Stream!StreamInv, Stream!PagesSound
<1>8. CASE ~(c.epoch = epoch /\ current = s)
  <2>1. UNCHANGED <<view, refresh>>
    BY <1>1, <1>8 DEF Stream!Deliver
  <2>2. ASSUME NEW k \in Nat, current = s, StreamContinues(k) PROVE FALSE
    BY <1>1, <1>8, <2>2 DEF StreamContinues, Stream!WireSound, Stream!StreamBounds
  <2> QED BY <1>2, <1>4, <1>5, <1>7, <2>1, <2>2, StreamServerMoves
<1>9. CASE c.epoch = epoch /\ current = s
  <2>1. PICK k \in Nat : StreamContinues(k)
    BY DEF Stream!StreamInv, StreamContinues
  <2>2. /\ current # Stream!None /\ epoch > 0 /\ epoch \in 1..MaxSelects /\ shown \in Runs
        /\ log[shown] \in Nat
    BY <1>9 DEF Stream!StreamBounds, Stream!StreamInv, Stream!StreamTypes, Stream!Selected
  <2>3. Stream!WireSound(c, k) /\ view = Stream!Segment(shown, 0, k) /\ (k > 0 => k <= log[shown])
    BY <1>1, <1>9, <2>1, <2>2 DEF StreamContinues, Stream!ViewSound
  <2>4. PICK a \in 0..k : /\ \A i \in 1..Len(c.wire) : c.wire[i] = <<shown, a + i>>
                          /\ a + Len(c.wire) <= log[shown]
                          /\ c.pc # "ended" => c.cursor = a + Len(c.wire)
    BY <2>3 DEF Stream!WireSound
  <2>5. /\ Len(c.wire) \in Nat /\ Len(c.wire) >= 1 /\ Head(c.wire) = c.wire[1]
        /\ Len(t.wire) = Len(c.wire) - 1
        /\ \A i \in 1..Len(t.wire) : t.wire[i] = c.wire[i + 1]
    BY <1>2, <1>4
  <2>6. PICK j \in Nat : /\ j = (IF a = k THEN k + 1 ELSE k)
                         /\ view \cup {Head(c.wire)} = Stream!Segment(shown, 0, j)
    <3>1. PICK j \in Nat : j = IF a = k THEN k + 1 ELSE k
      OBVIOUS
    <3>2. Head(c.wire) = <<shown, a + 1>>
      BY <2>4, <2>5
    <3>3. (0 + 1)..j = (0 + 1)..k \cup {a + 1}
      BY <3>1
    <3>4. Stream!Segment(shown, 0, k) \cup {<<shown, a + 1>>} = Stream!Segment(shown, 0, j)
      <4>1. \A n \in (0 + 1)..k \cup {a + 1} : <<shown, n>> \in Stream!Segment(shown, 0,
            k) \cup {<<shown, a + 1>>}
        BY DEF Stream!Segment
      <4>2. \A x \in Stream!Segment(shown, 0, k) \cup {<<shown, a + 1>>} :
               \E n \in (0 + 1)..k \cup {a + 1} : x = <<shown, n>>
        BY DEF Stream!Segment
      <4> QED BY <3>3, <4>1, <4>2 DEF Stream!Segment
    <3> QED BY <2>3, <3>1, <3>2, <3>4
  <2>7. view' = Stream!Segment(shown, 0, j) /\ Stream!BeginRefresh(epoch, shown,
        Stream!Segment(shown, 0, j))
    BY <1>1, <1>9, <2>6 DEF Stream!Deliver
  <2>8. PICK q \in Stream!Refreshes : /\ refresh' = [refresh EXCEPT ![epoch] = q]
                                      /\ \/ q = refresh[epoch] /\ refresh[epoch].pc # "idle"
                                         \/ q.pc = "asking" /\ q.run = shown /\ q.after = j
    BY <2>2, <2>7, StreamBeginIs DEF Stream!StreamInv
  <2>9. \A e \in 1..MaxSelects : refresh'[e] = IF e = epoch THEN q ELSE refresh[e]
    BY <2>2, <2>8 DEF Stream!StreamInv, Stream!StreamTypes
  <2>10. Stream!StreamTypes'
    <3>1. /\ stream' \in [Streams -> Stream!Connections]
          /\ \A d \in Streams : stream'[d].pc # "closed" => stream'[d].run \in Runs
      BY <1>2, <1>4, <1>5, <1>6 DEF Stream!StreamInv, Stream!StreamTypes
    <3>2. /\ refresh' \in [1..MaxSelects -> Stream!Refreshes]
          /\ \A e \in 1..MaxSelects : refresh'[e].pc # "idle" => refresh'[e].run \in Runs
      BY <2>2, <2>8, <2>9 DEF Stream!StreamInv, Stream!StreamTypes
    <3> QED BY <1>2, <3>1, <3>2 DEF Stream!StreamInv, Stream!StreamTypes
  <2>11. Stream!PagesSound'
    BY <1>2, <1>4, <1>6, <1>7 DEF Stream!StreamInv, Stream!PagesSound
  <2>12. Stream!ViewSound(j)'
    BY <1>2, <2>2, <2>3, <2>4, <2>5, <2>6, <2>7 DEF Stream!ViewSound
  <2>13. Stream!WireSound(stream[current], j)'
    <3>1. a + 1 \in 0..j
      BY <2>4, <2>6
    <3>2. \A i \in 1..Len(t.wire) : t.wire[i] = <<shown, (a + 1) + i>>
      <4>1. ASSUME NEW i \in 1..Len(t.wire) PROVE t.wire[i] = <<shown, (a + 1) + i>>
        <5>1. i \in Nat /\ a \in Nat /\ Len(c.wire) \in Nat
          BY <1>2, <2>2, <2>4
        <5>2. i + 1 \in 1..Len(c.wire)
          BY <2>5, <5>1
        <5>3. a + (i + 1) = (a + 1) + i
          BY <5>1
        <5> QED BY <2>4, <2>5, <5>2, <5>3
      <4> QED BY <4>1
    <3>3. (a + 1) + Len(t.wire) = a + Len(c.wire)
      <4>1. PICK n \in Nat, m \in Nat : n = Len(c.wire) /\ m = Len(t.wire) /\ m = n - 1
        BY <2>5
      <4>2. a \in Nat
        BY <2>2, <2>4
      <4>3. ASSUME NEW x \in Nat, NEW y \in Nat, NEW z \in Nat, z = y - 1
            PROVE  (x + 1) + z = x + y
        BY <4>3
      <4>4. m = n - 1
        BY <4>1
      <4>5. (a + 1) + m = a + n
        BY <4>2, <4>3, <4>4, Zenon
      <4> QED BY <4>1, <4>5, Zenon
    <3>4. Stream!WireSound(t, j)
      BY <1>4, <2>3, <2>4, <3>1, <3>2, <3>3 DEF Stream!WireSound
    <3>5. stream'[current'] = t
      BY <1>2, <1>6, <1>9
    <3>6. Stream!WireSound(stream'[current'], j)
      BY <3>4, <3>5
    <3> QED BY <1>2, <3>6 DEF Stream!WireSound
  <2>14. k <= j /\ current' # Stream!None /\ current' \in Streams
    BY <1>2, <1>9, <2>2, <2>6
  <2>15. \A e \in 1..MaxSelects :
            \/ refresh'[e] = refresh[e]
            \/ refresh'[e].pc = "idle"
            \/ e = epoch /\ refresh'[e].pc = "asking" /\ refresh'[e].run = shown
               /\ refresh'[e].after <= j
    BY <2>8, <2>9
  <2> QED BY <1>2, <2>1, <2>2, <2>10, <2>11, <2>12, <2>13, <2>14, <2>15, StreamViewMoves
<1> QED BY <1>8, <1>9

-----------------------------------------------------------------------------
(* The run *)

LEMMA StreamRunStep ==
    ASSUME Stream!StreamInv, (\E r \in Runs : Stream!AppendEvent(r) \/ Stream!Settle(r))
           \/ Stream!RequestShutdown
    PROVE  Stream!StreamInv'
<1>1. /\ log' \in [Runs -> Nat] /\ \A r \in Runs : log[r] \in Nat /\ log'[r] >= log[r]
      /\ UNCHANGED <<stream, epoch, shown, view, current, refresh>>
  BY DEF Stream!StreamInv, Stream!StreamTypes, Stream!AppendEvent, Stream!Settle,
     Stream!RequestShutdown
<1>2. Stream!StreamTypes' /\ Stream!Selected'
  BY <1>1 DEF Stream!StreamInv, Stream!StreamTypes, Stream!Selected
<1>3. \A r \in Runs : 0..log[r] \subseteq 0..log'[r]
  BY <1>1
<1>4. Stream!PagesSound'
  <2> SUFFICES ASSUME NEW s \in Streams, stream[s].pc = "send"
               PROVE  \E m \in 0..log'[stream[s].run] :
                         stream[s].page = Stream!Segment(stream[s].run, stream[s].cursor, m)
    BY <1>1 DEF Stream!PagesSound
  <2>1. stream[s].run \in Runs
    BY DEF Stream!StreamInv, Stream!StreamTypes
  <2> QED BY <1>3, <2>1 DEF Stream!StreamInv, Stream!PagesSound
<1>5. PICK k \in Nat : StreamContinues(k)
  BY DEF Stream!StreamInv, StreamContinues
<1>6. CASE epoch = 0
  <2>1. view = {} /\ current = Stream!None
    BY <1>6 DEF Stream!StreamInv, Stream!Selected
  <2>2. Stream!ViewSound(0)'
    BY <1>1, <2>1 DEF Stream!ViewSound, Stream!Segment
  <2> QED BY <1>1, <1>2, <1>4, <1>6, <2>1, <2>2 DEF Stream!StreamInv
<1>7. CASE epoch # 0
  <2>1. shown \in Runs /\ epoch \in 1..MaxSelects
    BY <1>7 DEF Stream!StreamInv, Stream!Selected, Stream!StreamTypes
  <2>2. Stream!ViewSound(k)'
    BY <1>1, <1>5, <2>1 DEF StreamContinues, Stream!ViewSound
  <2>3. Stream!RefreshSound(refresh[epoch], k)'
    <3>1. Stream!RefreshSound(refresh[epoch], k)
      BY <1>5, <2>1 DEF StreamContinues
    <3> QED BY <1>1, <1>3, <2>1, <3>1 DEF Stream!RefreshSound
  <2>4. ASSUME current # Stream!None PROVE Stream!WireSound(stream[current], k)'
    <3>1. Stream!WireSound(stream[current], k) /\ stream[current].wire \in Seq(Runs \X Nat)
      BY <1>5, <2>4 DEF StreamContinues, Stream!StreamInv, Stream!StreamTypes, Stream!Connections
    <3>2. Stream!WireSound(stream[current], k) /\ Len(stream[current].wire) \in Nat
      BY <3>1
    <3>3. ASSUME NEW a \in 0..k, a + Len(stream[current].wire) <= log[shown]
          PROVE  a + Len(stream[current].wire) <= log'[shown]
      BY <1>1, <2>1, <3>2, <3>3
    <3> QED BY <1>1, <3>2, <3>3 DEF Stream!WireSound
  <2> QED BY <1>1, <1>2, <1>4, <2>2, <2>3, <2>4 DEF Stream!StreamInv
<1> QED BY <1>6, <1>7

LEMMA StreamInitInv == ASSUME Stream!StreamBounds, Stream!Init PROVE Stream!StreamInv
<1>1. Stream!StreamTypes /\ Stream!Selected
  <2>1. 0 \in 0..MaxSelects
    BY DEF Stream!StreamBounds
  <2> QED BY <2>1, StreamClosedIs, StreamNoRefreshIs DEF Stream!Init, Stream!StreamTypes,
      Stream!Selected
<1>2. Stream!PagesSound
  BY StreamClosedIs DEF Stream!Init, Stream!PagesSound
<1>3. Stream!ViewSound(0)
  BY DEF Stream!Init, Stream!ViewSound, Stream!Segment
<1> QED BY <1>1, <1>2, <1>3 DEF Stream!Init, Stream!StreamInv

LEMMA StreamNextStep == ASSUME Stream!StreamBounds, Stream!StreamInv,
                               [Stream!Next]_(Stream!vars) PROVE Stream!StreamInv'
<1>1. ASSUME NEW r \in Runs, Stream!AppendEvent(r) \/ Stream!Settle(r) PROVE Stream!StreamInv'
  BY <1>1, StreamRunStep
<1>2. ASSUME NEW s \in Streams, Stream!Serve(s) \/ Stream!Deliver(s) \/ Stream!EndStream(s)
             \/ Stream!Drop(s) PROVE Stream!StreamInv'
  BY <1>2, StreamServeStep, StreamDeliverStep, StreamEndStep
<1>3. ASSUME NEW e \in 1..MaxSelects, Stream!Ask(e) \/ Stream!RefreshFails(e)
             PROVE Stream!StreamInv'
  BY <1>3, StreamAnswerStep, StreamRefreshedStep DEF Stream!Ask
<1>4. CASE Stream!RequestShutdown
  BY <1>4, StreamRunStep
<1>5. CASE UNCHANGED Stream!vars
  <2>1. Stream!StreamTypes' /\ Stream!Selected' /\ Stream!PagesSound'
    BY <1>5 DEF Stream!vars, Stream!StreamInv, Stream!StreamTypes, Stream!Selected,
       Stream!PagesSound
  <2>2. PICK k \in Nat : StreamContinues(k)
    BY DEF Stream!StreamInv, StreamContinues
  <2>3. /\ Stream!ViewSound(k)'
        /\ (current # Stream!None => Stream!WireSound(stream[current], k))'
        /\ (epoch > 0 => Stream!RefreshSound(refresh[epoch], k))'
    BY <1>5, <2>2 DEF Stream!vars, StreamContinues, Stream!ViewSound, Stream!WireSound,
       Stream!RefreshSound
  <2> QED BY <2>1, <2>3 DEF Stream!StreamInv
<1> QED BY <1>1, <1>2, <1>3, <1>4, <1>5, StreamPollStep, StreamSelectStep DEF Stream!Next

LEMMA StreamIsPrefix == Stream!StreamInv => Stream!ViewIsPrefix
<1> SUFFICES ASSUME Stream!StreamInv PROVE Stream!ViewIsPrefix
  OBVIOUS
<1>1. PICK k \in Nat : Stream!ViewSound(k)
  BY DEF Stream!StreamInv
<1>2. view = Stream!Segment(shown, 0, k) /\ Stream!Last(view) = k
  BY <1>1, StreamLastOf DEF Stream!ViewSound
<1>3. view # {} => k > 0
  BY <1>2 DEF Stream!Segment
<1>4. view # {} => k <= log[shown]
  BY <1>1, <1>3 DEF Stream!ViewSound
<1>5. Stream!Segment(shown, 0, k) = {<<shown, n>> : n \in 1..k}
  BY DEF Stream!Segment
<1> QED BY <1>2, <1>4, <1>5 DEF Stream!ViewIsPrefix

-----------------------------------------------------------------------------
(* MCPClient: any calls and connections *)

\* The instance counts as FiniteSets does.
LEMMA MCPFinite ==
    /\ \A S : MCP!IsFiniteSet(S) <=> IsFiniteSet(S)
    /\ \A S : MCP!Cardinality(S) = Cardinality(S)
<1>1. \A S : MCP!IsFiniteSet(S) <=> IsFiniteSet(S)
  BY DEF MCP!IsFiniteSet, IsFiniteSet
<1>2. \A S : MCP!Cardinality(S) = Cardinality(S)
  BY DEF MCP!Cardinality, Cardinality
<1> QED BY <1>1, <1>2

-----------------------------------------------------------------------------
(* One call moves *)

\* What ToolEntersOnce says of a step.
MCPCareful ==
    \A c \in Calls :
        /\ call'[c].entered > call[c].entered =>
              /\ call'[c].entered = 1
              /\ call[c].source = client /\ call[c].source = call[c].k
              /\ catalog.available /\ catalog.version = call[c].version
              /\ "execution" \notin faults
        /\ "execution" \in faults /\ call'[c].pc = "done" => call[c].pc = "done"

MCPPlaces == {"idle", "get", "lock", "drain", "opening", "undo", "got", "slot", "borrow",
           "inval", "invdrain", "retry", "read", "listed", "publish", "done", "error"}

\* Only the position of a call changes.
MCPMovedTo(c, t, p) ==
    /\ t \in MCP!CallRecords /\ call' = [call EXCEPT ![c] = t]
    /\ t.pc = p /\ t.phase = call[c].phase /\ t.k = call[c].k /\ t.entered = call[c].entered
    /\ t.then = call[c].then

LEMMA MCPSetIs ==
    ASSUME MCP!MCPTypes, NEW c \in Calls, NEW p \in MCPPlaces, MCP!Set(c, p)
    PROVE  \E t : MCPMovedTo(c, t, p)
<1>1. PICK t : t = [call[c] EXCEPT !.pc = p]
  OBVIOUS
<1>2. call' = [call EXCEPT ![c] = t]
  BY <1>1 DEF MCP!Set
<1>3. call[c] \in MCP!CallRecords
  BY DEF MCP!MCPTypes
<1>4. /\ t \in MCP!CallRecords /\ t.pc = p /\ t.phase = call[c].phase /\ t.k = call[c].k
      /\ t.entered = call[c].entered /\ t.then = call[c].then
  BY <1>1, <1>3 DEF MCP!CallRecords, MCPPlaces
<1> QED BY <1>2, <1>4 DEF MCPMovedTo

LEMMA MCPLeaveIs ==
    ASSUME MCP!MCPTypes, NEW c \in Calls, NEW p \in MCPPlaces, MCP!Leave(c, p)
    PROVE  \E t : MCPMovedTo(c, t, p)
BY MCPSetIs DEF MCP!Leave

LEMMA MCPOthers ==
    ASSUME MCP!MCPTypes, NEW c \in Calls, NEW t \in MCP!CallRecords, call' = [call EXCEPT ![c] = t]
    PROVE  /\ call' \in [Calls -> MCP!CallRecords]
           /\ \A d \in Calls : call'[d] = IF d = c THEN t ELSE call[d]
BY DEF MCP!MCPTypes

LEMMA MCPEntered ==
    ASSUME MCP!MCPTypes, NEW c \in Calls, NEW t \in MCP!CallRecords, call' = [call EXCEPT ![c] = t],
           t.entered <= call[c].entered,
           t.pc = "done" => call[c].pc = "done" \/ "execution" \notin faults
    PROVE  MCPCareful
<1>1. \A d \in Calls : call'[d] = IF d = c THEN t ELSE call[d]
  BY MCPOthers
<1>2. \A d \in Calls : call[d].entered \in Nat /\ t.entered \in Nat
  BY DEF MCP!MCPTypes, MCP!CallRecords
<1>3. \A d \in Calls : ~(call'[d].entered > call[d].entered)
  BY <1>1, <1>2
<1> QED BY <1>1, <1>3 DEF MCPCareful

\* A step of a call that holds no lock and touches no connection.
LEMMA MCPQuietMove ==
    ASSUME MCP!MCPInv, NEW c \in Calls, NEW t \in MCP!CallRecords, call' = [call EXCEPT ![c] = t],
           call[c].pc \notin MCP!Holding, t.pc \notin MCP!Holding, t.pc = "borrow"
               => owner[t.k] = "open",
           MCP!CallSound(t), faults \subseteq faults',
           catalog' \in [source : 0..MaxOpens, version : Nat, available : BOOLEAN],
           UNCHANGED <<owner, released, conn, client, mcp_lock, closer>>
    PROVE  MCP!MCPInv'
<1>1. /\ call' \in [Calls -> MCP!CallRecords]
      /\ \A d \in Calls : call'[d] = IF d = c THEN t ELSE call[d]
  BY MCPOthers DEF MCP!MCPInv
<1>2. MCP!MCPTypes'
  BY <1>1 DEF MCP!MCPInv, MCP!MCPTypes, MCP!Conns
<1>3. MCP!LockOwned'
  BY <1>1 DEF MCP!MCPInv, MCP!LockOwned
<1>4. MCP!EntrySound'
  BY DEF MCP!MCPInv, MCP!EntrySound, MCP!Conns
<1>5. MCP!SessionSound'
  BY <1>1 DEF MCP!MCPInv, MCP!SessionSound, MCP!Conns, MCP!Holding
<1>6. MCP!LeaseIsOpen' /\ MCP!CloseIsFinal'
  BY <1>1 DEF MCP!MCPInv, MCP!LeaseIsOpen, MCP!CloseIsFinal, MCP!Conns
<1>7. \A d \in Calls : MCP!CallSound(call[d])'
  BY <1>1 DEF MCP!MCPInv, MCP!CallSound
<1> QED BY <1>2, <1>3, <1>4, <1>5, <1>6, <1>7 DEF MCP!MCPInv

\* The same for a call that only moves on: nothing is entered.
LEMMA MCPQuietShift ==
    ASSUME MCP!MCPInv, NEW c \in Calls, NEW p \in MCPPlaces, NEW t, MCPMovedTo(c, t, p),
           call[c].pc \notin MCP!Holding, p \notin MCP!Holding, p # "borrow",
           call[c].phase = "tool" /\ p \in MCP!Before => call[c].entered = 0,
           call[c].phase = "tool" /\ p \in {"inval", "invdrain", "retry"} => call[c].then = "error",
           p = "done" => call[c].pc = "done" \/ "execution" \notin faults,
           faults \subseteq faults',
           catalog' \in [source : 0..MaxOpens, version : Nat, available : BOOLEAN],
           UNCHANGED <<owner, released, conn, client, mcp_lock, closer>>
    PROVE  MCP!MCPInv' /\ MCPCareful
<1>1. MCP!CallSound(call[c]) /\ MCP!MCPTypes
  BY DEF MCP!MCPInv
<1>2. MCP!CallSound(t)
  BY <1>1 DEF MCP!CallSound, MCPMovedTo
<1>3. /\ t \in MCP!CallRecords /\ call' = [call EXCEPT ![c] = t] /\ t.pc = p
      /\ t.entered = call[c].entered /\ call[c].entered \in Nat
  BY <1>1 DEF MCPMovedTo, MCP!MCPTypes, MCP!CallRecords
<1>4. MCP!MCPInv'
  BY <1>2, <1>3, MCPQuietMove
<1>5. MCPCareful
  <2>1. t.entered <= call[c].entered
    BY <1>3
  <2>2. t.pc = "done" => call[c].pc = "done" \/ "execution" \notin faults
    BY <1>3
  <2> QED BY <1>1, <1>3, <2>1, <2>2, MCPEntered
<1> QED BY <1>4, <1>5

LEMMA MCPCatalog == ASSUME MCP!MCPInv PROVE catalog \in [source : 0..MaxOpens, version : Nat,
                           available : BOOLEAN]
BY DEF MCP!MCPInv, MCP!MCPTypes

\* The steps of list_server and execute.
LEMMA MCPListStep ==
    ASSUME MCP!MCPBounds, MCP!MCPInv, NEW c \in Calls, MCP!List(c) \/ MCP!Listed(c)
           \/ MCP!Discover(c) \/ MCP!Authorise(c)
    PROVE  MCP!MCPInv' /\ MCPCareful
<1>1. MCP!MCPTypes /\ MCP!CallSound(call[c]) /\ call[c] \in MCP!CallRecords
  BY DEF MCP!MCPInv, MCP!MCPTypes
<1>2. CASE MCP!List(c)
  <2>1. PICK t : MCPMovedTo(c, t, "get")
    BY <1>1, <1>2, MCPSetIs DEF MCP!List, MCPPlaces
  <2>2. /\ call[c].pc = "idle" /\ UNCHANGED <<owner, released, conn, client, mcp_lock, closer,
                                              faults, catalog>>
    BY <1>2 DEF MCP!List, MCP!Owned, MCP!Shared
  <2>3. call[c].phase = "tool" => call[c].entered = 0
    BY <1>2, <1>1 DEF MCP!List, MCP!CallSound, MCP!Before
  <2> QED BY <2>1, <2>2, <2>3, MCPCatalog, MCPQuietShift DEF MCPPlaces, MCP!Holding
<1>3. CASE MCP!Listed(c)
  <2>1. /\ call[c].pc = "got" /\ call[c].phase = "list" /\ call[c].entered = 0
        /\ UNCHANGED <<owner, released, conn, client, mcp_lock, closer, faults>>
    BY <1>1, <1>3 DEF MCP!Listed, MCP!Owned, MCP!Shared, MCP!CallSound
  <2>2. CASE MCP!Leave(c, "listed") /\ UNCHANGED catalog
    <3>1. PICK t : MCPMovedTo(c, t, "listed")
      BY <1>1, <2>2, MCPLeaveIs DEF MCPPlaces
    <3> QED BY <2>1, <2>2, <3>1, MCPCatalog, MCPQuietShift DEF MCPPlaces, MCP!Holding, MCP!Before
  <2>3. CASE /\ catalog' = [catalog EXCEPT !.available = FALSE]
             /\ call' = [call EXCEPT ![c].pc = "get", ![c].phase = "read", ![c].k = 0]
    <3>1. PICK t : t = [call[c] EXCEPT !.pc = "get", !.phase = "read", !.k = 0]
      OBVIOUS
    <3>2. call' = [call EXCEPT ![c] = t]
      BY <2>3, <3>1
    <3>3. 0 \in 0..MaxOpens
      BY DEF MCP!MCPBounds
    <3>4. t \in MCP!CallRecords /\ t.pc = "get" /\ t.phase = "read" /\ t.entered = call[c].entered
      BY <1>1, <3>1, <3>3 DEF MCP!CallRecords
    <3>5. catalog' \in [source : 0..MaxOpens, version : Nat, available : BOOLEAN]
      BY <2>3, MCPCatalog
    <3>6. MCP!MCPInv'
      BY <2>1, <3>2, <3>4, <3>5, MCPQuietMove DEF MCP!Holding, MCP!CallSound
    <3>7. MCPCareful
      <4>1. t.entered <= call[c].entered
        BY <2>1, <3>4
      <4> QED BY <1>1, <3>2, <3>4, <4>1, MCPEntered
    <3> QED BY <3>6, <3>7
  <2> QED BY <1>3, <2>2, <2>3 DEF MCP!Listed
<1>4. CASE MCP!Discover(c)
  <2>1. PICK p \in {"listed", "done", "error"} : MCP!Leave(c, p) /\ (p # "error"
        => MCP!SourceHolds(call[c].k))
    BY <1>4 DEF MCP!Discover
  <2>2. PICK t : MCPMovedTo(c, t, p)
    BY <1>1, <2>1, MCPLeaveIs DEF MCPPlaces
  <2>3. /\ call[c].pc = "read"
        /\ UNCHANGED <<owner, released, conn, client, mcp_lock, closer, faults>>
    BY <1>4 DEF MCP!Discover, MCP!Owned, MCP!Shared
  <2>4. catalog' \in [source : 0..MaxOpens, version : Nat, available : BOOLEAN]
    <3>1. PICK z : z = catalog.version + 1
      OBVIOUS
    <3>2. z \in Nat
      BY <3>1, MCPCatalog
    <3>3. call[c].k \in 0..MaxOpens
      BY <1>1 DEF MCP!CallRecords
    <3>4. catalog' = [source |-> call[c].k, version |-> z, available |-> TRUE] \/ catalog' = catalog
      BY <1>4, <3>1 DEF MCP!Discover
    <3>5. PICK k \in 0..MaxOpens : k = call[c].k
      BY <3>3
    <3>6. [source |-> k, version |-> z, available |-> TRUE]
              \in [source : 0..MaxOpens, version : Nat, available : BOOLEAN]
      BY <3>2
    <3> QED BY <3>4, <3>5, <3>6, MCPCatalog
  <2>5. p = "done" => call[c].pc = "done" \/ "execution" \notin faults
    BY <2>1 DEF MCP!SourceHolds, MCP!Usable, MCP!Admitted
  <2>6. p \in MCPPlaces /\ p \notin MCP!Holding /\ p # "borrow" /\ p \notin MCP!Before
        /\ p \notin {"inval", "invdrain", "retry"}
    BY <2>1 DEF MCPPlaces, MCP!Holding, MCP!Before
  <2> QED BY <2>2, <2>3, <2>4, <2>5, <2>6, MCPQuietShift DEF MCP!Holding
<1>5. CASE MCP!Authorise(c)
  <2>1. CASE MCP!Set(c, "error")
    <3>1. PICK t : MCPMovedTo(c, t, "error")
      BY <1>1, <2>1, MCPSetIs DEF MCPPlaces
    <3>2. /\ call[c].pc = "listed"
          /\ UNCHANGED <<owner, released, conn, client, mcp_lock, closer, faults, catalog>>
      BY <1>5 DEF MCP!Authorise, MCP!Owned, MCP!Shared, MCP!Rest
    <3> QED BY <3>1, <3>2, MCPCatalog, MCPQuietShift DEF MCPPlaces, MCP!Holding, MCP!Before
  <2>2. CASE ~MCP!Set(c, "error")
    <3>1. PICK t : t = [MCP!NoCall EXCEPT !.pc = "get", !.phase = "tool", !.source = catalog.source,
                                      !.version = catalog.version]
      OBVIOUS
    <3>2. /\ call[c].pc = "listed" /\ call' = [call EXCEPT ![c] = t]
          /\ UNCHANGED <<owner, released, conn, client, mcp_lock, closer, faults, catalog>>
      BY <1>5, <2>2, <3>1 DEF MCP!Authorise, MCP!Owned, MCP!Shared, MCP!Rest
    <3>3. t = [pc |-> "get", phase |-> "tool", k |-> 0, tries |-> 0, source |-> catalog.source,
               version |-> catalog.version, entered |-> 0, then |-> ""]
      BY <3>1 DEF MCP!NoCall
    <3>4. /\ t \in MCP!CallRecords /\ t.pc = "get" /\ t.phase = "tool" /\ t.entered = 0
      <4>1. /\ catalog.source \in 0..MaxOpens /\ catalog.version \in Nat /\ 0 \in 0..MaxOpens
            /\ 0 \in 0..1
        BY <1>1, MCPCatalog DEF MCP!MCPBounds
      <4> QED BY <3>3, <4>1 DEF MCP!CallRecords
    <3>5. MCP!MCPInv'
      BY <3>2, <3>4, MCPCatalog, MCPQuietMove DEF MCP!Holding, MCP!CallSound
    <3>6. t.entered <= call[c].entered
      <4>1. call[c].entered \in Nat
        BY <1>1 DEF MCP!CallRecords
      <4> QED BY <3>4, <4>1
    <3>7. MCPCareful
      BY <1>1, <3>2, <3>4, <3>6, MCPEntered
    <3> QED BY <3>5, <3>7
  <2> QED BY <2>1, <2>2
<1> QED BY <1>2, <1>3, <1>4, <1>5

\* A call that gives up.
LEMMA MCPGiveUp ==
    ASSUME MCP!MCPInv, NEW c \in Calls, MCP!Leave(c, "error") \/ MCP!Set(c, "error"),
           call[c].pc \notin MCP!Holding,
           faults \subseteq faults', UNCHANGED <<owner, released, conn, client, mcp_lock, closer,
                                                 catalog>>
    PROVE  MCP!MCPInv' /\ MCPCareful
<1>1. PICK t : MCPMovedTo(c, t, "error")
  BY MCPSetIs, MCPLeaveIs DEF MCP!MCPInv, MCPPlaces
<1> QED BY <1>1, MCPCatalog, MCPQuietShift DEF MCPPlaces, MCP!Holding, MCP!Before

LEMMA MCPGetStep ==
    ASSUME MCP!MCPInv, NEW c \in Calls, MCP!Get(c) \/ MCP!Queue(c) \/ MCP!Cancel(c) \/ MCP!Answer(c)
    PROVE  MCP!MCPInv' /\ MCPCareful
<1>1. MCP!MCPTypes /\ MCP!CallSound(call[c])
  BY DEF MCP!MCPInv
<1>2. /\ UNCHANGED <<owner, released, conn, client, mcp_lock, closer, catalog>>
         /\ faults \subseteq faults'
      /\ call[c].pc \notin MCP!Holding
  BY DEF MCP!Get, MCP!Queue, MCP!Cancel, MCP!Answer, MCP!LeaveOnly, MCP!Owned, MCP!Shared,
     MCP!Rest, MCP!Holding
<1>3. PICK p \in {"lock", "slot", "done", "error"} :
          /\ MCP!Leave(c, p) \/ MCP!Set(c, p)
          /\ p = "done" => "execution" \notin faults
          /\ p \in {"lock", "slot"} => call[c].pc \in {"get", "got"}
  BY DEF MCP!Get, MCP!Queue, MCP!Cancel, MCP!Answer, MCP!LeaveOnly, MCP!Admitted
<1>4. PICK t : MCPMovedTo(c, t, p)
  BY <1>1, <1>3, MCPSetIs, MCPLeaveIs DEF MCPPlaces
<1>5. call[c].phase = "tool" /\ p \in MCP!Before => call[c].entered = 0
  BY <1>1, <1>3 DEF MCP!CallSound, MCP!Before
<1>6. p \in MCPPlaces /\ p \notin MCP!Holding /\ p # "borrow" /\ p \notin {"inval", "invdrain",
      "retry"}
  BY <1>3 DEF MCPPlaces, MCP!Holding
<1> QED BY <1>2, <1>3, <1>4, <1>5, <1>6, MCPCatalog, MCPQuietShift

LEMMA MCPBorrowStep == ASSUME MCP!MCPInv, NEW c \in Calls, MCP!Borrow(c) PROVE MCP!MCPInv'
                              /\ MCPCareful
<1>1. /\ MCP!MCPTypes /\ MCP!CallSound(call[c]) /\ call[c] \in MCP!CallRecords
         /\ call[c].entered \in Nat
      /\ call[c].pc = "slot" /\ call[c].pc \notin MCP!Holding
      /\ UNCHANGED <<owner, released, conn, client, mcp_lock, closer, catalog, faults>>
  BY DEF MCP!MCPInv, MCP!MCPTypes, MCP!CallRecords, MCP!Borrow, MCP!Owned, MCP!Shared, MCP!Holding
<1>2. CASE MCP!Leave(c, "error")
  BY <1>1, <1>2, MCPGiveUp
<1>3. CASE ~MCP!Leave(c, "error")
  <2>1. /\ MCP!Fresh(c)
        /\ call' = [call EXCEPT ![c].pc = "borrow",
                                ![c].entered = IF call[c].phase = "tool" THEN @ + 1 ELSE @]
    BY <1>3 DEF MCP!Borrow
  <2>2. PICK n : n = IF call[c].phase = "tool" THEN call[c].entered + 1 ELSE call[c].entered
    OBVIOUS
  <2>3. PICK t : t = [call[c] EXCEPT !.pc = "borrow", !.entered = n]
    OBVIOUS
  <2>4. call' = [call EXCEPT ![c] = t]
    BY <2>1, <2>2, <2>3
  <2>5. n \in Nat
    BY <1>1, <2>2
  <2>6. /\ t \in MCP!CallRecords /\ t.pc = "borrow" /\ t.phase = call[c].phase /\ t.k = call[c].k
        /\ t.entered = n
    BY <1>1, <2>3, <2>5 DEF MCP!CallRecords
  <2>7. call[c].k # 0 /\ call[c].k = client /\ "execution" \notin faults
    BY <2>1 DEF MCP!Fresh, MCP!SourceHolds, MCP!Usable, MCP!Admitted
  <2>8. owner[t.k] = "open"
    BY <2>6, <2>7 DEF MCP!MCPInv, MCP!SessionSound
  <2>9. MCP!CallSound(t)
    BY <1>1, <2>2, <2>6 DEF MCP!CallSound, MCP!Before
  <2>10. MCP!MCPInv'
    BY <1>1, <2>4, <2>6, <2>8, <2>9, MCPCatalog, MCPQuietMove DEF MCP!Holding
  <2>11. \A d \in Calls : call'[d] = IF d = c THEN t ELSE call[d]
    BY <1>1, <2>4, <2>6, MCPOthers
  <2>12. ASSUME NEW d \in Calls
         PROVE  /\ call'[d].entered > call[d].entered =>
                      /\ call'[d].entered = 1
                      /\ call[d].source = client /\ call[d].source = call[d].k
                      /\ catalog.available /\ catalog.version = call[d].version
                      /\ "execution" \notin faults
                /\ "execution" \in faults /\ call'[d].pc = "done" => call[d].pc = "done"
    <3>1. CASE d # c
      <4>1. call'[d] = call[d] /\ call[d].entered \in Nat
        BY <2>11, <3>1 DEF MCP!MCPInv, MCP!MCPTypes, MCP!CallRecords
      <4> QED BY <4>1
    <3>2. CASE d = c
      <4>1. call'[d].entered = n /\ call'[d].pc = "borrow"
        BY <2>6, <2>11, <3>2
      <4>2. CASE call[c].phase = "tool"
        <5>1. call[c].entered = 0 /\ n = 1
          BY <1>1, <2>2, <4>2 DEF MCP!CallSound, MCP!Before
        <5>2. /\ call[c].source = client /\ catalog.available /\ catalog.version = call[c].version
          BY <2>1, <4>2 DEF MCP!Fresh, MCP!SourceHolds, MCP!DescriptorHolds
        <5> QED BY <2>7, <3>2, <4>1, <5>1, <5>2
      <4>3. CASE call[c].phase # "tool"
        <5>1. ~(call'[d].entered > call[d].entered)
          BY <1>1, <2>2, <3>2, <4>1, <4>3
        <5> QED BY <4>1, <5>1
      <4> QED BY <4>2, <4>3
    <3> QED BY <3>1, <3>2
  <2> QED BY <2>10, <2>12 DEF MCPCareful
<1> QED BY <1>2, <1>3

\* A call that moves on and neither enters a tool nor ends.
LEMMA MCPCareless ==
    ASSUME MCP!MCPTypes, NEW c \in Calls, NEW t \in MCP!CallRecords, call' = [call EXCEPT ![c] = t],
           t.entered = call[c].entered, t.pc # "done"
    PROVE  MCPCareful
<1>1. t.entered \in Nat
  BY DEF MCP!CallRecords
<1>2. t.entered <= call[c].entered
  BY <1>1
<1> QED BY <1>2, MCPEntered

LEMMA MCPFailStep ==
    ASSUME MCP!MCPInv, NEW c \in Calls, MCP!Return(c) \/ MCP!FailRead(c) \/ MCP!FailTool(c)
    PROVE  MCP!MCPInv' /\ MCPCareful
<1>1. MCP!MCPTypes /\ MCP!CallSound(call[c])
  BY DEF MCP!MCPInv
<1>2. /\ UNCHANGED <<owner, released, conn, client, mcp_lock, closer, catalog>>
         /\ faults \subseteq faults'
      /\ call[c].pc = "borrow" /\ call[c].pc \notin MCP!Holding
  BY DEF MCP!Return, MCP!FailRead, MCP!FailTool, MCP!Owned, MCP!Shared, MCP!Rest, MCP!Holding
<1>3. CASE MCP!Leave(c, "error")
  BY <1>2, <1>3, MCPGiveUp
<1>4. ASSUME NEW p \in {"publish", "read"}, MCP!Set(c, p) PROVE MCP!MCPInv' /\ MCPCareful
  <2>1. PICK t : MCPMovedTo(c, t, p)
    BY <1>1, <1>4, MCPSetIs DEF MCPPlaces
  <2> QED BY <1>2, <1>4, <2>1, MCPCatalog, MCPQuietShift DEF MCPPlaces, MCP!Holding, MCP!Before
<1>5. ASSUME NEW x \in {"get", "error"}, call' = [call EXCEPT ![c].pc = "inval", ![c].then = x],
             x = "get" => call[c].phase = "read"
      PROVE  MCP!MCPInv' /\ MCPCareful
  <2>0. PICK t : t = [call[c] EXCEPT !.pc = "inval", !.then = x]
    OBVIOUS
  <2>1. /\ t \in MCP!CallRecords /\ call' = [call EXCEPT ![c] = t] /\ t.pc = "inval" /\ t.then = x
        /\ t.phase = call[c].phase /\ t.entered = call[c].entered
    <3>1. call' = [call EXCEPT ![c] = t]
      BY <1>5, <2>0
    <3>2. call[c] \in MCP!CallRecords
      BY <1>1 DEF MCP!MCPTypes
    <3> QED BY <2>0, <3>1, <3>2 DEF MCP!CallRecords
  <2>2. MCP!CallSound(t)
    BY <1>1, <1>5, <2>1 DEF MCP!CallSound, MCP!Before
  <2>3. MCP!MCPInv'
    BY <1>2, <2>1, <2>2, MCPCatalog, MCPQuietMove DEF MCP!Holding
  <2>4. MCPCareful
    BY <1>1, <2>1, MCPCareless
  <2> QED BY <2>3, <2>4
<1>6. CASE MCP!Return(c)
  BY <1>3, <1>4, <1>5, <1>6 DEF MCP!Return
<1>7. CASE MCP!FailRead(c)
  <2>1. CASE ~MCP!Leave(c, "error")
    <3>1. PICK x \in {"get", "error"} : x = IF MCP!MayRetry(c) THEN "get" ELSE "error"
      OBVIOUS
    <3>2. call' = [call EXCEPT ![c].pc = "inval", ![c].then = x] /\ call[c].phase = "read"
      BY <1>7, <2>1, <3>1 DEF MCP!FailRead
    <3> QED BY <1>5, <3>2
  <2> QED BY <1>3, <2>1
<1>8. CASE MCP!FailTool(c)
  BY <1>5, <1>8 DEF MCP!FailTool
<1> QED BY <1>6, <1>7, <1>8

LEMMA MCPRetryStep == ASSUME MCP!MCPBounds, MCP!MCPInv, NEW c \in Calls, MCP!Retry(c)
                             PROVE MCP!MCPInv' /\ MCPCareful
<1>1. MCP!MCPTypes /\ MCP!CallSound(call[c]) /\ call[c] \in MCP!CallRecords
  BY DEF MCP!MCPInv, MCP!MCPTypes
<1>2. /\ UNCHANGED <<owner, released, conn, client, mcp_lock, closer, catalog, faults>>
      /\ call[c].pc = "retry" /\ call[c].pc \notin MCP!Holding
  BY DEF MCP!Retry, MCP!Owned, MCP!Shared, MCP!Holding
<1>3. CASE MCP!Leave(c, "error")
  BY <1>2, <1>3, MCPGiveUp
<1>4. CASE /\ call[c].then = "get"
           /\ call' = [call EXCEPT ![c].pc = "get", ![c].tries = 1, ![c].k = 0]
  <2>1. PICK t : t = [call[c] EXCEPT !.pc = "get", !.tries = 1, !.k = 0]
    OBVIOUS
  <2>2. call' = [call EXCEPT ![c] = t]
    BY <1>4, <2>1
  <2>3. 0 \in 0..MaxOpens /\ 1 \in 0..1
    BY DEF MCP!MCPBounds
  <2>4. /\ t \in MCP!CallRecords /\ t.pc = "get" /\ t.phase = call[c].phase
        /\ t.entered = call[c].entered
    BY <1>1, <2>1, <2>3 DEF MCP!CallRecords
  <2>5. MCP!CallSound(t)
    BY <1>1, <1>2, <1>4, <2>4 DEF MCP!CallSound
  <2>6. MCP!MCPInv'
    BY <1>2, <2>2, <2>4, <2>5, MCPCatalog, MCPQuietMove DEF MCP!Holding
  <2>7. MCPCareful
    BY <1>1, <2>2, <2>4, MCPCareless
  <2> QED BY <2>6, <2>7
<1> QED BY <1>3, <1>4 DEF MCP!Retry

-----------------------------------------------------------------------------
(* The server's lock *)

\* Who holds the lock holds it alone.
LEMMA MCPAlone ==
    ASSUME MCP!MCPBounds, MCP!MCPInv, NEW c \in Calls, call[c].pc \in MCP!Holding
           \/ mcp_lock = MCP!Free
    PROVE  closer # "drain" /\ \A d \in Calls : d # c => call[d].pc \notin MCP!Holding
BY DEF MCP!MCPBounds, MCP!MCPInv, MCP!LockOwned, MCP!Free, MCP!Closer

LEMMA MCPLockMove ==
    ASSUME MCP!MCPBounds, MCP!MCPInv, NEW c \in Calls, call[c].pc \in MCP!Holding
           \/ mcp_lock = MCP!Free,
           NEW t \in MCP!CallRecords, call' = [call EXCEPT ![c] = t], t.pc # "borrow",
               MCP!CallSound(t),
           t.pc \in MCP!Holding => mcp_lock' = c, closer' = closer
    PROVE  /\ call' \in [Calls -> MCP!CallRecords] /\ MCP!LockOwned'
           /\ \A d \in Calls : call'[d].pc \in MCP!Holding => d = c
           /\ \A d \in Calls : MCP!CallSound(call[d])'
           /\ \A d \in Calls : call'[d].pc = "borrow" => call'[d].k = call[d].k
              /\ call[d].pc = "borrow"
           /\ call'[c] = t /\ closer' # "drain"
<1>1. /\ call' \in [Calls -> MCP!CallRecords]
      /\ \A d \in Calls : call'[d] = IF d = c THEN t ELSE call[d]
  BY MCPOthers DEF MCP!MCPInv
<1>2. \A d \in Calls : call'[d].pc \in MCP!Holding => d = c
  BY <1>1, MCPAlone
<1>3. \A d \in Calls : MCP!CallSound(call[d])'
  BY <1>1 DEF MCP!MCPInv, MCP!CallSound
<1>4. MCP!LockOwned'
  BY <1>1, <1>2, MCPAlone DEF MCP!LockOwned
<1> QED BY <1>1, <1>2, <1>3, <1>4, MCPAlone

\* The session is withdrawn and its connection released.
LEMMA MCPDiscardEntry ==
    ASSUME MCP!MCPBounds, MCP!MCPInv, MCP!BeginDiscard
    PROVE  /\ MCP!EntrySound' /\ released' \subseteq MCP!Conns /\ client' = 0
              /\ UNCHANGED <<owner, conn>>
           /\ 0 \in 0..MaxOpens
<1>1. /\ client' = 0 /\ released' = released \cup ({conn} \ {0}) /\ UNCHANGED <<owner, conn>>
  BY DEF MCP!BeginDiscard
<1>2. PICK n \in 0..MaxOpens :
        /\ \A k \in MCP!Conns : owner[k] = "none" <=> k > n
        /\ conn \in {0, n} /\ released \subseteq 1..n
        /\ \A k \in MCP!Conns : owner[k] \in {"opening", "open", "broken"} => k = conn
  BY DEF MCP!MCPInv, MCP!EntrySound
<1>3. released' \subseteq 1..n /\ released' \subseteq MCP!Conns /\ 0 \in 0..MaxOpens
  <2>1. n \in Nat /\ MaxOpens \in Nat /\ n <= MaxOpens
    BY DEF MCP!MCPBounds
  <2>2. 1..n \subseteq MCP!Conns /\ (n # 0 => n \in 1..n)
    BY <2>1 DEF MCP!Conns
  <2> QED BY <1>1, <1>2, <2>1, <2>2
<1> QED BY <1>1, <1>2, <1>3 DEF MCP!EntrySound, MCP!Conns

LEMMA MCPDiscardMove ==
    ASSUME MCP!MCPBounds, MCP!MCPInv, NEW c \in Calls, call[c].pc \in MCP!Holding
           \/ mcp_lock = MCP!Free,
           NEW t \in MCP!CallRecords, call' = [call EXCEPT ![c] = t],
           t.pc \in {"drain", "undo", "invdrain"}, MCP!CallSound(t), mcp_lock' = c,
               MCP!BeginDiscard,
           UNCHANGED <<closer, catalog, faults>>
    PROVE  MCP!MCPInv'
<1>1. t.pc # "borrow" /\ t.pc # "opening"
  OBVIOUS
<1>2. /\ call' \in [Calls -> MCP!CallRecords] /\ MCP!LockOwned'
      /\ \A d \in Calls : call'[d].pc \in MCP!Holding => d = c
      /\ \A d \in Calls : MCP!CallSound(call[d])'
      /\ \A d \in Calls : call'[d].pc = "borrow" => call'[d].k = call[d].k /\ call[d].pc = "borrow"
      /\ call'[c] = t
  BY <1>1, MCPLockMove
<1>3. /\ MCP!EntrySound' /\ released' \subseteq MCP!Conns /\ client' = 0 /\ UNCHANGED <<owner,
                                                                                        conn>>
      /\ 0 \in 0..MaxOpens
  BY MCPDiscardEntry
<1>4. MCP!MCPTypes'
  BY <1>2, <1>3 DEF MCP!MCPInv, MCP!MCPTypes, MCP!Conns
<1>5. MCP!SessionSound'
  BY <1>1, <1>2, <1>3 DEF MCP!MCPInv, MCP!SessionSound, MCP!Conns, MCP!Holding
<1>6. MCP!LeaseIsOpen' /\ MCP!CloseIsFinal'
  BY <1>2, <1>3 DEF MCP!MCPInv, MCP!LeaseIsOpen, MCP!CloseIsFinal, MCP!Conns
<1> QED BY <1>2, <1>3, <1>4, <1>5, <1>6 DEF MCP!MCPInv

\* The lock is given back, with the entry gone or retained.
LEMMA MCPReleaseMove ==
    ASSUME MCP!MCPBounds, MCP!MCPInv, NEW c \in Calls, call[c].pc \in MCP!Holding,
           NEW t \in MCP!CallRecords, call' = [call EXCEPT ![c] = t],
           t.pc \notin MCP!Holding, t.pc # "borrow", MCP!CallSound(t),
           conn' = conn \/ (conn' = 0 /\ MCP!Discarded),
           UNCHANGED <<owner, released, client, closer, catalog, faults>>
    PROVE  MCP!MCPInv'
<1>1. /\ call' \in [Calls -> MCP!CallRecords] /\ MCP!LockOwned'
      /\ \A d \in Calls : call'[d].pc \in MCP!Holding => d = c
      /\ \A d \in Calls : MCP!CallSound(call[d])'
      /\ \A d \in Calls : call'[d].pc = "borrow" => call'[d].k = call[d].k /\ call[d].pc = "borrow"
      /\ call'[c] = t
  BY MCPLockMove
<1>2. client = 0 /\ 0 \in 0..MaxOpens
  BY DEF MCP!MCPInv, MCP!SessionSound, MCP!MCPBounds
<1>3. MCP!EntrySound'
  <2>1. PICK n \in 0..MaxOpens :
          /\ \A k \in MCP!Conns : owner[k] = "none" <=> k > n
          /\ conn \in {0, n} /\ released \subseteq 1..n
          /\ \A k \in MCP!Conns : owner[k] \in {"opening", "open", "broken"} => k = conn
    BY DEF MCP!MCPInv, MCP!EntrySound
  <2>2. conn' = 0 => \A k \in MCP!Conns : owner[k] \notin {"opening", "open", "broken"}
    BY <2>1 DEF MCP!Discarded, MCP!Conns
  <2> QED BY <2>1, <2>2 DEF MCP!EntrySound, MCP!Conns
<1>4. MCP!MCPTypes'
  BY <1>1, <1>2 DEF MCP!MCPInv, MCP!MCPTypes, MCP!Conns
<1>5. MCP!SessionSound'
  BY <1>1, <1>2 DEF MCP!MCPInv, MCP!SessionSound, MCP!Conns, MCP!Holding
<1>6. MCP!LeaseIsOpen' /\ MCP!CloseIsFinal'
  BY <1>1 DEF MCP!MCPInv, MCP!LeaseIsOpen, MCP!CloseIsFinal, MCP!Conns
<1> QED BY <1>1, <1>3, <1>4, <1>5, <1>6 DEF MCP!MCPInv

LEMMA MCPTakeLockStep ==
    ASSUME MCP!MCPBounds, MCP!MCPInv, NEW c \in Calls, MCP!TakeLock(c) \/ MCP!Invalidate(c)
    PROVE  MCP!MCPInv' /\ MCPCareful
<1>1. /\ MCP!MCPTypes /\ MCP!CallSound(call[c]) /\ call[c] \in MCP!CallRecords
      /\ call[c].pc \in {"lock", "inval"} /\ call[c].pc \notin MCP!Holding /\ mcp_lock = MCP!Free
      /\ UNCHANGED <<closer, catalog, faults>>
  BY DEF MCP!MCPInv, MCP!MCPTypes, MCP!TakeLock, MCP!Invalidate, MCP!Rest, MCP!Holding
<1>2. CASE MCP!Leave(c, "error") /\ UNCHANGED mcp_lock /\ MCP!Owned /\ MCP!Shared
  <2>1. UNCHANGED <<owner, released, conn, client, mcp_lock>>
    BY <1>2 DEF MCP!Owned, MCP!Shared
  <2> QED BY <1>1, <1>2, <2>1, MCPGiveUp
<1>3. CASE /\ call' = [call EXCEPT ![c].pc = "got", ![c].k = client] /\ call[c].pc = "lock"
           /\ UNCHANGED mcp_lock /\ MCP!Owned /\ MCP!Shared
  <2>1. PICK t : t = [call[c] EXCEPT !.pc = "got", !.k = client]
    OBVIOUS
  <2>2. call' = [call EXCEPT ![c] = t]
    BY <1>3, <2>1
  <2>3. client \in 0..MaxOpens
    BY <1>1 DEF MCP!MCPTypes
  <2>4. t \in MCP!CallRecords /\ t.pc = "got" /\ t.phase = call[c].phase
        /\ t.entered = call[c].entered
    BY <1>1, <2>1, <2>3 DEF MCP!CallRecords
  <2>5. MCP!CallSound(t)
    BY <1>1, <1>3, <2>4 DEF MCP!CallSound, MCP!Before
  <2>6. MCP!MCPInv'
    BY <1>1, <1>3, <2>2, <2>4, <2>5, MCPCatalog, MCPQuietMove DEF MCP!Holding, MCP!Owned,
       MCP!Shared
  <2>7. MCPCareful
    BY <1>1, <2>2, <2>4, MCPCareless
  <2> QED BY <2>6, <2>7
<1>4. ASSUME NEW p \in {"drain", "invdrain"}, MCP!Set(c, p), mcp_lock' = c, MCP!BeginDiscard,
             p = "drain" => call[c].pc = "lock", p = "invdrain" => call[c].pc = "inval"
      PROVE  MCP!MCPInv' /\ MCPCareful
  <2>1. PICK t : MCPMovedTo(c, t, p)
    BY <1>1, <1>4, MCPSetIs DEF MCPPlaces
  <2>2. MCP!CallSound(t)
    BY <1>1, <1>4, <2>1 DEF MCP!CallSound, MCPMovedTo, MCP!Before
  <2>3. MCP!MCPInv'
    BY <1>1, <1>4, <2>1, <2>2, MCPDiscardMove DEF MCPMovedTo
  <2>4. MCPCareful
    BY <1>1, <2>1, MCPCareless DEF MCPMovedTo
  <2> QED BY <2>3, <2>4
<1>5. CASE MCP!Set(c, "retry") /\ call[c].pc = "inval" /\ UNCHANGED mcp_lock /\ MCP!Owned
           /\ MCP!Shared
  <2>1. PICK t : MCPMovedTo(c, t, "retry")
    BY <1>1, <1>5, MCPSetIs DEF MCPPlaces
  <2>2. UNCHANGED <<owner, released, conn, client, mcp_lock>>
    BY <1>5 DEF MCP!Owned, MCP!Shared
  <2>3. call[c].phase = "tool" => call[c].then = "error"
    BY <1>1, <1>5 DEF MCP!CallSound
  <2> QED BY <1>1, <2>1, <2>2, <2>3, MCPCatalog, MCPQuietShift DEF MCPPlaces, MCP!Holding,
      MCP!Before
<1>6. CASE MCP!TakeLock(c)
  BY <1>2, <1>3, <1>4, <1>6 DEF MCP!TakeLock
<1>7. CASE MCP!Invalidate(c)
  BY <1>4, <1>5, <1>7 DEF MCP!Invalidate
<1> QED BY <1>6, <1>7

\* The steps that give the lock back without a session.
LEMMA MCPReleaseStep ==
    ASSUME MCP!MCPBounds, MCP!MCPInv, NEW c \in Calls,
           MCP!Unconnected(c) \/ MCP!Undone(c) \/ MCP!Unclosed(c) \/ MCP!Invalidated(c)
    PROVE  MCP!MCPInv' /\ MCPCareful
<1>1. /\ MCP!MCPTypes /\ MCP!CallSound(call[c]) /\ call[c] \in MCP!CallRecords
      /\ call[c].pc \in {"drain", "undo", "invdrain"} /\ call[c].pc \in MCP!Holding
      /\ UNCHANGED <<owner, released, client, closer, catalog, faults>>
      /\ conn' = conn \/ (conn' = 0 /\ MCP!Discarded)
  BY DEF MCP!MCPInv, MCP!MCPTypes, MCP!Unconnected, MCP!Undone, MCP!Unclosed, MCP!Invalidated,
     MCP!Rest, MCP!Owned, MCP!Shared, MCP!Holding
<1>2. ASSUME NEW p \in {"error", "retry"}, MCP!Leave(c, p) \/ MCP!Set(c, p),
             p = "retry" => call[c].pc = "invdrain"
      PROVE  MCP!MCPInv' /\ MCPCareful
  <2>1. PICK t : MCPMovedTo(c, t, p)
    BY <1>1, <1>2, MCPSetIs, MCPLeaveIs DEF MCPPlaces
  <2>2. MCP!CallSound(t)
    BY <1>1, <1>2, <2>1 DEF MCP!CallSound, MCPMovedTo, MCP!Before
  <2>3. MCP!MCPInv'
    BY <1>1, <1>2, <2>1, <2>2, MCPReleaseMove DEF MCPMovedTo, MCP!Holding
  <2>4. MCPCareful
    BY <1>1, <1>2, <2>1, MCPCareless DEF MCPMovedTo
  <2> QED BY <2>3, <2>4
<1>3. ASSUME call[c].pc = "undo", call' = [call EXCEPT ![c].pc = "get", ![c].tries = 1]
      PROVE  MCP!MCPInv' /\ MCPCareful
  <2>1. PICK t : t = [call[c] EXCEPT !.pc = "get", !.tries = 1]
    OBVIOUS
  <2>2. call' = [call EXCEPT ![c] = t]
    BY <1>3, <2>1
  <2>3. 1 \in 0..1
    OBVIOUS
  <2>4. t \in MCP!CallRecords /\ t.pc = "get" /\ t.phase = call[c].phase
        /\ t.entered = call[c].entered
    BY <1>1, <2>1, <2>3 DEF MCP!CallRecords
  <2>5. MCP!CallSound(t)
    BY <1>1, <1>3, <2>4 DEF MCP!CallSound, MCP!Before
  <2>6. MCP!MCPInv'
    BY <1>1, <2>2, <2>4, <2>5, MCPReleaseMove DEF MCP!Holding
  <2>7. MCPCareful
    BY <1>1, <2>2, <2>4, MCPCareless
  <2> QED BY <2>6, <2>7
<1>4. CASE MCP!Undone(c)
  BY <1>2, <1>3, <1>4 DEF MCP!Undone
<1> QED BY <1>2, <1>4 DEF MCP!Unconnected, MCP!Unclosed, MCP!Invalidated

\* Connections are taken in order.
LEMMA MCPNextIs ==
    ASSUME MCP!MCPBounds, NEW n \in 0..MaxOpens, \A k \in MCP!Conns : owner[k] = "none" <=> k > n,
           MCP!CanOpen
    PROVE  MCP!Next1 = n + 1 /\ n + 1 \in MCP!Conns /\ n + 1 \in 0..MaxOpens
<1>1. n \in Nat /\ MaxOpens \in Nat
  BY DEF MCP!MCPBounds
<1>2. PICK j \in MCP!Conns : j > n
  BY DEF MCP!CanOpen
<1>3. n + 1 \in MCP!Conns /\ n + 1 \in 0..MaxOpens
  BY <1>1, <1>2 DEF MCP!Conns
<1>4. \A k \in MCP!Conns : (owner[k] = "none"
      /\ \A i \in 1..(k - 1) : owner[i] # "none") <=> k = n + 1
  <2>1. ASSUME NEW k \in MCP!Conns
        PROVE  (owner[k] = "none" /\ \A i \in 1..(k - 1) : owner[i] # "none") <=> k = n + 1
    <3>1. k \in Nat /\ \A i \in 1..(k - 1) : i \in MCP!Conns
      BY <1>1 DEF MCP!Conns
    <3>2. CASE k = n + 1
      BY <1>1, <1>3, <3>1, <3>2
    <3>3. CASE k > n + 1
      <4>1. n + 1 \in 1..(k - 1) /\ owner[n + 1] = "none"
        BY <1>1, <1>3, <3>1, <3>3
      <4> QED BY <1>1, <3>1, <3>3, <4>1
    <3>4. CASE k <= n
      <4>1. owner[k] # "none"
        BY <1>1, <3>1, <3>4
      <4> QED BY <1>1, <3>1, <3>4, <4>1
    <3> QED BY <1>1, <3>1, <3>2, <3>3, <3>4
  <2> QED BY <2>1
<1> QED BY <1>3, <1>4 DEF MCP!Next1

LEMMA MCPConnectStep ==
    ASSUME MCP!MCPBounds, MCP!MCPInv, NEW c \in Calls, MCP!Connect(c)
    PROVE  MCP!MCPInv' /\ MCPCareful
<1>1. /\ MCP!MCPTypes /\ MCP!CallSound(call[c]) /\ call[c] \in MCP!CallRecords
      /\ call[c].pc = "drain" /\ call[c].pc \in MCP!Holding /\ MCP!Discarded /\ MCP!Usable
         /\ MCP!CanOpen
      /\ UNCHANGED <<released, client, mcp_lock, closer, catalog, faults>>
      /\ mcp_lock = c /\ client = 0
  BY DEF MCP!MCPInv, MCP!MCPTypes, MCP!Connect, MCP!Rest, MCP!Holding, MCP!LockOwned,
     MCP!SessionSound
<1>2. PICK t : MCPMovedTo(c, t, "opening")
  BY <1>1, MCPSetIs DEF MCP!Connect, MCPPlaces
<1>3. MCP!CallSound(t)
  BY <1>1, <1>2 DEF MCP!CallSound, MCPMovedTo, MCP!Before
<1>4. /\ call' \in [Calls -> MCP!CallRecords] /\ MCP!LockOwned'
      /\ \A d \in Calls : call'[d].pc \in MCP!Holding => d = c
      /\ \A d \in Calls : MCP!CallSound(call[d])'
      /\ \A d \in Calls : call'[d].pc = "borrow" => call'[d].k = call[d].k /\ call[d].pc = "borrow"
      /\ call'[c] = t /\ closer' # "drain"
  BY <1>1, <1>2, <1>3, MCPLockMove DEF MCPMovedTo
<1>5. PICK n \in 0..MaxOpens :
        /\ \A k \in MCP!Conns : owner[k] = "none" <=> k > n
        /\ conn \in {0, n} /\ released \subseteq 1..n
        /\ \A k \in MCP!Conns : owner[k] \in {"opening", "open", "broken"} => k = conn
  BY DEF MCP!MCPInv, MCP!EntrySound
<1>6. n \in Nat /\ MaxOpens \in Nat /\ MCP!Next1 = n + 1 /\ n + 1 \in MCP!Conns
      /\ n + 1 \in 0..MaxOpens
  BY <1>1, <1>5, MCPNextIs DEF MCP!MCPBounds
<1>7. \A k \in MCP!Conns : owner[k] \notin {"opening", "open", "broken"}
  BY <1>1, <1>5 DEF MCP!Discarded, MCP!Conns
<1>8. /\ conn' = n + 1 /\ owner' = [owner EXCEPT ![n + 1] = "opening"]
      /\ owner' \in [MCP!Conns -> {"none", "opening", "open", "closed", "broken"}]
      /\ \A k \in MCP!Conns : owner'[k] = IF k = n + 1 THEN "opening" ELSE owner[k]
  BY <1>1, <1>6 DEF MCP!Connect, MCP!MCPTypes
<1>9. MCP!EntrySound'
  <2>1. \A k \in MCP!Conns : k \in Nat
    BY DEF MCP!Conns
  <2>2. \A k \in MCP!Conns : owner'[k] = "none" <=> k > n + 1
    BY <1>5, <1>6, <1>8, <2>1
  <2>3. released' \subseteq 1..(n + 1) /\ conn' \in {0, n + 1}
    BY <1>1, <1>5, <1>6, <1>8
  <2>4. \A k \in MCP!Conns : owner'[k] \in {"opening", "open", "broken"} => k = conn'
    BY <1>7, <1>8
  <2> QED BY <1>6, <2>2, <2>3, <2>4 DEF MCP!EntrySound, MCP!Conns
<1>10. MCP!MCPTypes'
  BY <1>1, <1>4, <1>6, <1>8 DEF MCP!MCPTypes, MCP!Conns
<1>11. MCP!SessionSound'
  <2>1. conn' # 0 /\ conn' \notin released'
    BY <1>1, <1>5, <1>6, <1>8
  <2>2. \A k \in MCP!Conns : owner'[k] # "broken"
    BY <1>7, <1>8
  <2> QED BY <1>1, <1>4, <2>1, <2>2 DEF MCP!SessionSound, MCP!Conns
<1>12. MCP!LeaseIsOpen'
  <2>1. \A d \in Calls : call[d].pc = "borrow" => owner[call[d].k] = "open"
    BY DEF MCP!MCPInv, MCP!LeaseIsOpen
  <2>2. \A d \in Calls : call[d].k \in 0..MaxOpens
    BY <1>1 DEF MCP!MCPTypes, MCP!CallRecords
  <2>3. owner[n + 1] = "none"
    BY <1>5, <1>6
  <2>4. \A d \in Calls : call'[d].pc = "borrow" => owner'[call'[d].k] = "open"
    BY <1>4, <1>8, <2>1, <2>3, <1>1 DEF MCP!MCPTypes
  <2> QED BY <2>4 DEF MCP!LeaseIsOpen
<1>13. MCP!CloseIsFinal'
  BY <1>1 DEF MCP!CloseIsFinal, MCP!Usable, MCP!Closed
<1>14. MCPCareful
  BY <1>1, <1>2, MCPCareless DEF MCPMovedTo
<1> QED BY <1>4, <1>9, <1>10, <1>11, <1>12, <1>13, <1>14 DEF MCP!MCPInv

LEMMA MCPPublishStep ==
    ASSUME MCP!MCPBounds, MCP!MCPInv, NEW c \in Calls, MCP!Publish(c)
    PROVE  MCP!MCPInv' /\ MCPCareful
<1>1. /\ MCP!MCPTypes /\ MCP!CallSound(call[c]) /\ call[c] \in MCP!CallRecords
      /\ call[c].pc = "opening" /\ call[c].pc \in MCP!Holding /\ owner[conn] = "open"
      /\ UNCHANGED <<owner, released, conn, closer, catalog, faults>>
      /\ client' = conn /\ conn # 0 /\ conn \notin released /\ conn \in 0..MaxOpens
  BY DEF MCP!MCPInv, MCP!MCPTypes, MCP!Publish, MCP!Rest, MCP!Owned, MCP!Holding, MCP!SessionSound
<1>2. PICK t : t = [call[c] EXCEPT !.pc = "got", !.k = conn]
  OBVIOUS
<1>3. call' = [call EXCEPT ![c] = t]
  BY <1>2 DEF MCP!Publish
<1>4. t \in MCP!CallRecords /\ t.pc = "got" /\ t.phase = call[c].phase
      /\ t.entered = call[c].entered
  BY <1>1, <1>2 DEF MCP!CallRecords
<1>5. MCP!CallSound(t)
  BY <1>1, <1>4 DEF MCP!CallSound, MCP!Before
<1>6. /\ call' \in [Calls -> MCP!CallRecords] /\ MCP!LockOwned'
      /\ \A d \in Calls : call'[d].pc \in MCP!Holding => d = c
      /\ \A d \in Calls : MCP!CallSound(call[d])'
      /\ \A d \in Calls : call'[d].pc = "borrow" => call'[d].k = call[d].k /\ call[d].pc = "borrow"
      /\ call'[c] = t /\ closer' # "drain"
  BY <1>1, <1>3, <1>4, <1>5, MCPLockMove DEF MCP!Holding
<1>7. \A d \in Calls : call'[d].pc \notin MCP!Holding /\ call'[d].pc # "opening"
  BY <1>4, <1>6 DEF MCP!Holding
<1>8. MCP!MCPTypes' /\ MCP!EntrySound'
  BY <1>1, <1>6 DEF MCP!MCPInv, MCP!MCPTypes, MCP!EntrySound, MCP!Conns
<1>9. MCP!SessionSound'
  BY <1>1, <1>6, <1>7 DEF MCP!MCPInv, MCP!SessionSound, MCP!Conns
<1>10. MCP!LeaseIsOpen' /\ MCP!CloseIsFinal'
  BY <1>1, <1>6 DEF MCP!MCPInv, MCP!LeaseIsOpen, MCP!CloseIsFinal, MCP!Conns
<1>11. MCPCareful
  BY <1>1, <1>3, <1>4, MCPCareless
<1> QED BY <1>6, <1>8, <1>9, <1>10, <1>11 DEF MCP!MCPInv

LEMMA MCPUndoStep ==
    ASSUME MCP!MCPBounds, MCP!MCPInv, NEW c \in Calls, MCP!Undo(c)
    PROVE  MCP!MCPInv' /\ MCPCareful
<1>1. /\ MCP!MCPTypes /\ MCP!CallSound(call[c]) /\ call[c] \in MCP!CallRecords
      /\ call[c].pc = "opening" /\ call[c].pc \in MCP!Holding /\ mcp_lock = c /\ mcp_lock' = c
      /\ UNCHANGED <<closer, catalog, faults>> /\ MCP!BeginDiscard
  BY DEF MCP!MCPInv, MCP!MCPTypes, MCP!Undo, MCP!Rest, MCP!Holding, MCP!LockOwned
<1>2. PICK x \in {"get", "error"} : x = IF owner[conn] = "closed"
      /\ MCP!MayRetry(c) THEN "get" ELSE "error"
  OBVIOUS
<1>3. PICK t : t = [call[c] EXCEPT !.pc = "undo", !.then = x]
  OBVIOUS
<1>4. call' = [call EXCEPT ![c] = t]
  BY <1>2, <1>3 DEF MCP!Undo
<1>5. t \in MCP!CallRecords /\ t.pc = "undo" /\ t.phase = call[c].phase
      /\ t.entered = call[c].entered
  BY <1>1, <1>3 DEF MCP!CallRecords
<1>6. MCP!CallSound(t)
  BY <1>1, <1>5 DEF MCP!CallSound, MCP!Before
<1>7. MCP!MCPInv'
  BY <1>1, <1>4, <1>5, <1>6, MCPDiscardMove
<1>8. MCPCareful
  BY <1>1, <1>4, <1>5, MCPCareless
<1> QED BY <1>7, <1>8

-----------------------------------------------------------------------------
(* The owner task, close *)

LEMMA MCPOwnerStep ==
    ASSUME MCP!MCPInv, NEW k \in MCP!Conns, MCP!Ready(k) \/ MCP!FailOpen(k) \/ MCP!Exit(k)
    PROVE  MCP!MCPInv'
<1>1. /\ UNCHANGED <<released, conn, client, mcp_lock, call, catalog, closer>>
      /\ faults \subseteq faults' /\ MCP!MCPTypes /\ k \in MCP!Conns
  BY DEF MCP!MCPInv, MCP!Ready, MCP!FailOpen, MCP!Exit, MCP!Exited, MCP!Shared, MCP!Rest
<1>2. PICK x \in {"open", "closed", "broken"} :
        /\ owner' = [owner EXCEPT ![k] = x]
        /\ x = "open" => owner[k] = "opening"
        /\ x = "broken" => "cleanup" \in faults'
        /\ owner[k] = "open" => k \in released /\ \A c \in Calls : ~MCP!Borrows(c, k)
        /\ owner[k] \in {"opening", "open"}
  BY DEF MCP!Ready, MCP!FailOpen, MCP!Exit, MCP!Exited
<1>3. /\ owner' \in [MCP!Conns -> {"none", "opening", "open", "closed", "broken"}]
      /\ \A j \in MCP!Conns : owner'[j] = IF j = k THEN x ELSE owner[j]
  BY <1>1, <1>2 DEF MCP!MCPTypes
<1>4. MCP!MCPTypes' /\ MCP!LockOwned'
  BY <1>1, <1>3 DEF MCP!MCPInv, MCP!MCPTypes, MCP!LockOwned, MCP!Conns
<1>5. MCP!EntrySound'
  BY <1>1, <1>2, <1>3 DEF MCP!MCPInv, MCP!EntrySound, MCP!Conns
<1>6. MCP!SessionSound'
  <2>1. client # 0 => client # k /\ client \in MCP!Conns
    BY <1>1, <1>2 DEF MCP!MCPInv, MCP!SessionSound, MCP!MCPTypes, MCP!Conns
  <2>2. client # 0 => owner'[conn] = "open"
    BY <1>3, <2>1 DEF MCP!MCPInv, MCP!SessionSound
  <2> QED BY <1>1, <1>2, <1>3, <2>2 DEF MCP!MCPInv, MCP!SessionSound, MCP!Conns
<1>7. MCP!LeaseIsOpen'
  <2>1. ASSUME NEW c \in Calls, call[c].pc = "borrow" PROVE owner'[call[c].k] = "open"
    <3>1. owner[call[c].k] = "open"
      BY <2>1 DEF MCP!MCPInv, MCP!LeaseIsOpen
    <3>2. call[c].k # k
      BY <1>2, <2>1, <3>1 DEF MCP!Borrows
    <3> QED BY <1>1, <1>2, <3>1, <3>2 DEF MCP!MCPTypes
  <2> QED BY <1>1, <2>1 DEF MCP!LeaseIsOpen
<1>8. MCP!CloseIsFinal'
  BY <1>1, <1>2, <1>3 DEF MCP!MCPInv, MCP!CloseIsFinal, MCP!Conns
<1>9. \A c \in Calls : MCP!CallSound(call[c])'
  BY <1>1 DEF MCP!MCPInv, MCP!CallSound
<1> QED BY <1>4, <1>5, <1>6, <1>7, <1>8, <1>9 DEF MCP!MCPInv

LEMMA MCPCloseStep ==
    ASSUME MCP!MCPBounds, MCP!MCPInv, MCP!Close \/ MCP!CloseLock \/ MCP!CloseEnds
    PROVE  MCP!MCPInv'
<1>1. /\ UNCHANGED <<owner, call, catalog, faults>> /\ MCP!MCPTypes
      /\ \A c \in Calls : MCP!CallSound(call[c])'
  BY DEF MCP!MCPInv, MCP!Close, MCP!CloseLock, MCP!CloseEnds, MCP!BeginDiscard, MCP!Owned,
     MCP!Shared, MCP!CallSound
<1>2. MCP!LeaseIsOpen'
  BY <1>1 DEF MCP!MCPInv, MCP!LeaseIsOpen
<1>3. CASE MCP!Close
  <2>1. /\ UNCHANGED <<owner, released, conn, client, mcp_lock, call, catalog, faults>>
        /\ closer' = "lock"
    BY <1>3 DEF MCP!Close, MCP!Owned, MCP!Shared
  <2>2. MCP!MCPTypes' /\ MCP!LockOwned' /\ MCP!EntrySound' /\ MCP!SessionSound' /\ MCP!CloseIsFinal'
    BY <2>1 DEF MCP!MCPInv, MCP!MCPTypes, MCP!LockOwned, MCP!EntrySound, MCP!SessionSound,
       MCP!CloseIsFinal, MCP!Conns
  <2> QED BY <1>1, <1>2, <2>2 DEF MCP!MCPInv
<1>4. CASE MCP!CloseLock
  <2>1. mcp_lock = MCP!Free /\ mcp_lock' = MCP!Closer /\ closer' = "drain" /\ MCP!BeginDiscard
    BY <1>4 DEF MCP!CloseLock
  <2>2. \A c \in Calls : call[c].pc \notin MCP!Holding
    BY <2>1 DEF MCP!MCPInv, MCP!LockOwned, MCP!MCPBounds
  <2>3. /\ MCP!EntrySound' /\ released' \subseteq MCP!Conns /\ client' = 0 /\ UNCHANGED <<owner,
                                                                                          conn>>
        /\ 0 \in 0..MaxOpens
    BY <2>1, MCPDiscardEntry
  <2>4. MCP!MCPTypes' /\ MCP!LockOwned' /\ MCP!CloseIsFinal'
    BY <1>1, <2>1, <2>2, <2>3 DEF MCP!MCPTypes, MCP!LockOwned, MCP!CloseIsFinal, MCP!Conns
  <2>5. MCP!SessionSound'
    BY <1>1, <2>1, <2>2, <2>3 DEF MCP!MCPInv, MCP!SessionSound, MCP!Conns, MCP!Holding
  <2> QED BY <1>1, <1>2, <2>3, <2>4, <2>5 DEF MCP!MCPInv
<1>5. CASE MCP!CloseEnds
  <2>1. /\ closer = "drain" /\ mcp_lock' = MCP!Free /\ UNCHANGED <<owner, released, client>>
        /\ conn' = IF MCP!Discarded THEN 0 ELSE conn
        /\ closer' = IF MCP!Stuck \/ "cleanup" \in faults THEN "error" ELSE "done"
        /\ MCP!Discarded \/ MCP!Stuck
    BY <1>5 DEF MCP!CloseEnds, MCP!Owned
  <2>2. /\ \A c \in Calls : call[c].pc \notin MCP!Holding
        /\ mcp_lock = MCP!Closer /\ client = 0 /\ 0 \in 0..MaxOpens
    BY <2>1 DEF MCP!MCPInv, MCP!LockOwned, MCP!SessionSound, MCP!MCPBounds
  <2>3. MCP!Discarded => \A k \in MCP!Conns : owner[k] \notin {"opening", "open", "broken"}
    BY DEF MCP!MCPInv, MCP!EntrySound, MCP!Discarded, MCP!Conns
  <2>4. MCP!EntrySound'
    BY <1>1, <2>1, <2>3 DEF MCP!MCPInv, MCP!EntrySound, MCP!Conns
  <2>5. MCP!MCPTypes' /\ MCP!LockOwned'
    BY <1>1, <2>1, <2>2 DEF MCP!MCPTypes, MCP!LockOwned, MCP!Conns
  <2>6. MCP!SessionSound'
    BY <1>1, <2>1, <2>2 DEF MCP!MCPInv, MCP!SessionSound, MCP!Conns, MCP!Holding
  <2>7. MCP!CloseIsFinal'
    BY <1>1, <2>1, <2>3 DEF MCP!CloseIsFinal, MCP!MCPTypes, MCP!Conns, MCP!Stuck
  <2> QED BY <1>1, <1>2, <2>4, <2>5, <2>6, <2>7 DEF MCP!MCPInv
<1> QED BY <1>3, <1>4, <1>5

-----------------------------------------------------------------------------
(* Every step *)

LEMMA MCPInitInv == ASSUME MCP!MCPBounds, MCP!Init PROVE MCP!MCPInv
<1>1. 0 \in 0..MaxOpens /\ MaxOpens \in Nat
  BY DEF MCP!MCPBounds
<1>2. MCP!NoCall \in MCP!CallRecords /\ MCP!NoCall.pc = "idle" /\ MCP!NoCall.phase = "list"
      /\ MCP!NoCall.entered = 0
  BY <1>1 DEF MCP!NoCall, MCP!CallRecords
<1>3. MCP!MCPTypes /\ MCP!LockOwned
  BY <1>1, <1>2 DEF MCP!Init, MCP!MCPTypes, MCP!LockOwned, MCP!Holding
<1>4. MCP!EntrySound
  BY <1>1 DEF MCP!Init, MCP!EntrySound, MCP!Conns
<1>5. MCP!SessionSound /\ MCP!LeaseIsOpen /\ MCP!CloseIsFinal
      /\ \A c \in Calls : MCP!CallSound(call[c])
  BY <1>1, <1>2 DEF MCP!Init, MCP!SessionSound, MCP!LeaseIsOpen, MCP!CloseIsFinal, MCP!CallSound,
     MCP!Conns, MCP!Holding
<1> QED BY <1>3, <1>4, <1>5 DEF MCP!MCPInv

LEMMA MCPCallStays == ASSUME MCP!MCPInv, UNCHANGED call PROVE MCPCareful
<1>1. \A c \in Calls : call[c].entered \in Nat
  BY DEF MCP!MCPInv, MCP!MCPTypes, MCP!CallRecords
<1> QED BY <1>1 DEF MCPCareful

LEMMA MCPSteps == ASSUME MCP!MCPBounds, MCP!MCPInv, MCP!Next PROVE MCP!MCPInv' /\ MCPCareful
<1>1. ASSUME NEW k \in MCP!Conns, MCP!Ready(k) \/ MCP!FailOpen(k) \/ MCP!Exit(k)
             PROVE MCP!MCPInv' /\ MCPCareful
  <2>1. UNCHANGED call
    BY <1>1 DEF MCP!Ready, MCP!FailOpen, MCP!Exit
  <2> QED BY <1>1, <2>1, MCPOwnerStep, MCPCallStays
<1>2. ASSUME NEW c \in Calls,
             \/ MCP!List(c) \/ MCP!Listed(c) \/ MCP!Discover(c) \/ MCP!Authorise(c)
                \/ MCP!Get(c) \/ MCP!Queue(c) \/ MCP!Cancel(c)
             \/ MCP!Answer(c) \/ MCP!Borrow(c) \/ MCP!Return(c) \/ MCP!FailRead(c)
                \/ MCP!FailTool(c) \/ MCP!Retry(c)
      PROVE  MCP!MCPInv' /\ MCPCareful
  BY <1>2, MCPListStep, MCPGetStep, MCPBorrowStep, MCPFailStep, MCPRetryStep
<1>3. ASSUME NEW c \in Calls,
             \/ MCP!TakeLock(c) \/ MCP!Connect(c) \/ MCP!Unconnected(c) \/ MCP!Publish(c)
                \/ MCP!Undo(c) \/ MCP!Undone(c)
             \/ MCP!Unclosed(c) \/ MCP!Invalidate(c) \/ MCP!Invalidated(c)
      PROVE  MCP!MCPInv' /\ MCPCareful
  BY <1>3, MCPTakeLockStep, MCPConnectStep, MCPReleaseStep, MCPPublishStep, MCPUndoStep
<1>4. CASE MCP!Close \/ MCP!CloseLock \/ MCP!CloseEnds
  <2>1. UNCHANGED call
    BY <1>4 DEF MCP!Close, MCP!CloseLock, MCP!CloseEnds
  <2> QED BY <1>4, <2>1, MCPCloseStep, MCPCallStays
<1> QED BY <1>1, <1>2, <1>3, <1>4 DEF MCP!Next

LEMMA MCPRests == ASSUME MCP!MCPInv, UNCHANGED MCP!vars PROVE MCP!MCPInv'
BY DEF MCP!vars, MCP!MCPInv, MCP!MCPTypes, MCP!LockOwned, MCP!EntrySound, MCP!SessionSound,
   MCP!LeaseIsOpen, MCP!CloseIsFinal, MCP!CallSound, MCP!Conns, MCP!Holding

LEMMA MCPNextStep == ASSUME MCP!MCPBounds, MCP!MCPInv, [MCP!Next]_(MCP!vars) PROVE MCP!MCPInv'
BY MCPSteps, MCPRests

LEMMA MCPCarefulStep ==
    MCP!MCPBounds /\ MCP!MCPInv /\ [MCP!Next]_(MCP!vars) =>
        [\A c \in Calls :
            /\ call'[c].entered > call[c].entered =>
                  /\ call'[c].entered = 1
                  /\ call[c].source = client /\ call[c].source = call[c].k
                  /\ catalog.available /\ catalog.version = call[c].version
                  /\ "execution" \notin faults
            /\ "execution" \in faults /\ call'[c].pc = "done" => call[c].pc = "done"]_(MCP!vars)
BY MCPSteps DEF MCPCareful

LEMMA MCPOwnedByOne == ASSUME MCP!MCPBounds, MCP!MCPInv PROVE MCP!ConnectionsOwned
<1>1. PICK n \in 0..MaxOpens :
        /\ \A k \in MCP!Conns : owner[k] = "none" <=> k > n
        /\ conn \in {0, n}
        /\ \A k \in MCP!Conns : owner[k] \in {"opening", "open", "broken"} => k = conn
  BY DEF MCP!MCPInv, MCP!EntrySound
<1>2. {k \in MCP!Conns : owner[k] \in {"opening", "open"}} \in {{}, {conn}}
  BY <1>1
<1>3. MCP!Cardinality({k \in MCP!Conns : owner[k] \in {"opening", "open"}}) <= 1
  <2>1. PICK x : x = conn
    OBVIOUS
  <2>2. MCP!Cardinality({}) = 0 /\ MCP!Cardinality({x}) = 1
    BY FS_EmptySet, MCPFinite, FS_Singleton, MCPFinite
  <2> QED BY <1>2, <2>1, <2>2
<1>4. \A k \in MCP!Conns : owner[k] = "broken" => \A j \in MCP!Conns : j > k => owner[j] = "none"
  BY <1>1 DEF MCP!Conns
<1> QED BY <1>3, <1>4 DEF MCP!ConnectionsOwned, MCP!OneConnection, MCP!MCPInv

-----------------------------------------------------------------------------
(* The components in their sum *)

LEMMA ChildMoves == [SumNext]_allVars => [Next]_vars
BY DEF SumNext, allVars

LEMMA StreamMoves == [SumNext]_allVars => [Stream!Next]_(Stream!vars)
BY DEF SumNext, allVars, streamVars, Stream!vars

LEMMA MCPMoves == [SumNext]_allVars => [MCP!Next]_(MCP!vars)
BY DEF SumNext, allVars, mcpVars, MCP!vars

\* An operation writes the row of its own generation unless a request that named none has
\* claimed the next one, and a row that says queued or running is somebody's to settle
\* (async_subagents.py).
THEOREM RowsHold == SumSpec => []RowsBelong
<1>1. SumInit => SubagentsInv
  BY ChildInitInv DEF SumInit
<1>2. SubagentsInv /\ [Next]_vars => SubagentsInv'
  BY ChildNextStep
<1> QED BY <1>1, <1>2, ChildBelonging, ChildMoves, PTL DEF SumSpec

\* The window shows a prefix of the events of its run, without gaps and in order,
\* whatever a stream, a query or their failure brings (api/sse.py).
THEOREM ViewHolds == SumSpec => []ViewIsPrefix
<1>1. SumInit /\ Stream!StreamBounds => Stream!StreamInv
  BY StreamInitInv DEF SumInit
<1>2. Stream!StreamBounds
  BY ObserversAssumption
<1>3. Stream!StreamInv => ViewIsPrefix
  BY StreamIsPrefix DEF ViewIsPrefix
<1>4. Stream!StreamInv /\ [Stream!Next]_(Stream!vars) => Stream!StreamInv'
  BY <1>2, StreamNextStep
<1> QED BY <1>1, <1>2, <1>3, <1>4, StreamMoves, PTL DEF SumSpec

\* A connection of a tool server is entered and left by its owner alone, one at a time,
\* never under a borrower, and none is open after a close (client_manager.py).
THEOREM ConnectionsHold == SumSpec => []ConnectionsOwned
<1>1. MCP!MCPBounds
  BY ObserversAssumption
<1>2. SumInit => MCP!MCPInv
  BY <1>1, MCPInitInv DEF SumInit
<1>3. MCP!MCPInv => ConnectionsOwned
  BY <1>1, MCPOwnedByOne DEF ConnectionsOwned
<1>4. MCP!MCPInv /\ [MCP!Next]_(MCP!vars) => MCP!MCPInv'
  BY <1>1, MCPNextStep
<1> QED BY <1>2, <1>3, <1>4, MCPMoves, PTL DEF SumSpec

\* A tool is entered once, on the session and the discovery it was authorised on, and
\* after an unknown outcome none is and none succeeds (client_manager.py).
THEOREM ToolsEnterOnce == SumSpec => ToolEntersOnce
<1>1. MCP!MCPBounds
  BY ObserversAssumption
<1>2. SumInit => MCP!MCPInv
  BY <1>1, MCPInitInv DEF SumInit
<1>3. MCP!MCPInv /\ [MCP!Next]_(MCP!vars) => MCP!MCPInv'
  BY <1>1, MCPNextStep
<1>4. MCP!MCPInv /\ [MCP!Next]_(MCP!vars) =>
         [\A c \in Calls :
             /\ call'[c].entered > call[c].entered =>
                   /\ call'[c].entered = 1
                   /\ call[c].source = client /\ call[c].source = call[c].k
                   /\ catalog.available /\ catalog.version = call[c].version
                   /\ "execution" \notin faults
             /\ "execution" \in faults /\ call'[c].pc = "done" => call[c].pc = "done"]_(MCP!vars)
  BY <1>1, MCPCarefulStep
<1> QED BY <1>2, <1>3, <1>4, MCPMoves, PTL DEF SumSpec, ToolEntersOnce, MCP!ToolEntersOnce
=============================================================================
