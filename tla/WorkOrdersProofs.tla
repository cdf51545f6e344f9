--------------------------- MODULE WorkOrdersProofs ---------------------------
(***************************************************************************)
(* What holds of a work order for any tasks, plans and number of attempts.   *)
(*                                                                           *)
(* OrdersInv: an attempt whose intent was abandoned never has a run.  The    *)
(* rows change by transactions that first read the runs back; the first      *)
(* lemmas say what each of them makes of sound rows, the rest follow the     *)
(* operations.                                                               *)
(*                                                                           *)
(* SerialInv: one attempt at most is awaited or engaged, and what the rows   *)
(* say of the tasks is true of the runs.  From it, every step is one of      *)
(* SerialPlan or leaves all that SerialPlan reads alone.                     *)
(***************************************************************************)
EXTENDS WorkOrders, FiniteSetTheorems, TLAPS

LEMMA AttemptShape ==
    ASSUME NEW a \in Attempt
    PROVE  /\ a[1] \in Tasks /\ a[2] \in 1..MaxAttempts /\ a = <<a[1], a[2]>>
           /\ MaxAttempts \in Nat \ {0}
BY WorkOrdersAssumption DEF Attempt

LEMMA NumberIs ==
    ASSUME NEW d, NEW t, NEW k \in 0..MaxAttempts,
           \A n \in 1..MaxAttempts : d.attempt[<<t, n>>] # "none" <=> n <= k
    PROVE  Number(d, t) = k
<1>1. {n \in 1..MaxAttempts : d.attempt[<<t, n>>] # "none"} = 1..k
  BY WorkOrdersAssumption
<1>2. Cardinality(1..k) = k
  BY FS_Interval, WorkOrdersAssumption
<1> QED BY <1>1, <1>2 DEF Number

-----------------------------------------------------------------------------
(* The transactions.                                                       *)

\* _refresh_order blocks pending tasks and sets the order's status.
LEMMA RefreshKeeps ==
    ASSUME NEW d \in Rows
    PROVE  /\ Refresh(d) \in Rows
           /\ Refresh(d).attempt = d.attempt /\ Refresh(d).intent = d.intent
           /\ Refresh(d).plan = d.plan /\ Refresh(d).retry = d.retry
           /\ \A t \in Tasks : \/ Refresh(d).task[t] = d.task[t]
                               \/ d.task[t] = "pending" /\ Refresh(d).task[t] = "blocked"
           /\ \/ Refresh(d).order = d.order
              \/ /\ d.order \notin {"draft", "cancelled"} /\ Refresh(d).order = "succeeded"
                 /\ \A t \in DOMAIN d.plan : Refresh(d).task[t] = "succeeded"
              \/ /\ d.order \notin {"draft", "cancelled", "paused"} /\ Refresh(d).order = "failed"
                 /\ \E t \in DOMAIN d.plan : Refresh(d).task[t] # "succeeded"
<1> DEFINE blocked(t) == /\ d.task[t] = "pending"
                         /\ \E u \in Above(d.plan)[t] :
                               d.task[u] \in {"failed", "cancelled", "blocked"}
           task == [t \in Tasks |-> IF blocked(t) THEN "blocked" ELSE d.task[t]]
           all  == \A t \in DOMAIN d.plan : task[t] = "succeeded"
           some == \E t \in DOMAIN d.plan : task[t] \in {"failed", "cancelled"}
           order == CASE d.order \in {"draft", "cancelled"} -> d.order
                      [] all /\ d.order \notin {"draft", "cancelled"} -> "succeeded"
                      [] ~all /\ some /\ d.order \notin {"draft", "cancelled", "paused"} -> "failed"
                      [] OTHER -> d.order
<1>1. Refresh(d) = [d EXCEPT !.task = task, !.order = order]
  BY Zenon DEF Refresh
<1>2. task \in [Tasks -> {"absent", "pending", "dispatching", "running", "awaiting_approval",
                          "succeeded", "failed", "cancelled", "blocked"}]
  <2> HIDE DEF blocked
  <2> QED BY DEF Rows
<1>3. \A t \in Tasks : task[t] = d.task[t] \/ (d.task[t] = "pending" /\ task[t] = "blocked")
  <2>1. \A t \in Tasks : blocked(t) => d.task[t] = "pending"
    OBVIOUS
  <2> HIDE DEF blocked
  <2> QED BY <2>1
<1>5. /\ all => \A t \in DOMAIN d.plan : task[t] = "succeeded"
      /\ ~all => \E t \in DOMAIN d.plan : task[t] # "succeeded"
  BY DEF all
<1> HIDE DEF task, all, some
<1>6. \/ order = d.order
      \/ d.order \notin {"draft", "cancelled"} /\ order = "succeeded" /\ all
      \/ d.order \notin {"draft", "cancelled", "paused"} /\ order = "failed" /\ ~all
  OBVIOUS
<1>4. order \in {"draft", "queued", "running", "paused", "succeeded", "failed", "cancelled"}
  <2>1. d.order \in {"draft", "queued", "running", "paused", "succeeded", "failed", "cancelled"}
    BY DEF Rows
  <2> QED BY <2>1
<1> HIDE DEF order
<1>7. /\ Refresh(d) \in Rows /\ Refresh(d).task = task /\ Refresh(d).order = order
      /\ Refresh(d).attempt = d.attempt /\ Refresh(d).intent = d.intent
      /\ Refresh(d).plan = d.plan /\ Refresh(d).retry = d.retry
  BY <1>1, <1>2, <1>4 DEF Rows
<1> QED BY <1>3, <1>5, <1>6, <1>7

LEMMA RefreshSound ==
    ASSUME NEW d \in Rows, RowsSound(d)
    PROVE  RowsSound(Refresh(d))
BY RefreshKeeps DEF RowsSound, InARow

\* What a run makes of its attempt is a state an attempt may have.
LEMMA ObservedIs ==
    ASSUME Shapes, NEW a \in Accepted
    PROVE  /\ Observed(a) \in AttemptStates \ {"none"}
           /\ Shown(Observed(a)) \in {"dispatching", "running", "awaiting_approval", "succeeded",
                                       "failed", "cancelled"}
<1>1. /\ a \in Attempt /\ lease[a] \in BOOLEAN
      /\ run[a] \in Over \cup {"queued", "running", "interrupted"}
  BY DEF Shapes, TypeOK, Accepted
<1> QED BY <1>1 DEF Observed, Shown, AttemptStates, Holding, Over

\* _sync writes what the runs say before the order is refreshed.
LEMMA SyncReads ==
    ASSUME Shapes, RowsSound(db), RunsKnown(db)
    PROVE  \E e \in Rows :
              /\ Sync(db) = Refresh(e) /\ RowsSound(e) /\ e.order = db.order /\ e.plan = db.plan
              /\ \A a \in Attempt : e.attempt[a] = IF a \in Accepted THEN Observed(a)
                                                  ELSE db.attempt[a]
              /\ \A a \in Attempt : e.intent[a] = IF a \in Accepted THEN "admitted"
                                                 ELSE db.intent[a]
              /\ \A a \in Attempt : e.attempt[a] = "none" <=> db.attempt[a] = "none"
              /\ \A t \in Tasks : \/ e.task[t] = db.task[t]
                                  \/ /\ Latest(db, t) \in Accepted
                                     /\ e.task[t] = Shown(Observed(Latest(db, t)))
<1> DEFINE attempt == [a \in Attempt |-> IF a \in Accepted THEN Observed(a) ELSE db.attempt[a]]
           intent == [a \in Attempt |-> IF a \in Accepted THEN "admitted" ELSE db.intent[a]]
           task == [t \in Tasks |-> IF Latest(db, t) \in Accepted
                                    THEN SetTask(db, t, Shown(Observed(Latest(db, t))))
                                    ELSE db.task[t]]
           d == [db EXCEPT !.attempt = attempt, !.intent = intent, !.task = task]
<1>1. db \in Rows
  BY DEF Shapes
<1>2. attempt \in [Attempt -> AttemptStates]
  BY <1>1, ObservedIs DEF Rows
<1>3. intent \in [Attempt -> {"none", "pending", "admitted", "abandoned"}]
  BY <1>1 DEF Rows
<1>4. \A t \in Tasks : \/ task[t] = db.task[t]
                       \/ task[t] \in {"dispatching", "running", "awaiting_approval", "succeeded",
                                       "failed", "cancelled"}
  BY ObservedIs DEF SetTask
<1>5. task \in [Tasks -> {"absent", "pending", "dispatching", "running", "awaiting_approval",
                          "succeeded", "failed", "cancelled", "blocked"}]
  <2>1. \A t \in Tasks : db.task[t] \in {"absent", "pending", "dispatching", "running",
                            "awaiting_approval", "succeeded", "failed", "cancelled", "blocked"}
    BY <1>1 DEF Rows
  <2>2. task = [t \in Tasks |-> task[t]]
    OBVIOUS
  <2> HIDE DEF task
  <2> QED BY <1>4, <2>1, <2>2
<1>6. \A a \in Attempt : attempt[a] = "none" <=> db.attempt[a] = "none"
  <2>1. \A a \in Accepted : db.attempt[a] # "none"
    BY DEF RunsKnown, RowsSound, Accepted
  <2> QED BY <2>1, ObservedIs
<1>7. \A a \in Attempt : intent[a] = "none" <=> db.intent[a] = "none"
  BY DEF RunsKnown
<1>8. Sync(db) = Refresh(d)
  BY Zenon DEF Sync
<1>12. \A t \in Tasks : \/ task[t] = db.task[t]
                        \/ /\ Latest(db, t) \in Accepted
                           /\ task[t] = Shown(Observed(Latest(db, t)))
  BY DEF SetTask
<1> HIDE DEF attempt, task
<1>9. /\ d \in Rows /\ d.attempt = attempt /\ d.intent = intent /\ d.task = task
      /\ d.order = db.order /\ d.plan = db.plan
  BY <1>1, <1>2, <1>3, <1>5 DEF Rows
<1>10. RowsSound(d)
  <2>1. \A t \in Tasks : \A n \in 1..MaxAttempts : <<t, n>> \in Attempt
    BY DEF Attempt
  <2>2. \A t \in Tasks : InARow(d, t)
    BY <1>6, <1>9, <2>1 DEF RowsSound, InARow
  <2>3. \A t \in Tasks : <<t, MaxAttempts>> \in Attempt
    BY WorkOrdersAssumption DEF Attempt
  <2>4. \A t \in Tasks : d.task[t] \in {"pending", "blocked"} =>
                         d.attempt[<<t, MaxAttempts>>] = "none"
    BY <1>4, <1>6, <1>9, <2>3 DEF RowsSound
  <2>5. \A a \in Attempt : d.attempt[a] = "none" <=> d.intent[a] = "none"
    BY <1>6, <1>7, <1>9 DEF RowsSound
  <2> HIDE DEF d
  <2> QED BY <2>2, <2>4, <2>5 DEF RowsSound
<1> HIDE DEF d
<1> QED BY <1>6, <1>8, <1>9, <1>10, <1>12 DEF attempt

\* _sync admits what has a run and leaves the rest of the attempts alone.
LEMMA SyncKeeps ==
    ASSUME Shapes, RowsSound(db), RunsKnown(db)
    PROVE  /\ Sync(db) \in Rows /\ RowsSound(Sync(db))
           /\ \A a \in Attempt : Sync(db).intent[a] =
                                   IF a \in Accepted THEN "admitted" ELSE db.intent[a]
BY SyncReads, RefreshKeeps, RefreshSound

\* reserve_next: the next attempt of a task that is ready.
LEMMA ReservedKeeps ==
    ASSUME NEW d \in Rows, RowsSound(d), NEW t \in Ready(d)
    PROVE  /\ Reserved(d, t) \in Rows /\ RowsSound(Reserved(d, t))
           /\ Latest(Reserved(d, t), t) \in Attempt
           /\ d.attempt[Latest(Reserved(d, t), t)] = "none"
           /\ Number(Reserved(d, t), t) = Number(d, t) + 1
           /\ Reserved(d, t).order = "running" /\ Reserved(d, t).plan = d.plan
           /\ Reserved(d, t).task = [d.task EXCEPT ![t] = "dispatching"]
           /\ Reserved(d, t).attempt = [d.attempt EXCEPT ![Latest(Reserved(d, t), t)] = "reserved"]
           /\ Reserved(d, t).intent = [d.intent EXCEPT ![Latest(Reserved(d, t), t)] = "pending"]
<1>1. t \in Tasks /\ d.task[t] = "pending"
  BY WorkOrdersAssumption DEF Ready, Rows
<1>2. PICK k \in 0..MaxAttempts :
        \A n \in 1..MaxAttempts : d.attempt[<<t, n>>] # "none" <=> n <= k
  BY <1>1 DEF RowsSound, InARow
<1>3. k \in 0..(MaxAttempts - 1)
  <2>1. d.attempt[<<t, MaxAttempts>>] = "none"
    BY <1>1 DEF RowsSound
  <2>2. MaxAttempts \in 1..MaxAttempts
    BY WorkOrdersAssumption
  <2>3. ~(MaxAttempts <= k)
    BY <1>2, <2>1, <2>2
  <2> QED BY <2>3, WorkOrdersAssumption
<1> DEFINE a == <<t, k + 1>>
           e == Reserved(d, t)
<1>4. a \in Attempt /\ d.attempt[a] = "none"
  BY <1>1, <1>2, <1>3, WorkOrdersAssumption DEF Attempt
<1>5. Number(d, t) = k
  BY <1>2, NumberIs
<1>6. e = [d EXCEPT !.attempt[a] = "reserved", !.intent[a] = "pending",
                    !.task[t] = "dispatching", !.retry[t] = FALSE, !.order = "running"]
  BY <1>5 DEF Reserved
<1> HIDE DEF a
<1>7. /\ e.attempt = [d.attempt EXCEPT ![a] = "reserved"]
      /\ e.intent = [d.intent EXCEPT ![a] = "pending"]
      /\ e.task = [d.task EXCEPT ![t] = "dispatching"]
      /\ e.order = "running" /\ e.plan = d.plan
      /\ e \in Rows
  <2>1. /\ [d.attempt EXCEPT ![a] = "reserved"] \in [Attempt -> AttemptStates]
        /\ [d.intent EXCEPT ![a] = "pending"]
              \in [Attempt -> {"none", "pending", "admitted", "abandoned"}]
    BY DEF Rows, AttemptStates, Holding
  <2>2. /\ [d.task EXCEPT ![t] = "dispatching"]
              \in [Tasks -> {"absent", "pending", "dispatching", "running", "awaiting_approval",
                            "succeeded", "failed", "cancelled", "blocked"}]
        /\ [d.retry EXCEPT ![t] = FALSE] \in [Tasks -> BOOLEAN]
    BY DEF Rows
  <2>3. e = [d EXCEPT !.attempt = [d.attempt EXCEPT ![a] = "reserved"],
                      !.intent = [d.intent EXCEPT ![a] = "pending"],
                      !.task = [d.task EXCEPT ![t] = "dispatching"],
                      !.retry = [d.retry EXCEPT ![t] = FALSE], !.order = "running"]
    BY <1>6 DEF Rows
  <2> HIDE DEF e
  <2> QED BY <2>1, <2>2, <2>3 DEF Rows
<1> HIDE DEF e
<1>8. \A n \in 1..MaxAttempts : e.attempt[<<t, n>>] # "none" <=> n <= k + 1
  <2> SUFFICES ASSUME NEW n \in 1..MaxAttempts
               PROVE  e.attempt[<<t, n>>] # "none" <=> n <= k + 1
    OBVIOUS
  <2>1. <<t, n>> \in Attempt
    BY <1>1 DEF Attempt
  <2>2. e.attempt[<<t, n>>] = IF <<t, n>> = a THEN "reserved" ELSE d.attempt[<<t, n>>]
    BY <1>7, <2>1 DEF Rows
  <2>3. <<t, n>> = a <=> n = k + 1
    BY DEF a
  <2> QED BY <1>2, <1>3, <2>2, <2>3, WorkOrdersAssumption
<1>9. Number(e, t) = k + 1
  BY <1>3, <1>8, NumberIs, WorkOrdersAssumption
<1>11. Latest(e, t) = a
  BY <1>9 DEF Latest, a
<1>10. RowsSound(e)
  <2>1. ASSUME NEW u \in Tasks PROVE InARow(e, u)
    <3>1. CASE u = t
      <4>1. k + 1 \in 0..MaxAttempts
        BY <1>3, WorkOrdersAssumption
      <4> QED BY <1>8, <3>1, <4>1 DEF InARow
    <3>2. CASE u # t
      <4>1. \A n \in 1..MaxAttempts : e.attempt[<<u, n>>] = d.attempt[<<u, n>>]
        <5>1. \A n \in 1..MaxAttempts : <<u, n>> \in Attempt /\ <<u, n>> # a
          BY <3>2 DEF Attempt, a
        <5> QED BY <1>7, <5>1 DEF Rows
      <4> QED BY <4>1 DEF RowsSound, InARow
    <3> QED BY <3>1, <3>2
  <2>2. ASSUME NEW u \in Tasks, e.task[u] \in {"pending", "blocked"}
        PROVE  e.attempt[<<u, MaxAttempts>>] = "none"
    <3>1. u # t /\ d.task[u] \in {"pending", "blocked"}
      BY <1>1, <1>7, <2>2 DEF Rows
    <3>2. <<u, MaxAttempts>> \in Attempt /\ <<u, MaxAttempts>> # a
      BY <3>1, WorkOrdersAssumption DEF Attempt, a
    <3> QED BY <1>7, <3>1, <3>2 DEF RowsSound, Rows
  <2>3. \A b \in Attempt : e.attempt[b] = "none" <=> e.intent[b] = "none"
    BY <1>4, <1>7 DEF RowsSound, Rows
  <2> QED BY <2>1, <2>2, <2>3 DEF RowsSound
<1> QED BY <1>4, <1>5, <1>7, <1>9, <1>10, <1>11 DEF e

\* abandon_unaccepted: the attempt is over, its intent gone.
LEMMA AbandonedKeeps ==
    ASSUME NEW d \in Rows, RowsSound(d), NEW a \in Attempt, d.intent[a] # "none"
    PROVE  /\ Abandoned(d, a) \in Rows /\ RowsSound(Abandoned(d, a))
           /\ Abandoned(d, a).intent = [d.intent EXCEPT ![a] = "abandoned"]
<1> DEFINE outcome == IF d.order = "cancelled" THEN "cancelled" ELSE "failed"
           state == SetTask(d, a[1], outcome)
           e == [d EXCEPT !.intent[a] = "abandoned", !.attempt[a] = outcome, !.task[a[1]] = state]
<1>1. Abandoned(d, a) = Refresh(e)
  BY DEF Abandoned
<1>2. a[1] \in Tasks /\ outcome \in {"cancelled", "failed"}
  BY AttemptShape
<1>3. state \in {d.task[a[1]], "cancelled", "failed"}
  BY DEF SetTask
<1> HIDE DEF outcome, state
<1>4. /\ e.intent = [d.intent EXCEPT ![a] = "abandoned"]
      /\ e.attempt = [d.attempt EXCEPT ![a] = outcome]
      /\ e.task = [d.task EXCEPT ![a[1]] = state]
      /\ e \in Rows
  BY <1>2, <1>3 DEF Rows, AttemptStates
<1> HIDE DEF e
<1>5. \A b \in Attempt : e.attempt[b] = "none" <=> d.attempt[b] = "none"
  BY <1>2, <1>4 DEF Rows, RowsSound
<1>6. RowsSound(e)
  <2>1. \A t \in Tasks : \A n \in 1..MaxAttempts : <<t, n>> \in Attempt
    BY DEF Attempt
  <2>2. \A t \in Tasks : InARow(e, t)
    BY <1>5, <2>1 DEF RowsSound, InARow
  <2>3. \A t \in Tasks : <<t, MaxAttempts>> \in Attempt
    BY WorkOrdersAssumption DEF Attempt
  <2>4. \A t \in Tasks : e.task[t] \in {"pending", "blocked"} =>
                         d.task[t] \in {"pending", "blocked"}
    BY <1>2, <1>3, <1>4 DEF Rows
  <2>5. \A b \in Attempt : e.attempt[b] = "none" <=> e.intent[b] = "none"
    BY <1>4, <1>5 DEF Rows, RowsSound
  <2> QED BY <1>5, <2>2, <2>3, <2>4, <2>5 DEF RowsSound
<1> QED BY <1>1, <1>4, <1>6, RefreshKeeps, RefreshSound

-----------------------------------------------------------------------------
(* The steps.                                                              *)

\* What the columns of a run hold.
RunStates == Over \cup {"none", "queued", "running", "interrupted"}

RunsTyped == /\ run \in [Attempt -> RunStates]
             /\ lease \in [Attempt -> BOOLEAN] /\ flag \in [Attempt -> BOOLEAN]

\* What every step may assume.
Standing ==
    /\ open \in BOOLEAN /\ events \in 0..MaxEvents /\ db \in Rows /\ RowsSound(db) /\ RunsTyped
    /\ \A a \in Attempt : run[a] # "none" => db.intent[a] \in {"pending", "admitted"}
    /\ op \in Operations /\ OperationSound

LEMMA InvStands == OrdersInv => Standing
BY DEF OrdersInv, Shapes, TypeOK, RunStates, RunsTyped, RunsKnown, Accepted, Standing

LEMMA InitInv == Init => OrdersInv
<1> SUFFICES ASSUME Init PROVE OrdersInv
  OBVIOUS
<1>1. db \in Rows
  BY DEF Init, Rows, AttemptStates
<1>2. op \in Operations
  BY DEF Init, Operations, Idle
<1>3. Shapes
  BY <1>1, <1>2, WorkOrdersAssumption DEF Shapes, TypeOK, Init, Rows, AttemptStates, Idle
<1>4. \A t \in Tasks : \A n \in 1..MaxAttempts : db.attempt[<<t, n>>] = "none"
  BY DEF Init, Attempt
<1>5. \A t \in Tasks : InARow(db, t)
  <2>1. 0 \in 0..MaxAttempts /\ \A n \in 1..MaxAttempts : ~(n <= 0)
    BY WorkOrdersAssumption
  <2> QED BY <1>4, <2>1 DEF InARow
<1>6. RowsSound(db)
  BY <1>4, <1>5, WorkOrdersAssumption DEF RowsSound, Init
<1> QED BY <1>3, <1>6 DEF OrdersInv, RunsKnown, OperationSound, Init, Accepted, Idle

\* What a step has to leave behind.
LEMMA StepKeeps ==
    ASSUME OrdersInv, db' \in Rows, RowsSound(db'), op' \in Operations,
           RunsTyped',
           open' \in BOOLEAN, events' \in 0..MaxEvents,
           \A a \in Attempt : run'[a] # "none" => db'.intent[a] \in {"pending", "admitted"},
           OperationSound'
    PROVE  OrdersInv'
<1>1. op'.pc \in {"idle", "admit", "create", "verify", "settle", "error", "stop", "recover",
                  "closed"}
  BY DEF Operations
<1>2. TypeOK'
  BY <1>1 DEF TypeOK, Rows, RunStates, RunsTyped, AttemptStates
<1>3. RunsKnown(db)'
  BY DEF RunsKnown, Accepted
<1> QED BY <1>2, <1>3 DEF OrdersInv, Shapes

\* A transaction changes rows and goes on: no run is created or ends by it.
LEMMA RowsKeep ==
    ASSUME OrdersInv, UNCHANGED <<run, lease, flag>>, open' \in BOOLEAN, events' \in 0..MaxEvents,
           db' \in Rows, RowsSound(db'), op' \in Operations, op'.pc # "create",
           \/ db'.intent = db.intent /\ op'.pc # "stop"
           \/ \A a \in Attempt : /\ a \in Accepted => db'.intent[a] = "admitted"
                                 /\ a \notin Accepted => run[a] = "none"
    PROVE  OrdersInv'
<1>1. \A a \in Attempt : run'[a] # "none" => db'.intent[a] \in {"pending", "admitted"}
  <2>1. run' = run
    OBVIOUS
  <2>2. \A a \in Attempt : run[a] # "none" => db.intent[a] \in {"pending", "admitted"}
    BY DEF OrdersInv, RunsKnown, Accepted
  <2> QED BY <2>1, <2>2 DEF Accepted
<1>2. OperationSound'
  <2>1. run' = run
    OBVIOUS
  <2>2. op'.pc = "stop" => \A a \in Attempt : db'.intent[a] = "pending" => run[a] = "none"
    BY DEF Accepted
  <2> QED BY <2>1, <2>2 DEF OperationSound, Pending, Accepted
<1> QED BY <1>1, <1>2, InvStands, StepKeeps DEF Standing, RunsTyped

LEMMA SyncAdmits ==
    ASSUME OrdersInv
    PROVE  /\ Sync(db) \in Rows /\ RowsSound(Sync(db))
           /\ \A a \in Attempt : /\ a \in Accepted => Sync(db).intent[a] = "admitted"
                                 /\ a \notin Accepted => /\ run[a] = "none"
                                                         /\ Sync(db).intent[a] = db.intent[a]
BY SyncKeeps DEF OrdersInv, Accepted

LEMMA SimpleOperations ==
    /\ Idle \in Operations /\ Idle.pc = "idle"
    /\ \A pc \in {"idle", "admit", "verify", "error", "recover", "closed"} :
          [pc |-> pc] \in Operations
    /\ \A d : Stop(d) \in Operations /\ Stop(d).pc = "stop"
BY DEF Operations, Idle, Stop, Draining

LEMMA UsersKeep == OrdersInv /\ Users => OrdersInv'
<1> SUFFICES ASSUME OrdersInv, Users PROVE OrdersInv'
  OBVIOUS
<1> DEFINE d == Sync(db)
<1>1. /\ d \in Rows /\ RowsSound(d)
      /\ \A a \in Attempt : /\ a \in Accepted => d.intent[a] = "admitted"
                            /\ a \notin Accepted => run[a] = "none"
  BY SyncAdmits
<1>2. db \in Rows /\ RowsSound(db) /\ open \in BOOLEAN /\ events \in 0..MaxEvents
  BY DEF OrdersInv, Shapes, TypeOK
<1>3. CASE Activate
  <2>1. db' \in Rows /\ RowsSound(db') /\ db'.intent = db.intent
    BY <1>2, <1>3 DEF Activate, Rows, RowsSound, InARow
  <2> QED BY <1>2, <1>3, <2>1, RowsKeep, SimpleOperations DEF Activate, Request
<1> HIDE DEF d
<1>4. CASE Pause
  <2>1. db' = [d EXCEPT !.order = "paused"]
    BY <1>4 DEF Pause, d
  <2>2. db' \in Rows /\ RowsSound(db') /\ db'.intent = d.intent
    BY <1>1, <2>1 DEF Rows, RowsSound, InARow
  <2> QED BY <1>1, <1>2, <1>4, <2>2, RowsKeep, SimpleOperations DEF Pause, Request
<1>5. CASE Resume
  <2>1. db' = [d EXCEPT !.order = "queued", !.error = FALSE]
    BY <1>5 DEF Resume, d
  <2>2. db' \in Rows /\ RowsSound(db') /\ db'.intent = d.intent
    BY <1>1, <2>1 DEF Rows, RowsSound, InARow
  <2> QED BY <1>1, <1>2, <1>5, <2>2, RowsKeep, SimpleOperations DEF Resume, Request
<1>6. CASE Cancel
  <2> DEFINE task == [t \in Tasks |-> IF d.task[t] \in {"pending", "blocked"}
                                      THEN "cancelled" ELSE d.task[t]]
  <2>1. db' = [d EXCEPT !.order = "cancelled", !.error = FALSE, !.task = task]
    BY <1>6 DEF Cancel, d
  <2>2. task \in [Tasks -> {"absent", "pending", "dispatching", "running", "awaiting_approval",
                            "succeeded", "failed", "cancelled", "blocked"}]
    BY <1>1 DEF Rows
  <2>3. /\ db' \in Rows /\ db'.attempt = d.attempt /\ db'.intent = d.intent
        /\ \A t \in Tasks : db'.task[t] \notin {"pending", "blocked"}
    <3>1. \A t \in Tasks : task[t] \notin {"pending", "blocked"}
      OBVIOUS
    <3> HIDE DEF task
    <3> QED BY <1>1, <2>1, <2>2, <3>1 DEF Rows
  <2>5. RowsSound(db')
    BY <1>1, <2>3 DEF RowsSound, InARow
  <2>4. op' = Stop(db') /\ UNCHANGED <<run, lease, flag, open, events>>
    BY <1>6 DEF Cancel, Request
  <2> QED BY <1>1, <1>2, <2>3, <2>4, <2>5, RowsKeep, SimpleOperations
<1>7. ASSUME NEW t \in Tasks, Retry(t) PROVE OrdersInv'
  <2> DEFINE task == [u \in Tasks |-> IF u = t \/ d.task[u] = "blocked"
                                      THEN "pending" ELSE d.task[u]]
             e == [d EXCEPT !.order = "paused", !.retry[t] = TRUE, !.task = task]
  <2>1. db' = Refresh(e) /\ UNCHANGED <<run, lease, flag, open, op, events>> /\ op = Idle
    BY <1>7 DEF Retry, Request, d
  <2>2. Number(d, t) \in 1..(MaxAttempts - 1)
    BY <1>7 DEF Retry, d
  <2>3. d.attempt[<<t, MaxAttempts>>] = "none"
    <3>1. PICK k \in 0..MaxAttempts :
            \A n \in 1..MaxAttempts : d.attempt[<<t, n>>] # "none" <=> n <= k
      BY <1>1 DEF RowsSound, InARow
    <3>2. k \in 1..(MaxAttempts - 1)
      BY <2>2, <3>1, NumberIs
    <3> QED BY <3>1, <3>2, WorkOrdersAssumption
  <2>4. task \in [Tasks -> {"absent", "pending", "dispatching", "running", "awaiting_approval",
                            "succeeded", "failed", "cancelled", "blocked"}]
    BY <1>1 DEF Rows
  <2>5. e \in Rows /\ e.intent = d.intent /\ e.attempt = d.attempt /\ e.task = task
    BY <1>1, <2>4 DEF Rows
  <2>6. RowsSound(e)
    BY <1>1, <2>3, <2>5 DEF RowsSound, InARow
  <2> HIDE DEF e
  <2>7. db' \in Rows /\ RowsSound(db') /\ db'.intent = d.intent
    BY <2>1, <2>5, <2>6, RefreshKeeps, RefreshSound
  <2> QED BY <1>1, <1>2, <2>1, <2>7, RowsKeep, SimpleOperations
<1>8. ASSUME NEW p \in Plans, Revise(p) PROVE OrdersInv'
  <2> DEFINE task == [t \in Tasks |-> IF t \in Started(d) THEN d.task[t]
                                      ELSE IF t \in DOMAIN p THEN "pending" ELSE "absent"]
             e == [d EXCEPT !.plan = p, !.order = IF @ = "draft" THEN "draft" ELSE "paused",
                            !.task = task]
  <2>1. /\ db' = Refresh(e) /\ UNCHANGED <<run, lease, flag, open, op>> /\ op = Idle
        /\ events' = events + 1 /\ events < MaxEvents
    BY <1>8 DEF Revise, Request, Event, d
  <2>2. \A t \in Tasks \ Started(d) : d.attempt[<<t, MaxAttempts>>] = "none"
    <3> SUFFICES ASSUME NEW t \in Tasks \ Started(d) PROVE d.attempt[<<t, MaxAttempts>>] = "none"
      OBVIOUS
    <3>1. PICK k \in 0..MaxAttempts :
            \A n \in 1..MaxAttempts : d.attempt[<<t, n>>] # "none" <=> n <= k
      BY <1>1 DEF RowsSound, InARow
    <3>2. k = 0
      BY <3>1, NumberIs DEF Started
    <3> QED BY <3>1, <3>2, WorkOrdersAssumption
  <2>3. task \in [Tasks -> {"absent", "pending", "dispatching", "running", "awaiting_approval",
                            "succeeded", "failed", "cancelled", "blocked"}]
    BY <1>1 DEF Rows
  <2>4. e \in Rows /\ e.intent = d.intent /\ e.attempt = d.attempt /\ e.task = task
    BY <1>1, <2>3 DEF Rows
  <2>5. RowsSound(e)
    BY <1>1, <2>2, <2>4 DEF RowsSound, InARow
  <2> HIDE DEF e
  <2>6. db' \in Rows /\ RowsSound(db') /\ db'.intent = d.intent
    BY <2>1, <2>4, <2>5, RefreshKeeps, RefreshSound
  <2>7. events' \in 0..MaxEvents
    BY <1>2, <2>1, WorkOrdersAssumption
  <2> QED BY <1>1, <1>2, <2>1, <2>6, <2>7, RowsKeep, SimpleOperations
<1> QED BY <1>3, <1>4, <1>5, <1>6, <1>7, <1>8 DEF Users

\* A step that reads the runs back and goes on elsewhere.
LEMMA SyncStep ==
    ASSUME OrdersInv, UNCHANGED <<run, lease, flag>>, open' \in BOOLEAN, events' \in 0..MaxEvents,
           db' = Sync(db), op' \in Operations, op'.pc # "create"
    PROVE  OrdersInv'
BY SyncAdmits, RowsKeep

LEMMA ReconcileKeeps ==
    OrdersInv /\ (StepReconcile \/ StepFull \/ StepVerify \/ Recover) => OrdersInv'
<1> SUFFICES ASSUME OrdersInv, StepReconcile \/ StepFull \/ StepVerify \/ Recover PROVE OrdersInv'
  OBVIOUS
<1>1. Standing
  BY InvStands
<1> USE DEF Standing, RunsTyped
<1>2. CASE StepReconcile
  <2>1. NextOf(db') \in Operations /\ NextOf(db').pc # "create"
    BY SimpleOperations DEF NextOf
  <2> QED BY <1>1, <1>2, <2>1, SyncStep DEF StepReconcile, Working
<1>3. CASE StepFull
  BY <1>1, <1>3, SyncStep DEF StepFull, Working
<1>4. CASE StepVerify
  BY <1>1, <1>4, SyncStep, SimpleOperations DEF StepVerify, Working
<1>5. CASE Recover
  BY <1>1, <1>5, SyncStep, RowsKeep, SimpleOperations DEF Recover, Working
<1> QED BY <1>2, <1>3, <1>4, <1>5

LEMMA AdmitKeeps == OrdersInv /\ (StepReplay \/ StepReserve) => OrdersInv'
<1> SUFFICES ASSUME OrdersInv, StepReplay \/ StepReserve PROVE OrdersInv'
  OBVIOUS
<1>1. Standing
  BY InvStands
<1> USE DEF Standing, RunsTyped
<1>2. CASE StepReplay
  <2>1. PICK a \in Pending(db) : op' = [pc |-> "create", attempt |-> a]
    BY <1>2 DEF StepReplay
  <2>2. a \in Attempt /\ db.intent[a] = "pending"
    BY DEF Pending
  <2>3. op' \in Operations /\ op'.pc = "create" /\ op'.attempt = a
    BY <2>1, <2>2 DEF Operations
  <2>4. UNCHANGED <<db, run, lease, flag, open, events>>
    BY <1>2 DEF StepReplay, Working
  <2>5. OperationSound'
    BY <2>2, <2>3, <2>4 DEF OperationSound
  <2> QED BY <1>1, <2>3, <2>4, <2>5, StepKeeps
<1>3. CASE StepReserve
  <2>1. CASE db' = Sync(db) /\ op' = Idle
    BY <1>1, <1>3, <2>1, SyncStep, SimpleOperations DEF StepReserve, Working
  <2>2. ASSUME NEW t \in Ready(Sync(db)), db' = Reserved(Sync(db), t),
               op' = [pc |-> "create", attempt |-> Latest(db', t)]
        PROVE  OrdersInv'
    <3> DEFINE d == Sync(db)
               a == Latest(db', t)
    <3>1. /\ d \in Rows /\ RowsSound(d)
          /\ \A b \in Attempt : /\ b \in Accepted => d.intent[b] = "admitted"
                                /\ b \notin Accepted => run[b] = "none"
      BY SyncAdmits
    <3>2. /\ db' \in Rows /\ RowsSound(db') /\ a \in Attempt
          /\ d.attempt[a] = "none" /\ db'.intent = [d.intent EXCEPT ![a] = "pending"]
      BY <2>2, <3>1, ReservedKeeps
    <3> HIDE DEF a, d
    <3>3. op' \in Operations /\ op'.pc = "create" /\ op'.attempt = a
      BY <2>2, <3>2 DEF Operations, a
    <3>4. UNCHANGED <<run, lease, flag, open, events>>
      BY <1>3 DEF StepReserve, Working
    <3>5. \A b \in Attempt : run'[b] # "none" => db'.intent[b] \in {"pending", "admitted"}
      <4>1. \A b \in Attempt : run[b] # "none" => d.intent[b] = "admitted"
        BY <3>1
      <4>2. \A b \in Attempt : db'.intent[b] = IF b = a THEN "pending" ELSE d.intent[b]
        BY <3>1, <3>2 DEF Rows
      <4> QED BY <3>4, <4>1, <4>2
    <3>6. OperationSound'
      BY <3>1, <3>2, <3>3 DEF OperationSound, Rows
    <3> QED BY <1>1, <3>2, <3>3, <3>4, <3>5, <3>6, StepKeeps
  <2> QED BY <1>3, <2>1, <2>2 DEF StepReserve
<1> QED BY <1>2, <1>3

LEMMA CallKeeps == OrdersInv /\ (StepCreate \/ StepSettle \/ StepError \/ StepFault) => OrdersInv'
<1> SUFFICES ASSUME OrdersInv, StepCreate \/ StepSettle \/ StepError \/ StepFault PROVE OrdersInv'
  OBVIOUS
<1>1. Standing
  BY InvStands
<1> USE DEF Standing, RunsTyped
<1>2. CASE StepCreate
  <2>1. op.pc = "create" /\ UNCHANGED <<db, flag, open, events>>
    BY <1>2 DEF StepCreate, Working
  <2>2. op.attempt \in Attempt /\ db.intent[op.attempt] = "pending"
    BY <1>1, <2>1 DEF OrdersInv, OperationSound, Operations
  <2>3. /\ run' \in {run, [run EXCEPT ![op.attempt] = "queued"],
                    [run EXCEPT ![op.attempt] = "failed"]}
        /\ lease' \in {lease, [lease EXCEPT ![op.attempt] = TRUE]}
    BY <1>2 DEF StepCreate
  <2>4. RunsTyped'
    BY <1>1, <2>1, <2>3 DEF RunStates, Over
  <2>5. \A a \in Attempt : run'[a] # "none" => db'.intent[a] \in {"pending", "admitted"}
    BY <1>1, <2>1, <2>2, <2>3
  <2>6. op' \in Operations /\ op'.pc \in {"verify", "settle"}
    BY <1>2, <2>2 DEF StepCreate, Operations
  <2>7. OperationSound'
    BY <2>6 DEF OperationSound
  <2> QED BY <1>1, <2>1, <2>4, <2>5, <2>6, <2>7, StepKeeps
<1>3. CASE StepSettle
  <2> DEFINE d == Sync(db)
             a == op.attempt
  <2>1. /\ d \in Rows /\ RowsSound(d)
        /\ \A b \in Attempt : b \in Accepted => d.intent[b] = "admitted"
        /\ \A b \in Attempt : b \notin Accepted => run[b] = "none"
    BY SyncAdmits
  <2>2. op' = [pc |-> "error"] /\ op' \in Operations /\ UNCHANGED <<run, lease, flag, open, events>>
    BY <1>3 DEF StepSettle, Working, Operations
  <2>3. db' = d \/ (d.intent[a] = "pending" /\ db' = Abandoned(d, a))
    <3>1. db' = IF op.known /\ d.intent[a] = "pending" THEN Abandoned(d, a) ELSE d
      BY <1>3, Zenon DEF StepSettle
    <3> HIDE DEF d, a
    <3> QED BY <3>1
  <2>4. a \in Attempt
    BY <1>1, <1>3 DEF StepSettle, Working, Operations
  <2>5. CASE db' = d
    BY <1>1, <2>2, <2>5, SyncStep
  <2>6. CASE d.intent[a] = "pending" /\ db' = Abandoned(d, a)
    <3> HIDE DEF d, a
    <3>1. db' \in Rows /\ RowsSound(db') /\ db'.intent = [d.intent EXCEPT ![a] = "abandoned"]
      BY <2>1, <2>4, <2>6, AbandonedKeeps
    <3>2. \A b \in Attempt : b \in Accepted => db'.intent[b] = "admitted"
      BY <2>1, <2>4, <2>6, <3>1 DEF Rows
    <3> QED BY <1>1, <2>1, <2>2, <3>1, <3>2, RowsKeep
  <2> QED BY <2>3, <2>5, <2>6
<1>4. CASE StepError
  <2>1. UNCHANGED <<run, lease, flag, open, events>> /\ op' = Idle
    BY <1>4 DEF StepError, Working
  <2>2. db' \in Rows /\ RowsSound(db') /\ db'.intent = db.intent
    BY <1>1, <1>4 DEF StepError, Rows, RowsSound, InARow
  <2> QED BY <1>1, <2>1, <2>2, RowsKeep, SimpleOperations
<1>5. CASE StepFault
  <2>1. UNCHANGED <<db, run, lease, flag, open, events>> /\ op' \in {[pc |-> "error"], Idle}
    BY <1>5 DEF StepFault
  <2>2. op' \in Operations /\ op'.pc \in {"error", "idle"}
    BY <2>1 DEF Operations, Idle
  <2> QED BY <1>1, <2>1, <2>2, RowsKeep
<1> QED BY <1>2, <1>3, <1>4, <1>5

LEMMA StopKeeps == OrdersInv /\ (StopRun \/ StopFails \/ StopIntents) => OrdersInv'
<1> SUFFICES ASSUME OrdersInv, StopRun \/ StopFails \/ StopIntents PROVE OrdersInv'
  OBVIOUS
<1>1. Standing
  BY InvStands
<1> USE DEF Standing, RunsTyped
<1>2. op.pc = "stop" /\ op \in [pc : {"stop"}, left : SUBSET Attempt]
  BY <1>1 DEF StopRun, StopFails, StopIntents, Working, Operations
<1>3. \A a \in Attempt : db.intent[a] = "pending" => run[a] = "none"
  BY <1>1, <1>2 DEF OperationSound, Pending, Accepted
<1>4. CASE StopRun
  <2>1. PICK a \in op.left :
          LET waits == run[a] \in {"queued", "interrupted"}
          IN  /\ run' = [run EXCEPT ![a] = IF waits THEN "cancelled" ELSE @]
              /\ lease' = [lease EXCEPT ![a] = @ /\ ~waits]
              /\ flag' = [flag EXCEPT ![a] = run[a] = "running"]
              /\ op' = [op EXCEPT !.left = @ \ {a}]
    BY <1>4 DEF StopRun
  <2>2. a \in Attempt /\ UNCHANGED <<db, open, events>>
    BY <1>2, <1>4, <2>1 DEF StopRun, Working
  <2>3. RunsTyped'
    BY <1>1, <2>1, <2>2 DEF RunStates, Over
  <2>4. \A b \in Attempt : run'[b] = "none" <=> run[b] = "none"
    BY <1>1, <2>1, <2>2
  <2>5. op' \in Operations /\ op'.pc = "stop"
    BY <1>2, <2>1 DEF Operations
  <2>6. OperationSound'
    BY <1>3, <2>2, <2>4, <2>5 DEF OperationSound, Pending, Accepted
  <2> QED BY <1>1, <2>2, <2>3, <2>4, <2>5, <2>6, StepKeeps
<1>5. CASE StopFails
  <2>1. UNCHANGED <<db, run, lease, flag, open, events>> /\ op' = [pc |-> "error"]
    BY <1>5 DEF StopFails, Working
  <2> QED BY <1>1, <2>1, RowsKeep DEF Operations
<1>6. CASE StopIntents
  <2>1. UNCHANGED <<run, lease, flag, open, events>>
    BY <1>6 DEF StopIntents, Working
  <2>2. CASE db' = Sync(db) /\ op' = Idle
    BY <1>1, <2>1, <2>2, SyncStep, SimpleOperations
  <2>3. ASSUME NEW a \in Pending(db), db' = Abandoned(Sync(db), a), op' = op
        PROVE  OrdersInv'
    <3> DEFINE d == Sync(db)
    <3>1. /\ d \in Rows /\ RowsSound(d)
          /\ \A b \in Attempt : b \in Accepted => d.intent[b] = "admitted"
          /\ \A b \in Attempt : b \notin Accepted => run[b] = "none" /\ d.intent[b] = db.intent[b]
      BY SyncAdmits
    <3>2. a \in Attempt /\ db.intent[a] = "pending" /\ run[a] = "none" /\ d.intent[a] # "none"
      BY <1>3, <3>1 DEF Pending, Accepted
    <3>3. db' = Abandoned(d, a)
      BY <2>3
    <3> HIDE DEF d
    <3>4. db' \in Rows /\ RowsSound(db') /\ db'.intent = [d.intent EXCEPT ![a] = "abandoned"]
      BY <3>1, <3>2, <3>3, AbandonedKeeps
    <3>5. \A b \in Attempt : b \in Accepted => db'.intent[b] = "admitted"
      BY <3>1, <3>2, <3>4 DEF Rows, Accepted
    <3> QED BY <1>1, <1>2, <2>1, <2>3, <3>1, <3>4, <3>5, RowsKeep
  <2> QED BY <1>6, <2>2, <2>3 DEF StopIntents
<1> QED BY <1>4, <1>5, <1>6

\* A run that exists goes on, but none comes into being by itself.
LEMMA RunsKeep ==
    ASSUME OrdersInv, NEW a \in Attempt, NEW s \in RunStates \ {"none"}, NEW l \in BOOLEAN,
           run[a] # "none", RunMoves(a, s, l)
    PROVE  OrdersInv'
<1>1. Standing
  BY InvStands
<1> USE DEF Standing, RunsTyped
<1>2. /\ run' = [run EXCEPT ![a] = s] /\ lease' = [lease EXCEPT ![a] = l]
      /\ flag' = [flag EXCEPT ![a] = @ /\ s \notin Over]
      /\ UNCHANGED <<db, op, open, events>>
  BY DEF RunMoves
<1>3. RunsTyped'
  BY <1>1, <1>2
<1>4. \A b \in Attempt : run'[b] = "none" <=> run[b] = "none"
  BY <1>1, <1>2
<1>5. OperationSound'
  BY <1>1, <1>2, <1>4 DEF OperationSound, Pending, Accepted
<1> QED BY <1>1, <1>2, <1>3, <1>4, <1>5, StepKeeps

LEMMA RunningKeeps ==
    ASSUME OrdersInv, NEW a \in Attempt,
           Run(a) \/ RunApproved(a) \/ RunExpired(a) \/ RunCancelled(a)
    PROVE  OrdersInv'
BY RunsKeep DEF Run, RunTaken, RunEnded, RunAsks, RunReleased, RunApproved, RunExpired,
                RunCancelled, RunStates, Over

LEMMA EndsKeep == OrdersInv /\ (Close \/ CloseReconcile \/ Restart) => OrdersInv'
<1> SUFFICES ASSUME OrdersInv, Close \/ CloseReconcile \/ Restart PROVE OrdersInv'
  OBVIOUS
<1>1. Standing
  BY InvStands
<1> USE DEF Standing, RunsTyped
<1>2. events < MaxEvents => events + 1 \in 0..MaxEvents
  BY <1>1, WorkOrdersAssumption
<1>3. CASE Close
  <2>1. UNCHANGED <<db, run, lease, flag, op>> /\ open' = FALSE /\ events' \in 0..MaxEvents
    BY <1>2, <1>3 DEF Close, Event
  <2>2. OperationSound'
    BY <1>1, <2>1 DEF OperationSound, Pending, Accepted
  <2> QED BY <1>1, <2>1, <2>2, StepKeeps
<1>4. CASE CloseReconcile
  <2>1. UNCHANGED <<run, lease, flag, open, events>> /\ op' = [pc |-> "closed"]
    BY <1>4 DEF CloseReconcile
  <2>2. op' \in Operations /\ op'.pc = "closed"
    BY <2>1 DEF Operations
  <2>3. db' = Sync(db) \/ db' = db
    BY <1>4 DEF CloseReconcile
  <2> QED BY <1>1, <2>1, <2>2, <2>3, SyncStep, RowsKeep
<1>5. CASE Restart
  <2>1. /\ db' = db /\ open' = TRUE /\ op' = [pc |-> "recover"] /\ events' \in 0..MaxEvents
        /\ run' = [a \in Attempt |-> IF run[a] \in {"queued", "running"} THEN "failed" ELSE run[a]]
        /\ lease' \in [Attempt -> BOOLEAN] /\ flag' \in [Attempt -> BOOLEAN]
    BY <1>2, <1>5 DEF Restart, Event
  <2>2. run' \in [Attempt -> RunStates] /\ \A a \in Attempt : run'[a] = "none" <=> run[a] = "none"
    BY <1>1, <2>1 DEF RunStates, Over
  <2>3. op' \in Operations /\ OperationSound'
    BY <2>1 DEF Operations, OperationSound
  <2> QED BY <1>1, <2>1, <2>2, <2>3, StepKeeps
<1> QED BY <1>3, <1>4, <1>5

LEMMA StutterKeeps == OrdersInv /\ UNCHANGED vars => OrdersInv'
BY DEF OrdersInv, vars, Shapes, TypeOK, RunsKnown, OperationSound, Accepted, Pending

LEMMA NextKeeps == OrdersInv /\ [Next]_vars => OrdersInv'
<1> SUFFICES ASSUME OrdersInv, [Next]_vars PROVE OrdersInv'
  OBVIOUS
<1>1. CASE UNCHANGED vars
  BY <1>1, StutterKeeps
<1>2. CASE Users
  BY <1>2, UsersKeep
<1>3. CASE Pump \/ StepFull \/ StepFault \/ StopFails
  BY <1>3, ReconcileKeeps, AdmitKeeps, CallKeeps, StopKeeps DEF Pump
<1>4. CASE \E a \in Attempt : Run(a) \/ RunApproved(a) \/ RunExpired(a) \/ RunCancelled(a)
  BY <1>4, RunningKeeps
<1>5. CASE Close \/ CloseReconcile \/ Restart
  BY <1>5, EndsKeep
<1> QED BY <1>1, <1>2, <1>3, <1>4, <1>5 DEF Next

\* An attempt that was once abandoned never turns out to have a run, whatever
\* failed or crashed in between (abandon_unaccepted), for any tasks and plans.
THEOREM AbandonmentIsFinal == Spec => []AbandonedNeverRuns
<1>1. OrdersInv => AbandonedNeverRuns
  BY DEF OrdersInv, Shapes, RunsKnown, Accepted, AbandonedNeverRuns
<1> QED BY <1>1, InitInv, NextKeeps, PTL DEF Spec

-----------------------------------------------------------------------------
(* The rows follow the runs: SerialInv.                                    *)

LeasesKnown == \A a \in Attempt : lease[a] => run[a] # "none"

LEMMA PlanShape ==
    ASSUME NEW d \in Rows
    PROVE  /\ d.plan \in Plans /\ DOMAIN d.plan \subseteq Tasks
           /\ \A t \in DOMAIN d.plan : d.plan[t] \subseteq DOMAIN d.plan
BY WorkOrdersAssumption DEF Rows

LEMMA NumberOf ==
    ASSUME NEW d \in Rows, RowsSound(d), NEW t \in Tasks
    PROVE  /\ Number(d, t) \in 0..MaxAttempts
           /\ \A n \in 1..MaxAttempts : d.attempt[<<t, n>>] # "none" <=> n <= Number(d, t)
<1>1. PICK k \in 0..MaxAttempts :
        \A n \in 1..MaxAttempts : d.attempt[<<t, n>>] # "none" <=> n <= k
  BY DEF RowsSound, InARow
<1>2. Number(d, t) = k
  BY <1>1, NumberIs
<1> QED BY <1>1, <1>2

LEMMA SameNumber ==
    ASSUME NEW d, NEW e, NEW t \in Tasks,
           \A a \in Attempt : e.attempt[a] = "none" <=> d.attempt[a] = "none"
    PROVE  Number(e, t) = Number(d, t) /\ Latest(e, t) = Latest(d, t)
<1>1. \A n \in 1..MaxAttempts : <<t, n>> \in Attempt
  BY DEF Attempt
<1>2. {n \in 1..MaxAttempts : e.attempt[<<t, n>>] # "none"}
        = {n \in 1..MaxAttempts : d.attempt[<<t, n>>] # "none"}
  BY <1>1
<1> QED BY <1>2 DEF Number, Latest

\* What an attempt's row says of its run.
LEMMA ObservedMeans ==
    ASSUME Shapes, NEW a \in Accepted
    PROVE  /\ Observed(a) = "succeeded" <=> Achieved(a)
           /\ Shown(Observed(a)) = "succeeded" <=> Achieved(a)
           /\ Observed(a) \in Holding <=> Engaged(a)
           /\ Observed(a) = "failed" => run[a] = "failed" /\ ~Engaged(a)
<1>1. /\ a \in Attempt /\ lease[a] \in BOOLEAN
      /\ run[a] \in Over \cup {"queued", "running", "interrupted"}
  BY DEF Shapes, TypeOK, Accepted
<1>2. CASE run[a] \in Over /\ lease[a]
  BY <1>1, <1>2 DEF Observed, Shown, Achieved, Engaged, Holding, Over
<1>3. CASE run[a] \in Over /\ ~lease[a]
  BY <1>1, <1>3 DEF Observed, Shown, Achieved, Engaged, Holding, Over
<1>4. CASE run[a] \in {"queued", "running", "interrupted"}
  BY <1>1, <1>4 DEF Observed, Shown, Achieved, Engaged, Holding, Over
<1> QED BY <1>1, <1>2, <1>3, <1>4

\* The latest attempt of a task is an attempt, with the number it has.
LEMMA LatestIs ==
    ASSUME NEW d \in Rows, RowsSound(d), NEW t \in Tasks, Number(d, t) > 0
    PROVE  /\ Latest(d, t) \in Attempt /\ Latest(d, t)[1] = t /\ Latest(d, t)[2] = Number(d, t)
           /\ d.attempt[Latest(d, t)] # "none"
<1>1. Number(d, t) \in 1..MaxAttempts
  BY NumberOf, WorkOrdersAssumption
<1> QED BY <1>1, NumberOf DEF Latest, Attempt

\* Rows that say no more of pending and succeeded tasks, and await no more
\* attempts, follow the runs as the rows before did.
LEMMA RowsFollow ==
    ASSUME NEW d \in Rows, NEW e \in Rows, FollowsRuns(d), OrderTold(e), e.plan = d.plan,
           \A a \in Attempt : e.attempt[a] = "none" <=> d.attempt[a] = "none",
           \A a \in Attempt : Awaited(e, a) => Awaited(d, a) /\ e.attempt[a] = "reserved",
           \A t \in Tasks : e.task[t] \in {"pending", "blocked"} =>
              \/ d.task[t] \in {"pending", "blocked"}
              \/ \A n \in 1..MaxAttempts : Spent(d, <<t, n>>),
           \A t \in Tasks : e.task[t] = "succeeded" =>
              d.task[t] = "succeeded" \/ (Number(d, t) > 0 /\ Achieved(Latest(d, t)))
    PROVE  FollowsRuns(e)
<1>1. \A a \in Attempt : /\ Live(e, a) => Live(d, a)
                         /\ Spent(d, a) => Spent(e, a)
  BY DEF Live, Spent
<1>2. OneLive(e)
  BY <1>1 DEF FollowsRuns, OneLive
<1>3. AwaitedReady(e)
  BY DEF FollowsRuns, AwaitedReady
<1>4. ASSUME NEW t \in Tasks PROVE TaskTold(e, t)
  <2>1. TaskTold(d, t)
    BY DEF FollowsRuns
  <2>2. Number(e, t) = Number(d, t) /\ Latest(e, t) = Latest(d, t)
    BY SameNumber
  <2>3. \A n \in 1..MaxAttempts : Spent(d, <<t, n>>) => Spent(e, <<t, n>>)
    BY <1>1 DEF Attempt
  <2> QED BY <2>1, <2>2, <2>3 DEF TaskTold
<1> QED BY <1>2, <1>3, <1>4 DEF FollowsRuns

LEMMA RefreshFollows ==
    ASSUME NEW d \in Rows, FollowsRuns(d)
    PROVE  /\ FollowsRuns(Refresh(d))
           /\ d.order \in {"succeeded", "cancelled"} => Refresh(d).order = d.order
           /\ Refresh(d).order \in {d.order, "succeeded", "failed"}
<1> DEFINE e == Refresh(d)
<1>1. /\ e \in Rows /\ e.attempt = d.attempt /\ e.intent = d.intent /\ e.plan = d.plan
      /\ \A t \in Tasks : e.task[t] = d.task[t] \/ (d.task[t] = "pending" /\ e.task[t] = "blocked")
      /\ \/ e.order = d.order
         \/ e.order = "succeeded" /\ d.order # "cancelled"
              /\ \A t \in DOMAIN d.plan : e.task[t] = "succeeded"
         \/ e.order = "failed" /\ d.order # "cancelled"
              /\ \E t \in DOMAIN d.plan : e.task[t] # "succeeded"
  BY RefreshKeeps
<1> HIDE DEF e
<1>2. DOMAIN d.plan \subseteq Tasks
  BY PlanShape
<1>3. d.order = "succeeded" => \A t \in DOMAIN d.plan : e.task[t] = "succeeded"
  BY <1>1, <1>2 DEF FollowsRuns, OrderTold
<1>4. OrderTold(e) /\ (d.order \in {"succeeded", "cancelled"} => e.order = d.order)
  BY <1>1, <1>3 DEF OrderTold
<1>5. \A a \in Attempt : Awaited(e, a) => Awaited(d, a) /\ e.attempt[a] = "reserved"
  BY <1>1 DEF Awaited, FollowsRuns, AwaitedReady
<1>6. FollowsRuns(e)
  BY <1>1, <1>4, <1>5, RowsFollow
<1> QED BY <1>1, <1>4, <1>6 DEF e

\* _sync: what it writes is true of the runs.
LEMMA SyncFollows ==
    ASSUME OrdersInv, FollowsRuns(db)
    PROVE  /\ FollowsRuns(Sync(db)) /\ Sync(db).plan = db.plan
           /\ db.order \in {"succeeded", "cancelled"} => Sync(db).order = db.order
           /\ Sync(db).order \in {db.order, "succeeded", "failed"}
           /\ \A a \in Attempt : Sync(db).attempt[a] = IF a \in Accepted THEN Observed(a)
                                                       ELSE db.attempt[a]
           /\ \A a \in Attempt : Awaited(Sync(db), a) <=> Awaited(db, a)
<1>1. Shapes /\ RowsSound(db) /\ RunsKnown(db) /\ db \in Rows
  BY DEF OrdersInv, Shapes
<1>2. PICK e \in Rows :
        /\ Sync(db) = Refresh(e) /\ RowsSound(e) /\ e.order = db.order /\ e.plan = db.plan
        /\ \A a \in Attempt : e.attempt[a] = IF a \in Accepted THEN Observed(a) ELSE db.attempt[a]
        /\ \A a \in Attempt : e.intent[a] = IF a \in Accepted THEN "admitted" ELSE db.intent[a]
        /\ \A a \in Attempt : e.attempt[a] = "none" <=> db.attempt[a] = "none"
        /\ \A t \in Tasks : \/ e.task[t] = db.task[t]
                            \/ /\ Latest(db, t) \in Accepted
                               /\ e.task[t] = Shown(Observed(Latest(db, t)))
  BY <1>1, SyncReads
<1>3. \A a \in Attempt : a \notin Accepted <=> run[a] = "none"
  BY DEF Accepted
<1>4. \A a \in Attempt : Awaited(e, a) <=> Awaited(db, a)
  BY <1>2, <1>3 DEF Awaited
<1>5. \A a \in Attempt : Awaited(e, a) => e.attempt[a] = "reserved"
  BY <1>2, <1>3, <1>4 DEF FollowsRuns, AwaitedReady, Awaited
<1>6. \A t \in Tasks : e.task[t] \in {"pending", "blocked"} => db.task[t] = e.task[t]
  BY <1>1, <1>2, ObservedIs
<1>7. ASSUME NEW t \in Tasks, Latest(db, t) \in Accepted, Achieved(Latest(db, t))
      PROVE  Number(db, t) > 0
  <2>1. Latest(db, t) \in Attempt
    BY <1>7 DEF Accepted
  <2> QED BY <2>1, WorkOrdersAssumption DEF Latest, Attempt
<1>8. \A t \in Tasks : e.task[t] = "succeeded" =>
        db.task[t] = "succeeded" \/ (Number(db, t) > 0 /\ Achieved(Latest(db, t)))
  BY <1>1, <1>2, <1>7, ObservedMeans
<1>9. \A t \in Tasks : db.task[t] = "succeeded" => e.task[t] = "succeeded"
  <2> SUFFICES ASSUME NEW t \in Tasks, db.task[t] = "succeeded" PROVE e.task[t] = "succeeded"
    OBVIOUS
  <2>1. Achieved(Latest(db, t))
    BY DEF FollowsRuns, TaskTold
  <2> QED BY <1>1, <1>2, <2>1, ObservedMeans
<1>10. OrderTold(e)
  BY <1>2, <1>9, <1>1, PlanShape DEF FollowsRuns, OrderTold
<1>11. FollowsRuns(e)
  BY <1>1, <1>2, <1>4, <1>5, <1>6, <1>8, <1>10, RowsFollow
<1>12. Refresh(e).attempt = e.attempt /\ Refresh(e).intent = e.intent /\ Refresh(e).plan = e.plan
  BY RefreshKeeps
<1>13. \A a \in Attempt : Awaited(Sync(db), a) <=> Awaited(db, a)
  BY <1>2, <1>4, <1>12 DEF Awaited
<1> QED BY <1>2, <1>11, <1>12, <1>13, RefreshFollows

\* Where no row holds the order, nothing is engaged and nothing awaited.
LEMMA NothingLive ==
    ASSUME OrdersInv, FollowsRuns(db), LeasesKnown, Draining(Sync(db)) = {}
    PROVE  \A a \in Attempt : ~Live(Sync(db), a)
<1> SUFFICES ASSUME NEW a \in Attempt, Live(Sync(db), a) PROVE FALSE
  OBVIOUS
<1>1. Sync(db).attempt[a] \notin Holding
  BY DEF Draining
<1>2. CASE Engaged(a)
  <2>1. a \in Accepted
    BY <1>2 DEF Engaged, Accepted, LeasesKnown
  <2>2. Sync(db).attempt[a] = Observed(a)
    BY <2>1, SyncFollows
  <2>3. Shapes
    BY DEF OrdersInv
  <2> QED BY <1>1, <1>2, <2>1, <2>2, <2>3, ObservedMeans
<1>3. CASE Awaited(Sync(db), a)
  <2>1. Sync(db).attempt[a] = "reserved"
    BY <1>3, SyncFollows DEF FollowsRuns, AwaitedReady
  <2> QED BY <1>1, <2>1 DEF Holding
<1> QED BY <1>2, <1>3 DEF Live

-----------------------------------------------------------------------------
(* Transactions: the rows change, the runs do not, an order that is over      *)
(* stays what it is.                                                         *)

Kept == /\ UNCHANGED <<run, lease>> /\ FollowsRuns(db') /\ db'.plan = db.plan
        /\ db.order \in {"succeeded", "cancelled"} => db'.order = db.order

LEMMA SerialFacts ==
    ASSUME SerialInv
    PROVE  /\ OrdersInv /\ Standing /\ FollowsRuns(db) /\ AdmissionSound /\ LeasesKnown
           /\ Sync(db) \in Rows /\ RowsSound(Sync(db))
BY InvStands, SyncAdmits DEF SerialInv, LeasesKnown

\* New words for the order alone.
LEMMA OrderFollows ==
    ASSUME NEW d \in Rows, NEW e \in Rows, FollowsRuns(d), e.order # "succeeded",
           e.plan = d.plan, e.task = d.task, e.attempt = d.attempt, e.intent = d.intent
    PROVE  FollowsRuns(e)
<1>1. \A a \in Attempt : Awaited(e, a) => Awaited(d, a) /\ e.attempt[a] = "reserved"
  BY DEF Awaited, FollowsRuns, AwaitedReady
<1> QED BY <1>1, RowsFollow DEF OrderTold

LEMMA UsersKept ==
    ASSUME SerialInv, Activate \/ Pause \/ Resume \/ Cancel \/ \E t \in Tasks : Retry(t)
    PROVE  Kept /\ AdmissionSound'
<1> DEFINE d == Sync(db)
<1>1. /\ FollowsRuns(d) /\ d.plan = db.plan /\ d \in Rows /\ RowsSound(d)
      /\ db.order \in {"succeeded", "cancelled"} => d.order = db.order
      /\ d.order \in {db.order, "succeeded", "failed"}
      /\ \A a \in Attempt : d.attempt[a] = IF a \in Accepted THEN Observed(a) ELSE db.attempt[a]
  BY SerialFacts, SyncFollows
<1>2. db \in Rows /\ FollowsRuns(db) /\ RowsSound(db)
  BY SerialFacts DEF Standing
<1>3. CASE Activate
  <2>1. UNCHANGED <<run, lease, op>> /\ op = Idle
    BY <1>3 DEF Activate, Request
  <2>2. /\ db' \in Rows /\ db'.order = "queued" /\ db.order = "draft" /\ db'.plan = db.plan
        /\ db'.task = db.task /\ db'.attempt = db.attempt /\ db'.intent = db.intent
    BY <1>2, <1>3 DEF Activate, Rows
  <2> QED BY <1>2, <2>1, <2>2, OrderFollows DEF Kept, AdmissionSound, Idle
<1> HIDE DEF d
<1>4. CASE Pause
  <2>1. UNCHANGED <<run, lease, op>> /\ op = Idle
    BY <1>4 DEF Pause, Request
  <2>2. db' = [d EXCEPT !.order = "paused"] /\ d.order \in {"queued", "running", "paused"}
    BY <1>4 DEF Pause, d
  <2>3. /\ db' \in Rows /\ db'.order = "paused" /\ db'.plan = d.plan
        /\ db'.task = d.task /\ db'.attempt = d.attempt /\ db'.intent = d.intent
    BY <1>1, <2>2 DEF Rows
  <2> QED BY <1>1, <2>1, <2>2, <2>3, OrderFollows DEF Kept, AdmissionSound, Idle
<1>5. CASE Resume
  <2>1. UNCHANGED <<run, lease, op>> /\ op = Idle
    BY <1>5 DEF Resume, Request
  <2>2. db' = [d EXCEPT !.order = "queued", !.error = FALSE] /\ d.order = "paused"
    BY <1>5 DEF Resume, d
  <2>3. /\ db' \in Rows /\ db'.order = "queued" /\ db'.plan = d.plan
        /\ db'.task = d.task /\ db'.attempt = d.attempt /\ db'.intent = d.intent
    BY <1>1, <2>2 DEF Rows
  <2> QED BY <1>1, <2>1, <2>2, <2>3, OrderFollows DEF Kept, AdmissionSound, Idle
<1>6. CASE Cancel
  <2> DEFINE task == [t \in Tasks |-> IF d.task[t] \in {"pending", "blocked"}
                                      THEN "cancelled" ELSE d.task[t]]
  <2>1. /\ db' = [d EXCEPT !.order = "cancelled", !.error = FALSE, !.task = task]
        /\ d.order # "succeeded"
    BY <1>6 DEF Cancel, d
  <2>2. UNCHANGED <<run, lease>> /\ op' = Stop(db')
    BY <1>6 DEF Cancel, Request
  <2>3. \A t \in Tasks : task[t] = d.task[t] \/ task[t] = "cancelled"
    OBVIOUS
  <2>4. task \in [Tasks -> {"absent", "pending", "dispatching", "running", "awaiting_approval",
                            "succeeded", "failed", "cancelled", "blocked"}]
    BY <1>1 DEF Rows
  <2> HIDE DEF task
  <2>5. /\ db' \in Rows /\ db'.order = "cancelled" /\ db'.plan = d.plan
        /\ db'.task = task /\ db'.attempt = d.attempt /\ db'.intent = d.intent
    BY <1>1, <2>1, <2>4 DEF Rows
  <2>6. \A a \in Attempt : Awaited(db', a) => Awaited(d, a) /\ db'.attempt[a] = "reserved"
    BY <1>1, <2>5 DEF Awaited, FollowsRuns, AwaitedReady
  <2>7. FollowsRuns(db')
    BY <1>1, <2>3, <2>5, <2>6, RowsFollow DEF OrderTold
  <2>8. db.order \in {"succeeded", "cancelled"} => db'.order = db.order
    BY <1>1, <2>1, <2>5
  <2> QED BY <1>1, <2>2, <2>5, <2>7, <2>8 DEF Kept, AdmissionSound, Stop
<1>7. ASSUME NEW t \in Tasks, Retry(t) PROVE Kept /\ AdmissionSound'
  <2> DEFINE task == [u \in Tasks |-> IF u = t \/ d.task[u] = "blocked"
                                      THEN "pending" ELSE d.task[u]]
             e == [d EXCEPT !.order = "paused", !.retry[t] = TRUE, !.task = task]
  <2>1. /\ db' = Refresh(e) /\ UNCHANGED <<run, lease, op>> /\ op = Idle
        /\ d.order \in {"failed", "paused"} /\ Draining(d) = {}
        /\ Number(d, t) \in 1..(MaxAttempts - 1) /\ d.attempt[Latest(d, t)] = "failed"
    BY <1>7 DEF Retry, Request, d
  <2>2. \A u \in Tasks : task[u] = d.task[u] \/ u = t \/ d.task[u] = "blocked"
    OBVIOUS
  <2>3. \A u \in Tasks : task[u] = "succeeded" => d.task[u] = "succeeded"
    OBVIOUS
  <2>4. task \in [Tasks -> {"absent", "pending", "dispatching", "running", "awaiting_approval",
                            "succeeded", "failed", "cancelled", "blocked"}]
    BY <1>1 DEF Rows
  <2> HIDE DEF task
  <2>5. /\ e \in Rows /\ e.order = "paused" /\ e.plan = d.plan
        /\ e.task = task /\ e.attempt = d.attempt /\ e.intent = d.intent
    BY <1>1, <2>4 DEF Rows
  <2>6. \A a \in Attempt : ~Live(d, a)
    BY <2>1, SerialFacts, NothingLive DEF d
  <2>7. \A a \in Attempt : ~Awaited(e, a)
    BY <2>5, <2>6 DEF Live, Awaited
  <2>8. ASSUME NEW n \in 1..MaxAttempts PROVE Spent(d, <<t, n>>)
    <3> DEFINE a == <<t, n>>
    <3>1. a \in Attempt /\ Number(d, t) \in 0..MaxAttempts
      BY <1>1, NumberOf DEF Attempt
    <3>2. CASE n < Number(d, t)
      BY <1>1, <3>2 DEF FollowsRuns, TaskTold
    <3>3. CASE n = Number(d, t)
      <4>1. d.attempt[a] = "failed"
        BY <2>1, <3>3 DEF Latest
      <4>2. Shapes
        BY SerialFacts DEF OrdersInv
      <4>3. a \in Accepted => run[a] = "failed"
        BY <1>1, <3>1, <4>1, <4>2, ObservedMeans
      <4>4. run[a] # "completed"
        BY <3>1, <4>3 DEF Accepted
      <4> QED BY <2>6, <3>1, <4>4 DEF Spent
    <3>4. CASE n > Number(d, t)
      <4>1. d.attempt[a] = "none"
        BY <1>1, <3>4, NumberOf
      <4>2. a \notin Accepted
        <5>1. a \in Accepted => db.attempt[a] # "none"
          BY <3>1, SerialFacts DEF OrdersInv, RunsKnown, RowsSound
        <5>2. a \in Accepted => Observed(a) # "none"
          BY SerialFacts, ObservedIs DEF OrdersInv
        <5> QED BY <1>1, <3>1, <4>1, <5>2
      <4> QED BY <2>6, <3>1, <4>2 DEF Spent, Accepted
    <3> QED BY <3>1, <3>2, <3>3, <3>4
  <2>9. FollowsRuns(e)
    <3> HIDE DEF e
    <3> QED BY <1>1, <2>2, <2>3, <2>5, <2>7, <2>8, RowsFollow DEF OrderTold
  <2> HIDE DEF e
  <2>10. FollowsRuns(db') /\ db'.plan = db.plan
    BY <1>1, <2>1, <2>5, <2>9, RefreshFollows, RefreshKeeps
  <2> QED BY <1>1, <2>1, <2>10 DEF Kept, AdmissionSound, Idle
<1> QED BY <1>3, <1>4, <1>5, <1>6, <1>7

\* The plan changes around what was started.
LEMMA ReviseFollows ==
    ASSUME SerialInv, NEW p \in Plans, Revise(p)
    PROVE  /\ FollowsRuns(db') /\ AdmissionSound' /\ UNCHANGED <<run, lease>>
           /\ db.order \notin {"succeeded", "cancelled"} /\ db'.order # "cancelled" /\ db'.plan = p
           /\ \A t \in Tasks : Number(db, t) > 0 => t \in DOMAIN p /\ p[t] = db.plan[t]
<1> DEFINE d == Sync(db)
           task == [t \in Tasks |-> IF t \in Started(d) THEN d.task[t]
                                    ELSE IF t \in DOMAIN p THEN "pending" ELSE "absent"]
           e == [d EXCEPT !.plan = p, !.order = IF @ = "draft" THEN "draft" ELSE "paused",
                          !.task = task]
<1>1. /\ FollowsRuns(d) /\ d.plan = db.plan /\ d \in Rows /\ RowsSound(d)
      /\ db.order \in {"succeeded", "cancelled"} => d.order = db.order
      /\ \A a \in Attempt : d.attempt[a] = IF a \in Accepted THEN Observed(a) ELSE db.attempt[a]
  BY SerialFacts, SyncFollows
<1>2. /\ db' = Refresh(e) /\ UNCHANGED <<run, lease, op>> /\ op = Idle
      /\ d.order \notin {"succeeded", "cancelled"} /\ Started(d) \subseteq DOMAIN p
      /\ \A t \in Started(d) : p[t] = d.plan[t]
  BY DEF Revise, Revisable, Request
<1>3. \A t \in Tasks : t \in Started(d) <=> Number(d, t) > 0
  BY DEF Started
<1>4. \A t \in Tasks : \/ t \in Started(d) /\ task[t] = d.task[t]
                       \/ t \notin Started(d) /\ task[t] \in {"pending", "absent"}
  OBVIOUS
<1>5. task \in [Tasks -> {"absent", "pending", "dispatching", "running", "awaiting_approval",
                          "succeeded", "failed", "cancelled", "blocked"}]
  BY <1>1 DEF Rows
<1> HIDE DEF task
<1>6. /\ e \in Rows /\ e.order \in {"draft", "paused"} /\ e.plan = p
      /\ e.task = task /\ e.attempt = d.attempt /\ e.intent = d.intent
  BY <1>1, <1>5 DEF Rows
<1> HIDE DEF e, d
<1>7. \A a \in Attempt : d.attempt[a] = "none" <=> db.attempt[a] = "none"
  <2>1. \A a \in Accepted : db.attempt[a] # "none" /\ Observed(a) # "none"
    BY SerialFacts, ObservedIs DEF OrdersInv, RunsKnown, RowsSound, Accepted
  <2> QED BY <1>1, <2>1
<1>8. \A t \in Tasks : Number(d, t) = Number(db, t)
  BY <1>7, SameNumber
<1>9. \A a \in Attempt : d.attempt[a] = "none" => run[a] = "none" /\ ~Live(d, a)
  <2> SUFFICES ASSUME NEW a \in Attempt, d.attempt[a] = "none" PROVE run[a] = "none" /\ ~Live(d, a)
    OBVIOUS
  <2>1. db.attempt[a] = "none" /\ d.intent[a] = "none"
    BY <1>1, <1>7 DEF RowsSound
  <2>2. run[a] = "none"
    BY <2>1, SerialFacts DEF OrdersInv, RunsKnown, RowsSound, Accepted
  <2> QED BY <2>1, <2>2, SerialFacts DEF Live, Awaited, Engaged, LeasesKnown
<1>10. \A a \in Attempt : /\ Live(e, a) <=> Live(d, a)
                          /\ Spent(e, a) <=> Spent(d, a)
                          /\ Awaited(e, a) <=> Awaited(d, a)
  BY <1>6 DEF Live, Spent, Awaited
<1>11. OneLive(e) /\ OrderTold(e)
  BY <1>1, <1>6, <1>10 DEF OneLive, OrderTold, FollowsRuns
<1>12. AwaitedReady(e)
  <2> SUFFICES ASSUME NEW a \in Attempt, Awaited(e, a)
               PROVE  e.attempt[a] = "reserved" /\ e.plan[a[1]] \subseteq Done
    BY DEF AwaitedReady
  <2>1. d.attempt[a] = "reserved" /\ d.plan[a[1]] \subseteq Done
    BY <1>1, <1>10 DEF FollowsRuns, AwaitedReady
  <2>2. a[1] \in Tasks /\ Number(d, a[1]) > 0
    <3>1. a[1] \in Tasks /\ a[2] \in 1..MaxAttempts /\ a = <<a[1], a[2]>>
      BY AttemptShape
    <3>2. Number(d, a[1]) \in 0..MaxAttempts /\ a[2] <= Number(d, a[1])
      BY <1>1, <2>1, <3>1, NumberOf
    <3> QED BY <3>1, <3>2, WorkOrdersAssumption
  <2> QED BY <1>2, <1>3, <1>6, <2>1, <2>2
<1>13. ASSUME NEW t \in Tasks PROVE TaskTold(e, t)
  <2>1. TaskTold(d, t) /\ Number(e, t) = Number(d, t) /\ Latest(e, t) = Latest(d, t)
    BY <1>1, <1>6, SameNumber DEF FollowsRuns
  <2>2. \A n \in 1..MaxAttempts : <<t, n>> \in Attempt
    BY DEF Attempt
  <2>3. CASE t \in Started(d)
    BY <1>2, <1>4, <1>6, <1>10, <2>1, <2>2, <2>3 DEF TaskTold
  <2>4. CASE t \notin Started(d)
    <3>1. Number(d, t) = 0 /\ \A n \in 1..MaxAttempts : d.attempt[<<t, n>>] = "none"
      BY <1>1, <1>3, <2>4, NumberOf, WorkOrdersAssumption
    <3>2. \A n \in 1..MaxAttempts : Spent(e, <<t, n>>)
      BY <1>9, <1>10, <2>2, <3>1 DEF Spent
    <3> QED BY <1>4, <1>6, <2>1, <2>4, <3>1, <3>2 DEF TaskTold
  <2> QED BY <2>3, <2>4
<1>14. FollowsRuns(e)
  BY <1>11, <1>12, <1>13 DEF FollowsRuns
<1>15. FollowsRuns(db') /\ db'.plan = p /\ db'.order # "cancelled"
  BY <1>2, <1>6, <1>14, RefreshFollows, RefreshKeeps
<1>16. \A t \in Tasks : Number(db, t) > 0 => t \in DOMAIN p /\ p[t] = db.plan[t]
  BY <1>1, <1>2, <1>3, <1>8
<1> QED BY <1>1, <1>2, <1>15, <1>16 DEF AdmissionSound, Idle

LEMMA ReconcileKept ==
    ASSUME SerialInv, StepReconcile \/ StepFull \/ StepVerify \/ Recover \/ CloseReconcile
    PROVE  Kept /\ AdmissionSound'
<1>1. /\ FollowsRuns(Sync(db)) /\ Sync(db).plan = db.plan
      /\ db.order \in {"succeeded", "cancelled"} => Sync(db).order = db.order
      /\ \A a \in Accepted : Sync(db).intent[a] = "admitted"
  BY SerialFacts, SyncFollows, SyncAdmits DEF Accepted
<1>2. UNCHANGED <<run, lease>> /\ (db' = Sync(db) \/ db' = db)
  BY DEF StepReconcile, StepFull, StepVerify, Recover, CloseReconcile
<1>3. Kept
  BY <1>1, <1>2, SerialFacts DEF Kept
<1>4. CASE StepReconcile
  <2>1. db' = Sync(db) /\ op' = NextOf(db')
    BY <1>4 DEF StepReconcile
  <2>2. \/ op' = [pc |-> "admit"] /\ db'.order \in {"queued", "running"}
        \/ op'.pc \in {"stop", "idle"}
    BY <2>1 DEF NextOf, Stop, Idle
  <2>3. Pending(db') \cap Accepted = {}
    BY <1>1, <2>1 DEF Pending
  <2> QED BY <1>2, <1>3, <2>2, <2>3 DEF AdmissionSound, Pending, Accepted
<1>5. CASE StepFull
  BY <1>3, <1>5 DEF StepFull, Working, AdmissionSound
<1>6. CASE StepVerify \/ Recover \/ CloseReconcile
  <2>1. op'.pc \in {"idle", "closed"}
    BY <1>6 DEF StepVerify, Recover, CloseReconcile, Idle
  <2> QED BY <1>3, <2>1 DEF AdmissionSound
<1> QED BY <1>3, <1>4, <1>5, <1>6

LEMMA ReserveKept ==
    ASSUME SerialInv, NEW t \in Ready(Sync(db)), Pending(db) = {},
           db' = Reserved(Sync(db), t), UNCHANGED <<run, lease>>,
           db.order \in {"queued", "running"}
    PROVE  Kept /\ db'.order = "running" /\ run[Latest(db', t)] = "none"
<1> DEFINE d == Sync(db)
           a == Latest(db', t)
           e == db'
<1>1. /\ FollowsRuns(d) /\ d.plan = db.plan /\ d \in Rows /\ RowsSound(d)
      /\ \A b \in Attempt : Awaited(d, b) <=> Awaited(db, b)
      /\ \A b \in Attempt : d.attempt[b] = IF b \in Accepted THEN Observed(b) ELSE db.attempt[b]
  BY SerialFacts, SyncFollows
<1>2. /\ t \in Tasks /\ t \in DOMAIN d.plan /\ d.task[t] = "pending" /\ Draining(d) = {}
      /\ \A u \in d.plan[t] : u \in Tasks /\ d.task[u] = "succeeded"
  BY <1>1, PlanShape DEF Ready
<1>3. /\ e \in Rows /\ RowsSound(e) /\ a \in Attempt /\ a[1] = t /\ d.attempt[a] = "none"
      /\ Number(e, t) = Number(d, t) + 1 /\ a[2] = Number(e, t)
      /\ e.order = "running" /\ e.plan = d.plan
      /\ e.task = [d.task EXCEPT ![t] = "dispatching"]
      /\ e.attempt = [d.attempt EXCEPT ![a] = "reserved"]
      /\ e.intent = [d.intent EXCEPT ![a] = "pending"]
  BY <1>1, ReservedKeeps DEF Latest
<1>4. \A b \in Attempt : ~Live(d, b)
  BY <1>2, SerialFacts, NothingLive
<1> HIDE DEF d, a, e
<1>5. run[a] = "none"
  <2>1. a \in Accepted => db.attempt[a] # "none" /\ Observed(a) # "none"
    BY SerialFacts, ObservedIs DEF OrdersInv, RunsKnown, RowsSound, Accepted
  <2> QED BY <1>1, <1>3, <2>1 DEF Accepted
<1>6. \A b \in Attempt : /\ Live(e, b) => b = a
                         /\ b # a => (Spent(e, b) <=> Spent(d, b))
  BY <1>1, <1>3, <1>4 DEF Live, Awaited, Spent, Rows
<1>7. OneLive(e) /\ OrderTold(e)
  BY <1>3, <1>6 DEF OneLive, OrderTold
<1>8. AwaitedReady(e)
  <2>1. \A b \in Attempt : Awaited(e, b) => b = a
    BY <1>6 DEF Live
  <2>2. e.attempt[a] = "reserved"
    BY <1>1, <1>3 DEF Rows
  <2>3. ASSUME NEW u \in d.plan[t] PROVE u \in Done
    <3>1. u \in Tasks /\ Number(d, u) > 0 /\ Achieved(Latest(d, u))
      BY <1>1, <1>2 DEF FollowsRuns, TaskTold
    <3>2. Latest(d, u) \in Attempt /\ Latest(d, u)[1] = u
      BY <1>1, <3>1, LatestIs
    <3> QED BY <3>1, <3>2 DEF Done
  <2> QED BY <1>3, <2>1, <2>2, <2>3 DEF AwaitedReady
<1>9. ASSUME NEW u \in Tasks PROVE TaskTold(e, u)
  <2>1. TaskTold(d, u) /\ TaskTold(d, t)
    BY <1>1, <1>2 DEF FollowsRuns
  <2>2. CASE u # t
    <3>1. \A n \in 1..MaxAttempts : <<u, n>> \in Attempt /\ <<u, n>> # a
      BY <1>3, <2>2 DEF Attempt
    <3>2. {n \in 1..MaxAttempts : e.attempt[<<u, n>>] # "none"}
            = {n \in 1..MaxAttempts : d.attempt[<<u, n>>] # "none"}
      BY <1>1, <1>3, <3>1 DEF Rows
    <3>3. Number(e, u) = Number(d, u) /\ Latest(e, u) = Latest(d, u)
      BY <3>2 DEF Number, Latest
    <3>4. \A n \in 1..MaxAttempts : Spent(d, <<u, n>>) => Spent(e, <<u, n>>)
      BY <1>6, <3>1
    <3>5. e.task[u] = d.task[u]
      BY <1>1, <1>3, <2>2 DEF Rows
    <3> QED BY <1>3, <2>1, <3>3, <3>4, <3>5 DEF TaskTold
  <2>3. CASE u = t
    <3>1. e.task[t] = "dispatching"
      BY <1>1, <1>2, <1>3 DEF Rows
    <3>2. ASSUME NEW n \in 1..MaxAttempts, n < Number(e, t) PROVE Spent(e, <<t, n>>)
      <4>1. <<t, n>> \in Attempt /\ <<t, n>> # a
        BY <1>2, <1>3, <3>2 DEF Attempt
      <4>2. Spent(d, <<t, n>>)
        BY <1>2, <2>1 DEF TaskTold
      <4> QED BY <1>6, <4>1, <4>2
    <3> QED BY <1>2, <1>3, <2>3, <3>1, <3>2 DEF TaskTold
  <2> QED BY <2>2, <2>3
<1>10. FollowsRuns(e)
  BY <1>7, <1>8, <1>9 DEF FollowsRuns
<1> QED BY <1>1, <1>3, <1>5, <1>10 DEF Kept, e, a

LEMMA AdmitKept ==
    ASSUME SerialInv, StepReplay \/ StepReserve
    PROVE  Kept /\ AdmissionSound'
<1>1. /\ op.pc = "admit" /\ UNCHANGED <<run, lease>> /\ db.order \in {"queued", "running"}
      /\ Pending(db) \cap Accepted = {}
  BY SerialFacts DEF StepReplay, StepReserve, Working, AdmissionSound
<1>2. CASE StepReplay
  <2>1. PICK a \in Pending(db) : op' = [pc |-> "create", attempt |-> a]
    BY <1>2 DEF StepReplay
  <2>2. db' = db /\ op'.pc = "create" /\ op'.attempt = a /\ run[a] = "none"
    BY <1>1, <1>2, <2>1 DEF StepReplay, Pending, Accepted
  <2> QED BY <1>1, <2>2, SerialFacts DEF Kept, AdmissionSound
<1>3. CASE StepReserve
  <2>1. CASE db' = Sync(db) /\ op' = Idle
    BY <1>1, <2>1, SerialFacts, SyncFollows DEF Kept, AdmissionSound, Idle
  <2>2. ASSUME NEW t \in Ready(Sync(db)), db' = Reserved(Sync(db), t),
               op' = [pc |-> "create", attempt |-> Latest(db', t)]
        PROVE  Kept /\ AdmissionSound'
    <3>1. Kept /\ db'.order = "running" /\ run[Latest(db', t)] = "none"
      BY <1>1, <1>3, <2>2, ReserveKept DEF StepReserve
    <3>2. op'.pc = "create" /\ op'.attempt = Latest(db', t)
      BY <2>2
    <3> QED BY <1>1, <3>1, <3>2 DEF AdmissionSound
  <2> QED BY <1>3, <2>1, <2>2 DEF StepReserve
<1> QED BY <1>2, <1>3

\* Nobody waits any more for an attempt that was abandoned.
LEMMA AbandonedFollows ==
    ASSUME NEW d \in Rows, RowsSound(d), FollowsRuns(d), NEW a \in Attempt, Awaited(d, a)
    PROVE  /\ FollowsRuns(Abandoned(d, a)) /\ Abandoned(d, a).plan = d.plan
           /\ d.order \in {"succeeded", "cancelled"} => Abandoned(d, a).order = d.order
<1> DEFINE outcome == IF d.order = "cancelled" THEN "cancelled" ELSE "failed"
           state == SetTask(d, a[1], outcome)
           e == [d EXCEPT !.intent[a] = "abandoned", !.attempt[a] = outcome, !.task[a[1]] = state]
<1>1. Abandoned(d, a) = Refresh(e)
  BY DEF Abandoned
<1>2. /\ a[1] \in Tasks /\ a[2] \in 1..MaxAttempts /\ a = <<a[1], a[2]>>
      /\ outcome \in {"cancelled", "failed"}
  BY AttemptShape
<1>3. state \in {d.task[a[1]], "cancelled", "failed"}
  BY DEF SetTask
<1> HIDE DEF outcome, state
<1>4. /\ e.intent = [d.intent EXCEPT ![a] = "abandoned"]
      /\ e.attempt = [d.attempt EXCEPT ![a] = outcome]
      /\ e.task = [d.task EXCEPT ![a[1]] = state]
      /\ e.order = d.order /\ e.plan = d.plan /\ e \in Rows
  BY <1>2, <1>3 DEF Rows, AttemptStates
<1> HIDE DEF e
<1>5. d.attempt[a] = "reserved" /\ run[a] = "none" /\ d.intent[a] = "pending"
  BY DEF FollowsRuns, AwaitedReady, Awaited
<1>6. \A b \in Attempt : e.attempt[b] = "none" <=> d.attempt[b] = "none"
  BY <1>2, <1>4, <1>5 DEF Rows
<1>7. \A b \in Attempt : Awaited(e, b) => Awaited(d, b) /\ e.attempt[b] = "reserved"
  BY <1>4 DEF Awaited, FollowsRuns, AwaitedReady, Rows
<1>8. \A t \in Tasks : e.task[t] \in {d.task[t], "cancelled", "failed"}
  BY <1>2, <1>3, <1>4 DEF Rows
<1>9. d.order # "succeeded"
  <2>1. Number(d, a[1]) \in 0..MaxAttempts /\ a[2] <= Number(d, a[1])
    BY <1>2, <1>5, NumberOf
  <2>2. TaskTold(d, a[1])
    BY <1>2 DEF FollowsRuns
  <2>3. ~Spent(d, a) /\ ~Achieved(a)
    BY <1>5 DEF Spent, Live, Achieved
  <2>4. a[2] = Number(d, a[1])
    <3>1. ~(a[2] < Number(d, a[1]))
      BY <1>2, <2>2, <2>3 DEF TaskTold
    <3> QED BY <1>2, <2>1, <3>1, WorkOrdersAssumption
  <2>5. Latest(d, a[1]) = a /\ Number(d, a[1]) > 0
    BY <1>2, <2>4, WorkOrdersAssumption DEF Latest
  <2>6. d.task[a[1]] # "succeeded" /\ a[1] \in DOMAIN d.plan
    BY <2>2, <2>3, <2>5 DEF TaskTold
  <2> QED BY <2>6 DEF FollowsRuns, OrderTold
<1>10. FollowsRuns(e)
  BY <1>4, <1>6, <1>7, <1>8, <1>9, RowsFollow DEF OrderTold
<1> QED BY <1>1, <1>4, <1>10, RefreshFollows, RefreshKeeps

LEMMA SettleKept ==
    ASSUME SerialInv, StepSettle \/ StepError \/ StepFault \/ StopFails \/ StopIntents \/ Close
    PROVE  Kept /\ AdmissionSound'
<1>1. /\ FollowsRuns(Sync(db)) /\ Sync(db).plan = db.plan
      /\ Sync(db) \in Rows /\ RowsSound(Sync(db))
      /\ db.order \in {"succeeded", "cancelled"} => Sync(db).order = db.order
      /\ \A a \in Attempt : Awaited(Sync(db), a) <=> Awaited(db, a)
      /\ \A a \in Attempt : a \in Accepted => Sync(db).intent[a] = "admitted"
  BY SerialFacts, SyncFollows, SyncAdmits
<1>2. FollowsRuns(db) /\ db \in Rows /\ op \in Operations /\ OperationSound /\ AdmissionSound
  BY SerialFacts DEF Standing
<1>3. ASSUME NEW a \in Attempt, Awaited(Sync(db), a), db' = Abandoned(Sync(db), a),
             UNCHANGED <<run, lease>>
      PROVE  Kept
  BY <1>1, <1>3, AbandonedFollows DEF Kept
<1>4. CASE StepSettle
  <2> DEFINE d == Sync(db)
             a == op.attempt
  <2>1. db' = IF op.known /\ d.intent[a] = "pending" THEN Abandoned(d, a) ELSE d
    BY <1>4, Zenon DEF StepSettle
  <2>2. a \in Attempt /\ op' = [pc |-> "error"] /\ UNCHANGED <<run, lease>>
    BY <1>2, <1>4 DEF StepSettle, Working, Operations
  <2>3. d.intent[a] = "pending" => Awaited(d, a)
    BY <1>1, <2>2 DEF Awaited, Accepted
  <2>4. Kept
    BY <1>1, <1>3, <2>1, <2>2, <2>3 DEF Kept
  <2> QED BY <2>2, <2>4 DEF AdmissionSound
<1>5. CASE StepError
  <2>1. UNCHANGED <<run, lease>> /\ op' = Idle
    BY <1>5 DEF StepError
  <2>2. db' = db \/ (db' \in Rows /\ db'.task = db.task /\ db'.attempt = db.attempt
                      /\ db'.intent = db.intent /\ db'.plan = db.plan
                      /\ (db'.order = db.order \/ (db'.order = "paused"
                                                    /\ db.order \notin {"succeeded", "cancelled"})))
    BY <1>2, <1>5 DEF StepError, Rows
  <2>3. \A a \in Attempt : Awaited(db', a) => Awaited(db, a) /\ db'.attempt[a] = "reserved"
    BY <1>2, <2>2 DEF Awaited, FollowsRuns, AwaitedReady
  <2>4. OrderTold(db')
    BY <1>2, <2>2 DEF FollowsRuns, OrderTold
  <2>5. FollowsRuns(db')
    BY <1>2, <2>2, <2>3, <2>4, RowsFollow
  <2> QED BY <2>1, <2>2, <2>5 DEF Kept, AdmissionSound, Idle
<1>6. CASE StepFault \/ StopFails
  <2>1. UNCHANGED <<db, run, lease>> /\ op'.pc \in {"error", "idle"}
    BY <1>6 DEF StepFault, StopFails, Idle
  <2> QED BY <1>2, <2>1 DEF Kept, AdmissionSound
<1>7. CASE Close
  <2>1. UNCHANGED <<db, run, lease, op>>
    BY <1>7 DEF Close
  <2> QED BY <1>2, <2>1 DEF Kept, AdmissionSound, Pending, Accepted
<1>8. CASE StopIntents
  <2>1. UNCHANGED <<run, lease>> /\ op.pc = "stop"
    BY <1>8 DEF StopIntents, Working
  <2>2. CASE db' = Sync(db) /\ op' = Idle
    BY <1>1, <2>1, <2>2 DEF Kept, AdmissionSound, Idle
  <2>3. ASSUME NEW a \in Pending(db), db' = Abandoned(Sync(db), a), op' = op
        PROVE  Kept /\ AdmissionSound'
    <3>1. a \in Attempt /\ Awaited(db, a)
      BY <1>2, <2>1 DEF OperationSound, Pending, Accepted, Awaited
    <3> QED BY <1>1, <1>3, <2>1, <2>3, <3>1 DEF AdmissionSound
  <2> QED BY <1>8, <2>2, <2>3 DEF StopIntents
<1> QED BY <1>4, <1>5, <1>6, <1>7, <1>8

-----------------------------------------------------------------------------
(* The runs move, the rows do not.                                         *)

LEMMA RunsFollow ==
    ASSUME SerialInv, db' = db,
           \A a \in Attempt : /\ Live(db, a)' => Live(db, a)
                              /\ Awaited(db, a)' => Awaited(db, a)
                              /\ Spent(db, a) => Spent(db, a)'
                              /\ Achieved(a) => Achieved(a)'
    PROVE  FollowsRuns(db)'
<1>1. FollowsRuns(db) /\ db \in Rows /\ RowsSound(db)
  BY SerialFacts DEF Standing
<1>2. Done \subseteq Done'
  BY DEF Done
<1>3. OneLive(db)'
  BY <1>1 DEF FollowsRuns, OneLive
<1>4. AwaitedReady(db)'
  BY <1>1, <1>2 DEF FollowsRuns, AwaitedReady
<1>5. ASSUME NEW t \in Tasks PROVE TaskTold(db, t)'
  <2>1. TaskTold(db, t)
    BY <1>1 DEF FollowsRuns
  <2>2. Number(db, t)' = Number(db, t) /\ Latest(db, t)' = Latest(db, t)
    BY DEF Number, Latest
  <2>3. \A n \in 1..MaxAttempts : Spent(db, <<t, n>>) => Spent(db, <<t, n>>)'
    BY DEF Attempt
  <2>4. Number(db, t) > 0 => Latest(db, t) \in Attempt
    BY <1>1, LatestIs
  <2>5. Number(db, t) > 0 /\ Achieved(Latest(db, t)) => Achieved(Latest(db, t))'
    BY <2>2, <2>4
  <2> QED BY <2>1, <2>2, <2>3, <2>5 DEF TaskTold
<1>6. OrderTold(db)'
  BY <1>1 DEF FollowsRuns, OrderTold
<1> QED BY <1>3, <1>4, <1>5, <1>6 DEF FollowsRuns

\* One run moves that is engaged: it is the current one, and ends or goes on.
OneMoves(a) ==
    /\ Engaged(a) /\ run'[a] # "none" /\ db' = db
    /\ \A b \in Attempt \ {a} : run'[b] = run[b] /\ lease'[b] = lease[b]

LEMMA OneMovesFollows ==
    ASSUME SerialInv, NEW a \in Attempt, OneMoves(a)
    PROVE  FollowsRuns(db)' /\ LeasesKnown'
<1>1. \A b \in Attempt \ {a} : /\ Live(db, b)' <=> Live(db, b)
                               /\ Awaited(db, b)' <=> Awaited(db, b)
                               /\ Spent(db, b) <=> Spent(db, b)'
                               /\ Achieved(b) <=> Achieved(b)'
  BY DEF OneMoves, Live, Awaited, Spent, Achieved, Engaged
<1>2. Live(db, a) /\ ~Spent(db, a) /\ ~Achieved(a) /\ ~Awaited(db, a)'
  BY DEF OneMoves, Live, Awaited, Spent, Achieved, Engaged
<1>3. FollowsRuns(db)'
  <2>1. db' = db
    BY DEF OneMoves
  <2>2. \A b \in Attempt : /\ Live(db, b)' => Live(db, b)
                           /\ Awaited(db, b)' => Awaited(db, b)
                           /\ Spent(db, b) => Spent(db, b)'
                           /\ Achieved(b) => Achieved(b)'
    BY <1>1, <1>2
  <2> QED BY <2>1, <2>2, RunsFollow
<1> QED BY <1>3, SerialFacts DEF LeasesKnown, OneMoves

\* Nothing is known of the runs that is not known of the attempts.
LEMMA StillFollows ==
    ASSUME SerialInv, UNCHANGED <<db, run, lease>>
    PROVE  FollowsRuns(db)' /\ LeasesKnown'
<1>1. \A b \in Attempt : /\ Live(db, b)' <=> Live(db, b)
                         /\ Awaited(db, b)' <=> Awaited(db, b)
                         /\ Spent(db, b) <=> Spent(db, b)'
                         /\ Achieved(b) <=> Achieved(b)'
  BY DEF Live, Awaited, Spent, Achieved, Engaged
<1> QED BY <1>1, RunsFollow, SerialFacts DEF LeasesKnown

\* Which run a step moves, if any.
LEMMA RunStepMoves ==
    ASSUME SerialInv, NEW a \in Attempt,
           Run(a) \/ RunApproved(a) \/ RunExpired(a) \/ RunCancelled(a)
    PROVE  OneMoves(a) /\ UNCHANGED op
<1>1. Engaged(a)
  BY DEF Run, RunTaken, RunEnded, RunAsks, RunReleased, RunApproved, RunExpired, RunCancelled,
         Engaged
<1>2. \E s \in Over \cup {"queued", "running", "interrupted"} : \E l \in BOOLEAN : RunMoves(a, s, l)
  <2>1. RunReleased(a) => RunMoves(a, run[a], FALSE) /\ run[a] \in Over
    BY DEF RunReleased
  <2>2. RunTaken(a) => RunMoves(a, "running", TRUE)
    BY DEF RunTaken
  <2>3. RunEnded(a) => \E s \in Over : RunMoves(a, s, TRUE)
    BY DEF RunEnded
  <2>4. RunAsks(a) => RunMoves(a, "interrupted", TRUE)
    BY DEF RunAsks
  <2>5. RunApproved(a) => RunMoves(a, "queued", TRUE)
    BY DEF RunApproved
  <2>6. RunExpired(a) => RunMoves(a, "failed", FALSE) /\ "failed" \in Over
    BY DEF RunExpired, Over
  <2>7. RunCancelled(a) => RunMoves(a, "cancelled", FALSE) /\ "cancelled" \in Over
    BY DEF RunCancelled, Over
  <2> QED BY <2>1, <2>2, <2>3, <2>4, <2>5, <2>6, <2>7 DEF Run
<1>4. PICK s \in Over \cup {"queued", "running", "interrupted"}, l \in BOOLEAN : RunMoves(a, s, l)
  BY <1>2
<1>3. run \in [Attempt -> RunStates] /\ lease \in [Attempt -> BOOLEAN]
  BY SerialFacts DEF Standing, RunsTyped
<1> QED BY <1>1, <1>3, <1>4 DEF RunMoves, OneMoves, Over

LEMMA StopRunMoves ==
    ASSUME SerialInv, StopRun
    PROVE  op'.pc = "stop" /\ (UNCHANGED <<db, run, lease>> \/ \E a \in Attempt : OneMoves(a))
<1>1. op \in [pc : {"stop"}, left : SUBSET Attempt]
  BY SerialFacts DEF Standing, StopRun, Working, Operations
<1>2. run \in [Attempt -> RunStates] /\ lease \in [Attempt -> BOOLEAN]
  BY SerialFacts DEF Standing, RunsTyped
<1>3. PICK a \in op.left :
        LET waits == run[a] \in {"queued", "interrupted"}
        IN  /\ run' = [run EXCEPT ![a] = IF waits THEN "cancelled" ELSE @]
            /\ lease' = [lease EXCEPT ![a] = @ /\ ~waits]
            /\ op' = [op EXCEPT !.left = @ \ {a}]
  BY DEF StopRun
<1>4. a \in Attempt /\ db' = db /\ op'.pc = "stop"
  BY <1>1, <1>3 DEF StopRun
<1>5. CASE run[a] \in {"queued", "interrupted"}
  <2>1. OneMoves(a)
    BY <1>2, <1>3, <1>4, <1>5 DEF OneMoves, Engaged
  <2> QED BY <1>4, <2>1
<1>6. CASE run[a] \notin {"queued", "interrupted"}
  <2>1. run' = run
    BY <1>2, <1>3, <1>4, <1>6
  <2>2. lease' = [lease EXCEPT ![a] = lease[a] /\ TRUE]
    BY <1>3, <1>6
  <2>3. lease' = lease
    BY <1>2, <1>4, <2>2
  <2> QED BY <1>4, <2>1, <2>3
<1> QED BY <1>5, <1>6

LEMMA RestartMoves ==
    ASSUME SerialInv, Restart
    PROVE  op'.pc = "recover" /\ (UNCHANGED <<db, run, lease>> \/ \E a \in Attempt : OneMoves(a))
<1>1. /\ run \in [Attempt -> RunStates] /\ lease \in [Attempt -> BOOLEAN] /\ LeasesKnown
      /\ OneLive(db)
  BY SerialFacts DEF Standing, RunsTyped, FollowsRuns
<1>2. /\ run' = [a \in Attempt |-> IF run[a] \in {"queued", "running"} THEN "failed" ELSE run[a]]
      /\ lease' = [a \in Attempt |-> lease[a] /\ run[a] = "interrupted"]
      /\ db' = db /\ op'.pc = "recover"
  BY DEF Restart
<1>3. \A b \in Attempt : ~Engaged(b) => run'[b] = run[b] /\ lease'[b] = lease[b]
  BY <1>1, <1>2 DEF Engaged
<1>4. CASE \E a \in Attempt : Engaged(a)
  <2>1. PICK a \in Attempt : Engaged(a)
    BY <1>4
  <2>2. \A b \in Attempt \ {a} : ~Engaged(b)
    BY <1>1, <2>1 DEF OneLive, Live
  <2>3. run'[a] # "none"
    BY <1>1, <1>2, <2>1 DEF Engaged, LeasesKnown
  <2> QED BY <1>2, <1>3, <2>1, <2>2, <2>3 DEF OneMoves
<1>5. CASE \A a \in Attempt : ~Engaged(a)
  <2>1. run' = run /\ lease' = lease
    BY <1>1, <1>2, <1>3, <1>5
  <2> QED BY <1>2, <2>1
<1> QED BY <1>4, <1>5

\* What a creation does: the attempt that is awaited is no longer, or runs.
LEMMA CreateFollows ==
    ASSUME SerialInv, StepCreate
    PROVE  /\ FollowsRuns(db)' /\ LeasesKnown' /\ AdmissionSound'
           /\ op.attempt \in Attempt /\ Awaited(db, op.attempt)
           /\ db.order \in {"queued", "running"} /\ db' = db
           /\ \/ UNCHANGED <<run, lease>>
              \/ run' = [run EXCEPT ![op.attempt] = "failed"] /\ lease' = lease
              \/ /\ run' = [run EXCEPT ![op.attempt] = "queued"]
                 /\ lease' = [lease EXCEPT ![op.attempt] = TRUE]
<1> DEFINE a == op.attempt
<1>1. /\ run \in [Attempt -> RunStates] /\ lease \in [Attempt -> BOOLEAN] /\ LeasesKnown
      /\ op.pc = "create" /\ db' = db
  BY SerialFacts DEF Standing, RunsTyped, StepCreate, Working
<1>2. a \in Attempt /\ Awaited(db, a) /\ db.order \in {"queued", "running"}
  BY <1>1, SerialFacts DEF Standing, Operations, OperationSound, AdmissionSound, Awaited
<1>3. \/ UNCHANGED <<run, lease>>
      \/ run' = [run EXCEPT ![a] = "failed"] /\ lease' = lease
      \/ run' = [run EXCEPT ![a] = "queued"] /\ lease' = [lease EXCEPT ![a] = TRUE]
  BY DEF StepCreate
<1>4. op'.pc \in {"verify", "settle"}
  BY DEF StepCreate
<1> HIDE DEF a
<1>5. \A b \in Attempt \ {a} : run'[b] = run[b] /\ lease'[b] = lease[b]
  BY <1>1, <1>3
<1>6. \A b \in Attempt \ {a} : /\ Live(db, b)' <=> Live(db, b)
                               /\ Awaited(db, b)' <=> Awaited(db, b)
                               /\ Spent(db, b) <=> Spent(db, b)'
                               /\ Achieved(b) <=> Achieved(b)'
  BY <1>1, <1>5 DEF Live, Awaited, Spent, Achieved, Engaged
<1>7. Live(db, a) /\ ~Spent(db, a) /\ ~Achieved(a)
  BY <1>2 DEF Live, Awaited, Spent, Achieved
<1>8. FollowsRuns(db)'
  <2>1. \A b \in Attempt : /\ Live(db, b)' => Live(db, b)
                           /\ Awaited(db, b)' => Awaited(db, b)
                           /\ Spent(db, b) => Spent(db, b)'
                           /\ Achieved(b) => Achieved(b)'
    BY <1>2, <1>6, <1>7
  <2> QED BY <1>1, <2>1, RunsFollow
<1>9. LeasesKnown'
  <2>1. lease'[a] => run'[a] # "none"
    BY <1>1, <1>2, <1>3 DEF LeasesKnown
  <2> QED BY <1>1, <1>5, <2>1 DEF LeasesKnown
<1> QED BY <1>1, <1>2, <1>3, <1>4, <1>8, <1>9 DEF AdmissionSound, a

-----------------------------------------------------------------------------
(* SerialInv is inductive.                                                 *)

LEMMA SerialInit == Init => SerialInv
<1> SUFFICES ASSUME Init PROVE SerialInv
  OBVIOUS
<1>1. OrdersInv
  BY InitInv
<1>2. \A a \in Attempt : run[a] = "none" /\ lease[a] = FALSE /\ db.intent[a] = "none"
                           /\ db.attempt[a] = "none"
  BY DEF Init
<1>3. \A a \in Attempt : ~Live(db, a) /\ Spent(db, a)
  BY <1>2 DEF Live, Spent, Awaited, Engaged
<1>4. db \in Rows /\ RowsSound(db) /\ db.order = "draft" /\ op.pc = "idle"
  BY <1>1 DEF OrdersInv, Shapes, Init, Idle
<1>5. ASSUME NEW t \in Tasks PROVE TaskTold(db, t)
  <2>1. \A n \in 1..MaxAttempts : <<t, n>> \in Attempt
    BY DEF Attempt
  <2>2. {n \in 1..MaxAttempts : db.attempt[<<t, n>>] # "none"} = {}
    BY <1>2, <2>1
  <2>3. Number(db, t) = 0
    BY <2>2, FS_EmptySet DEF Number
  <2>4. db.task[t] # "succeeded"
    BY DEF Init
  <2> QED BY <1>3, <2>1, <2>3, <2>4 DEF TaskTold
<1>6. FollowsRuns(db)
  BY <1>3, <1>4, <1>5 DEF FollowsRuns, OneLive, AwaitedReady, OrderTold, Live
<1> QED BY <1>1, <1>2, <1>4, <1>6 DEF SerialInv, AdmissionSound

\* What was shown of the rows for the runs as they are holds after the step.
LEMMA KeptFollows ==
    ASSUME SerialInv, UNCHANGED <<run, lease>>, FollowsRuns(db')
    PROVE  FollowsRuns(db)' /\ LeasesKnown'
<1>1. FollowsRuns(db)'
  BY DEF FollowsRuns, OneLive, AwaitedReady, OrderTold, TaskTold, Spent, Live, Awaited, Engaged,
         Achieved, Done, Number, Latest
<1> QED BY <1>1, SerialFacts DEF LeasesKnown

\* The rows' transactions, the revision and the movements of runs: every step
\* of the specification is one of these.
RowStep == Kept /\ AdmissionSound'
RunStep ==
    \/ UNCHANGED <<db, run, lease>> /\ AdmissionSound'
    \/ \E a \in Attempt : OneMoves(a) /\ AdmissionSound'

LEMMA StepCases ==
    ASSUME SerialInv, [Next]_vars
    PROVE  RowStep \/ RunStep \/ StepCreate \/ \E p \in Plans : Revise(p)
<1>1. CASE UNCHANGED vars
  <2>1. AdmissionSound'
    BY <1>1, SerialFacts DEF vars, AdmissionSound, Pending, Accepted
  <2> QED BY <1>1, <2>1 DEF RunStep, vars
<1>2. CASE Users
  BY <1>2, UsersKept DEF Users, RowStep
<1>3. CASE StepReconcile \/ StepFull \/ StepVerify \/ Recover \/ CloseReconcile
  BY <1>3, ReconcileKept DEF RowStep
<1>4. CASE StepReplay \/ StepReserve
  BY <1>4, AdmitKept DEF RowStep
<1>5. CASE StepSettle \/ StepError \/ StepFault \/ StopFails \/ StopIntents \/ Close
  BY <1>5, SettleKept DEF RowStep
<1>6. CASE StopRun
  BY <1>6, StopRunMoves DEF RunStep, AdmissionSound
<1>7. CASE Restart
  BY <1>7, RestartMoves DEF RunStep, AdmissionSound
<1>8. ASSUME NEW a \in Attempt, Run(a) \/ RunApproved(a) \/ RunExpired(a) \/ RunCancelled(a)
      PROVE  RunStep
  <2>1. OneMoves(a) /\ op' = op
    BY <1>8, RunStepMoves
  <2>2. run[a] # "none"
    BY <2>1, SerialFacts DEF OneMoves, Engaged, LeasesKnown
  <2>3. \A b \in Attempt : run'[b] = "none" <=> run[b] = "none"
    BY <2>1, <2>2 DEF OneMoves
  <2>4. op.pc = "create" => op.attempt \in Attempt
    BY SerialFacts DEF Standing, Operations
  <2>5. AdmissionSound'
    BY <2>1, <2>3, <2>4, SerialFacts DEF AdmissionSound, Pending, Accepted, OneMoves
  <2> QED BY <2>1, <2>5 DEF RunStep
<1> QED BY <1>1, <1>2, <1>3, <1>4, <1>5, <1>6, <1>7, <1>8 DEF Next, Users, Pump

LEMMA SerialNext == SerialInv /\ [Next]_vars => SerialInv'
<1> SUFFICES ASSUME SerialInv, [Next]_vars PROVE SerialInv'
  OBVIOUS
<1>1. OrdersInv'
  BY SerialFacts, NextKeeps
<1>2. CASE RowStep
  BY <1>1, <1>2, KeptFollows DEF RowStep, Kept, SerialInv, LeasesKnown
<1>3. CASE RunStep
  BY <1>1, <1>3, StillFollows, OneMovesFollows DEF RunStep, SerialInv, LeasesKnown
<1>4. CASE StepCreate
  BY <1>1, <1>4, CreateFollows DEF SerialInv, LeasesKnown
<1>5. ASSUME NEW p \in Plans, Revise(p) PROVE SerialInv'
  BY <1>1, <1>5, ReviseFollows, KeptFollows DEF SerialInv, LeasesKnown
<1> QED BY <1>2, <1>3, <1>4, <1>5, StepCases

-----------------------------------------------------------------------------
(* Every step of a work order is a step or a stutter of SerialPlan.          *)

LEMMA MarkIsNoTask == "nobody" \notin Tasks
BY NobodyAssumption

LEMMA OverIsDone ==
    ASSUME NEW d \in Rows, RowsSound(d), FollowsRuns(d), d.order = "succeeded"
    PROVE  DOMAIN d.plan \subseteq Done
<1> SUFFICES ASSUME NEW t \in DOMAIN d.plan PROVE t \in Done
  OBVIOUS
<1>1. t \in Tasks
  BY PlanShape
<1>2. Number(d, t) > 0 /\ Achieved(Latest(d, t))
  BY <1>1 DEF FollowsRuns, OrderTold, TaskTold
<1>3. Latest(d, t) \in Attempt /\ Latest(d, t)[1] = t
  BY <1>1, <1>2, LatestIs
<1> QED BY <1>2, <1>3 DEF Done

LEMMA ReadingsAre ==
    ASSUME SerialInv
    PROVE  /\ Busy \subseteq Tasks /\ Done \subseteq Tasks
           /\ \A t, u \in Busy : t = u
           /\ \A t \in Busy : Current = t /\ t # "nobody"
           /\ Busy = {} => Current = "nobody"
           /\ \A t \in Begun : t \in Tasks /\ Number(db, t) > 0
<1>1. /\ FollowsRuns(db) /\ db \in Rows /\ RowsSound(db) /\ RunsKnown(db)
  BY SerialFacts DEF Standing, OrdersInv
<1>2. Busy \subseteq Tasks /\ Done \subseteq Tasks
  BY AttemptShape DEF Busy, Done
<1>3. \A t, u \in Busy : t = u
  BY <1>1 DEF Busy, FollowsRuns, OneLive, Live
<1>4. \A t \in Busy : Current = t /\ t # "nobody"
  BY <1>2, <1>3, MarkIsNoTask DEF Current
<1>6. ASSUME NEW t \in Begun PROVE t \in Tasks /\ Number(db, t) > 0
  <2>1. PICK a \in Accepted : t = a[1]
    BY DEF Begun
  <2>2. a \in Attempt /\ db.attempt[a] # "none"
    BY <1>1 DEF RunsKnown, RowsSound, Accepted
  <2>3. t \in Tasks /\ a[2] \in 1..MaxAttempts /\ a = <<t, a[2]>>
    BY <2>1, <2>2, AttemptShape
  <2>4. a[2] <= Number(db, t) /\ Number(db, t) \in 0..MaxAttempts
    BY <1>1, <2>2, <2>3, NumberOf
  <2> QED BY <2>3, <2>4, WorkOrdersAssumption
<1> QED BY <1>2, <1>3, <1>4, <1>6 DEF Current

LEMMA ReadingsStay ==
    ASSUME UNCHANGED <<run, lease>>
    PROVE  Begun' = Begun /\ Done' = Done /\ Busy' = Busy /\ Current' = Current
<1>1. Begun' = Begun /\ Done' = Done /\ Busy' = Busy
  BY DEF Begun, Accepted, Done, Achieved, Busy, Engaged
<1> QED BY <1>1 DEF Current

LEMMA RowStepMaps ==
    ASSUME SerialInv, SerialInv', Kept
    PROVE  [Serial!Next]_(Serial!vars)
<1>1. /\ Begun' = Begun /\ Done' = Done /\ Current' = Current /\ db'.plan = db.plan
  BY ReadingsStay DEF Kept
<1>2. \/ Outcome' = Outcome
      \/ Outcome = "open" /\ Outcome' = "cancelled"
      \/ Outcome = "open" /\ Outcome' = "succeeded" /\ db'.order = "succeeded"
  BY DEF Kept, Outcome
<1>3. db'.order = "succeeded" => DOMAIN db'.plan \subseteq Done
  BY OverIsDone DEF Kept, SerialInv, OrdersInv, Shapes
<1>4. CASE Outcome' = Outcome
  BY <1>1, <1>4 DEF Serial!vars
<1>5. CASE Outcome = "open" /\ Outcome' = "cancelled"
  BY <1>1, <1>5 DEF Serial!Next, Serial!Close
<1>6. CASE Outcome = "open" /\ Outcome' = "succeeded" /\ db'.order = "succeeded"
  BY <1>1, <1>3, <1>6 DEF Serial!Next, Serial!Close
<1> QED BY <1>2, <1>4, <1>5, <1>6

LEMMA ReviseMaps ==
    ASSUME SerialInv, SerialInv', NEW p \in Plans, Revise(p)
    PROVE  [Serial!Next]_(Serial!vars)
<1>1. /\ UNCHANGED <<run, lease>> /\ db.order \notin {"succeeded", "cancelled"}
      /\ db'.order # "cancelled" /\ db'.plan = p
      /\ \A t \in Tasks : Number(db, t) > 0 => t \in DOMAIN p /\ p[t] = db.plan[t]
  BY ReviseFollows
<1>2. Begun' = Begun /\ Done' = Done /\ Current' = Current
  BY <1>1, ReadingsStay
<1>3. db'.order = "succeeded" => DOMAIN db'.plan \subseteq Done
  BY ReviseFollows, OverIsDone DEF SerialInv, OrdersInv, Shapes
<1>4. Outcome = "open" /\ Outcome' \in {"open"} \cup {s \in {"succeeded"} : DOMAIN p \subseteq Done}
  BY <1>1, <1>2, <1>3 DEF Outcome
<1>5. Begun \subseteq DOMAIN p /\ \A t \in Begun : p[t] = db.plan[t]
  BY <1>1, ReadingsAre
<1>6. Serial!Replan(p)
  BY <1>1, <1>2, <1>4, <1>5 DEF Serial!Replan
<1> QED BY <1>6 DEF Serial!Next

LEMMA RunStepMaps ==
    ASSUME SerialInv, SerialInv', NEW a \in Attempt, OneMoves(a)
    PROVE  [Serial!Next]_(Serial!vars)
<1>1. /\ Engaged(a) /\ ~Achieved(a) /\ a \in Accepted /\ db' = db
      /\ \A b \in Attempt \ {a} : ~Engaged(b) /\ run'[b] = run[b] /\ lease'[b] = lease[b]
  BY SerialFacts DEF OneMoves, Engaged, Achieved, Accepted, LeasesKnown, FollowsRuns, OneLive, Live
<1>2. Begun' = Begun /\ Outcome' = Outcome /\ db'.plan = db.plan
  <2>1. Accepted' = Accepted
    BY <1>1 DEF Accepted, OneMoves
  <2> QED BY <1>1, <2>1 DEF Begun, Outcome
<1>3. Busy = {a[1]} /\ Current = a[1] /\ Current # "nobody"
  <2>1. Busy = {a[1]}
    BY <1>1 DEF Busy
  <2> QED BY <2>1, ReadingsAre
<1>4. \A b \in Attempt \ {a} : ~Engaged(b)' /\ (Achieved(b)' <=> Achieved(b))
  BY <1>1 DEF Engaged, Achieved
<1>5. Done' = IF Achieved(a)' THEN Done \cup {a[1]} ELSE Done
  BY <1>1, <1>4 DEF Done
<1>6. CASE Engaged(a)'
  <2>1. Busy' = Busy
    BY <1>3, <1>4, <1>6 DEF Busy
  <2>2. Current' = Current
    BY <2>1 DEF Current
  <2>3. Done' = Done
    BY <1>5, <1>6 DEF Engaged, Achieved
  <2> QED BY <1>2, <2>2, <2>3 DEF Serial!vars
<1>7. CASE ~Engaged(a)'
  <2>1. Busy' = {}
    BY <1>4, <1>7 DEF Busy
  <2>2. Current' = "nobody"
    BY <2>1 DEF Current
  <2>3. Serial!End
    BY <1>2, <1>3, <1>5, <2>2 DEF Serial!End
  <2> QED BY <2>3 DEF Serial!Next
<1> QED BY <1>6, <1>7

LEMMA CreateMaps ==
    ASSUME SerialInv, SerialInv', StepCreate
    PROVE  [Serial!Next]_(Serial!vars)
<1>0. PICK a : a = op.attempt
  OBVIOUS
<1> DEFINE t == a[1]
<1>1. /\ a \in Attempt /\ Awaited(db, a) /\ db.order \in {"queued", "running"} /\ db' = db
      /\ \/ UNCHANGED <<run, lease>>
         \/ run' = [run EXCEPT ![a] = "failed"] /\ lease' = lease
         \/ run' = [run EXCEPT ![a] = "queued"] /\ lease' = [lease EXCEPT ![a] = TRUE]
  BY <1>0, CreateFollows
<1>2. /\ run \in [Attempt -> RunStates] /\ lease \in [Attempt -> BOOLEAN] /\ LeasesKnown
      /\ FollowsRuns(db) /\ db \in Rows /\ RowsSound(db)
  BY SerialFacts DEF Standing, RunsTyped
<1>3. run[a] = "none" /\ ~lease[a] /\ ~Engaged(a)
  BY <1>1, <1>2 DEF Awaited, LeasesKnown, Engaged
<1>4. Busy = {} /\ Current = "nobody"
  <2>1. \A b \in Attempt : ~Engaged(b)
    BY <1>1, <1>2, <1>3 DEF FollowsRuns, OneLive, Live
  <2>2. Busy = {}
    BY <2>1 DEF Busy
  <2> QED BY <2>2 DEF Current
<1>5. /\ t \in Tasks /\ a[2] \in 1..MaxAttempts /\ a = <<t, a[2]>>
      /\ a[2] <= Number(db, t) /\ Number(db, t) \in 0..MaxAttempts
  <2>1. t \in Tasks /\ a[2] \in 1..MaxAttempts /\ a = <<t, a[2]>>
    BY <1>1, AttemptShape
  <2>2. db.attempt[a] # "none"
    BY <1>1, <1>2 DEF FollowsRuns, AwaitedReady
  <2> QED BY <1>2, <2>1, <2>2, NumberOf
<1>6. t \in DOMAIN db.plan /\ db.plan[t] \subseteq Done
  BY <1>1, <1>2, <1>5, WorkOrdersAssumption DEF FollowsRuns, AwaitedReady, TaskTold
<1>7. t \notin Done
  <2> SUFFICES ASSUME NEW b \in Attempt, Achieved(b), b[1] = t PROVE FALSE
    BY DEF Done
  <2>1. b[2] \in 1..MaxAttempts /\ b = <<t, b[2]>> /\ db.attempt[b] # "none"
    BY <1>2, SerialFacts, AttemptShape DEF Achieved, OrdersInv, RunsKnown, RowsSound, Accepted
  <2>2. b[2] <= Number(db, t)
    BY <1>2, <1>5, <2>1, NumberOf
  <2>3. ~Spent(db, a) /\ ~Spent(db, b) /\ TaskTold(db, t)
    BY <1>1, <1>2, <1>5 DEF Spent, Live, Achieved, FollowsRuns
  <2>4. ~(a[2] < Number(db, t)) /\ ~(b[2] < Number(db, t))
    BY <1>5, <2>1, <2>3 DEF TaskTold
  <2>5. a[2] = b[2]
    BY <1>5, <2>1, <2>2, <2>4, WorkOrdersAssumption
  <2> QED BY <1>3, <1>5, <2>1, <2>5 DEF Achieved
<1>8. Outcome = "open" /\ Outcome' = "open" /\ db'.plan = db.plan
  BY <1>1 DEF Outcome
<1>9. CASE UNCHANGED <<run, lease>>
  BY <1>1, <1>9, ReadingsStay, <1>8 DEF Serial!vars
<1>10. CASE run' # run \/ lease' # lease
  <2>1. /\ run'[a] \in {"queued", "failed"} /\ lease'[a] = (run'[a] = "queued")
        /\ \A b \in Attempt \ {a} : run'[b] = run[b] /\ lease'[b] = lease[b]
    BY <1>1, <1>2, <1>3, <1>10
  <2>2. Begun' = Begun \cup {t}
    <3>1. Accepted' = Accepted \cup {a}
      BY <1>1, <2>1 DEF Accepted
    <3> QED BY <3>1 DEF Begun
  <2>3. Done' = Done
    <3>1. \A b \in Attempt : Achieved(b)' <=> Achieved(b)
      BY <1>3, <2>1 DEF Achieved
    <3> QED BY <3>1 DEF Done
  <2>4. \A b \in Attempt \ {a} : ~Engaged(b)'
    <3>1. \A b \in Attempt : ~Engaged(b)
      BY <1>1, <1>2, <1>3 DEF FollowsRuns, OneLive, Live
    <3> QED BY <2>1, <3>1 DEF Engaged
  <2>5. CASE run'[a] = "queued"
    <3>1. Engaged(a)'
      BY <2>5 DEF Engaged
    <3>2. Busy' = {t}
      <4>1. \A b \in Attempt : Engaged(b)' <=> b = a
        BY <1>1, <2>4, <3>1
      <4> QED BY <1>1, <4>1 DEF Busy
    <3>3. Current' = t
      BY <3>2 DEF Current
    <3>4. Serial!Begin(t)
      BY <1>4, <1>6, <1>7, <1>8, <2>2, <2>3, <3>3 DEF Serial!Begin
    <3> QED BY <1>6, <3>4 DEF Serial!Next
  <2>6. CASE run'[a] = "failed"
    <3>1. ~Engaged(a)'
      BY <2>1, <2>6 DEF Engaged
    <3>2. Busy' = {}
      <4>1. \A b \in Attempt : ~Engaged(b)'
        BY <2>4, <3>1
      <4> QED BY <4>1 DEF Busy
    <3>3. Current' = "nobody"
      BY <3>2 DEF Current
    <3>4. Serial!Begin(t)
      BY <1>4, <1>6, <1>7, <1>8, <2>2, <2>3, <3>3 DEF Serial!Begin
    <3> QED BY <1>6, <3>4 DEF Serial!Next
  <2> QED BY <2>1, <2>5, <2>6
<1> QED BY <1>9, <1>10

LEMMA StepMaps ==
    ASSUME SerialInv, SerialInv', [Next]_vars
    PROVE  [Serial!Next]_(Serial!vars)
<1>1. CASE RowStep
  BY <1>1, RowStepMaps DEF RowStep
<1>2. CASE RunStep
  <2>1. CASE UNCHANGED <<db, run, lease>>
    BY <2>1, ReadingsStay DEF Serial!vars, Outcome
  <2> QED BY <1>2, <2>1, RunStepMaps DEF RunStep
<1>3. CASE StepCreate
  BY <1>3, CreateMaps
<1>4. ASSUME NEW p \in Plans, Revise(p) PROVE [Serial!Next]_(Serial!vars)
  BY <1>4, ReviseMaps
<1> QED BY <1>1, <1>2, <1>3, <1>4, StepCases

LEMMA InitMaps == Init => Serial!Init
<1> SUFFICES ASSUME Init PROVE Serial!Init
  OBVIOUS
<1>1. \A a \in Attempt : run[a] = "none" /\ lease[a] = FALSE
  BY DEF Init
<1>2. Begun = {} /\ Done = {} /\ Busy = {}
  BY <1>1 DEF Begun, Accepted, Done, Achieved, Busy, Engaged
<1>3. Current = "nobody" /\ Outcome = "open" /\ db.plan \in Plans
  BY <1>2 DEF Current, Outcome, Init
<1> QED BY <1>2, <1>3 DEF Serial!Init

\* Whatever is retried, revised, cancelled or recovered, the runs of a work
\* order are a serial execution of its plan (WorkOrderStore, the orchestrator's
\* _step): the specification implements SerialPlan.
THEOREM PlanRunsSerially == Spec => RunsPlanSerially
<1>1. SerialInv /\ SerialInv' /\ [Next]_vars => [Serial!Next]_(Serial!vars)
  BY StepMaps
<1> QED BY <1>1, InitMaps, SerialInit, SerialNext, PTL DEF Spec, RunsPlanSerially, Serial!Spec

=============================================================================
