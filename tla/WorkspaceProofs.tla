--------------------------- MODULE WorkspaceProofs ---------------------------
(***************************************************************************)
(* What holds of the components that share a workspace, for every value of  *)
(* their constants: the checkpoint lease, the stores, the life of the       *)
(* service, the verification reviews, the application of patches, the turns *)
(* of a conversation.  Each section shows an invariant of one component     *)
(* inductive; the last one carries the results over to SumSpec, whose steps *)
(* are steps or stutters of every component.                                *)
(***************************************************************************)
EXTENDS Components, SequenceTheorems, WellFoundedInduction, TLAPS

-----------------------------------------------------------------------------
(* CheckpointLease: any cursors, any number of cancellations *)

LEMMA LeaseInvInit == Init => LeaseInv
<1> SUFFICES ASSUME Init PROVE LeaseInv
  OBVIOUS
<1>1. TypeOK
  BY DEF Init, TypeOK, NoCursor
<1>2. Stages /\ JobAwaited
  BY DEF Init, Stages, JobAwaited
<1>3. CursorsKnown /\ LeaseEndsClean
  BY DEF Init, CursorsKnown, LeaseEndsClean, NoCursor
<1>4. Outcomes
  BY DEF Init, Outcomes, NoCursor, NoJob, Whole, Dispose, Acquire
<1> QED
  BY <1>1, <1>2, <1>3, <1>4 DEF Init, LeaseInv, ToldAtEnd

\* The worker changes what its job is about, and its job is awaited or unclear.
LEMMA LeaseInvWorker == LeaseInv /\ Worker => LeaseInv'
<1> SUFFICES ASSUME LeaseInv, Worker PROVE LeaseInv'
  OBVIOUS
<1> USE DEF LeaseInv, TypeOK, Stages, JobAwaited, CursorsKnown, Outcomes, LeaseEndsClean,
    ToldAtEnd, Works,
            caller, Whole, Acquire, Dispose, NoJob, NoCursor, Held, AllAsked
<1>1. CASE WorkOpen
  BY <1>1 DEF WorkOpen
<1>2. CASE WorkSetup
  BY <1>2 DEF WorkSetup
<1>3. CASE WorkClose
  BY <1>3 DEF WorkClose
<1>4. ASSUME NEW c \in Cursors, WorkAcquire(c) PROVE LeaseInv'
  <2>1. TypeOK'
    BY <1>4 DEF WorkAcquire, Native
  <2>2. Stages'
    BY <1>4 DEF WorkAcquire, Native
  <2>3. JobAwaited'
    BY <1>4 DEF WorkAcquire, Native
  <2>4. CursorsKnown'
    BY <1>4 DEF WorkAcquire, Native
  <2>5. Outcomes'
    BY <1>4 DEF WorkAcquire, Native
  <2>6. LeaseEndsClean'
    BY <1>4 DEF WorkAcquire, Native
  <2>7. ToldAtEnd'
    BY <1>4 DEF WorkAcquire, Native
  <2> QED
    BY <2>1, <2>2, <2>3, <2>4, <2>5, <2>6, <2>7
<1>5. ASSUME NEW c \in Cursors, WorkDispose(c) PROVE LeaseInv'
  <2>1. TypeOK'
    BY <1>5 DEF WorkDispose, Native
  <2>2. Stages'
    BY <1>5 DEF WorkDispose, Native
  <2>3. JobAwaited'
    BY <1>5 DEF WorkDispose, Native
  <2>4. CursorsKnown'
    BY <1>5 DEF WorkDispose, Native
  <2>5. Outcomes'
    BY <1>5 DEF WorkDispose, Native
  <2>6. LeaseEndsClean'
    BY <1>5 DEF WorkDispose, Native
  <2>7. ToldAtEnd'
    BY <1>5 DEF WorkDispose, Native
  <2> QED
    BY <2>1, <2>2, <2>3, <2>4, <2>5, <2>6, <2>7
<1> QED
  BY <1>1, <1>2, <1>3, <1>4, <1>5 DEF Worker

\* The lease goes on when the job it waits for is done.
LEMMA LeaseInvLeasing == LeaseInv /\ Leasing => LeaseInv'
<1> SUFFICES ASSUME LeaseInv, Leasing PROVE LeaseInv'
  OBVIOUS
<1> USE DEF LeaseInv, TypeOK, Stages, JobAwaited, CursorsKnown, Outcomes, LeaseEndsClean, ToldAtEnd,
            caller, work, Whole, Acquire, Dispose, NoJob, NoCursor, Held, AllAsked,
            Queue, Quiet, GiveUp, Drained
<1>1. CASE Factory
  <2>1. TypeOK'
    BY <1>1 DEF Factory
  <2>2. Stages'
    BY <1>1 DEF Factory
  <2>3. JobAwaited'
    BY <1>1 DEF Factory
  <2>4. CursorsKnown'
    BY <1>1 DEF Factory
  <2>5. Outcomes'
    BY <1>1 DEF Factory
  <2>6. LeaseEndsClean'
    BY <1>1 DEF Factory
  <2>7. ToldAtEnd'
    BY <1>1 DEF Factory
  <2> QED
    BY <2>1, <2>2, <2>3, <2>4, <2>5, <2>6, <2>7
<1>2. CASE Opened
  <2>1. TypeOK'
    BY <1>2 DEF Opened
  <2>2. Stages'
    BY <1>2 DEF Opened
  <2>3. JobAwaited'
    BY <1>2 DEF Opened
  <2>4. CursorsKnown'
    BY <1>2 DEF Opened
  <2>5. Outcomes'
    BY <1>2 DEF Opened
  <2>6. LeaseEndsClean'
    BY <1>2 DEF Opened
  <2>7. ToldAtEnd'
    BY <1>2 DEF Opened
  <2> QED
    BY <2>1, <2>2, <2>3, <2>4, <2>5, <2>6, <2>7
<1>3. CASE SetupLost
  BY <1>3 DEF SetupLost
<1>4. CASE SetUp
  <2>1. TypeOK'
    BY <1>4 DEF SetUp
  <2>2. Stages'
    BY <1>4 DEF SetUp
  <2>3. JobAwaited'
    BY <1>4 DEF SetUp
  <2>4. CursorsKnown'
    BY <1>4 DEF SetUp
  <2>5. Outcomes'
    BY <1>4 DEF SetUp
  <2>6. LeaseEndsClean'
    BY <1>4 DEF SetUp
  <2>7. ToldAtEnd'
    BY <1>4 DEF SetUp
  <2> QED
    BY <2>1, <2>2, <2>3, <2>4, <2>5, <2>6, <2>7
<1>5. CASE BodyEnds
  BY <1>5 DEF BodyEnds
<1>6. CASE CloseConnection
  BY <1>6 DEF CloseConnection
<1>7. CASE Closed
  <2>1. TypeOK'
    BY <1>7 DEF Closed
  <2>2. Stages'
    BY <1>7 DEF Closed
  <2>3. JobAwaited'
    BY <1>7 DEF Closed
  <2>4. CursorsKnown'
    BY <1>7 DEF Closed
  <2>5. Outcomes'
    BY <1>7 DEF Closed
  <2>6. LeaseEndsClean'
    BY <1>7 DEF Closed
  <2>7. ToldAtEnd'
    BY <1>7 DEF Closed
  <2> QED
    BY <2>1, <2>2, <2>3, <2>4, <2>5, <2>6, <2>7
<1> QED
  BY <1>1, <1>2, <1>3, <1>4, <1>5, <1>6, <1>7 DEF Leasing

\* A cursor is used, left or given up.
LEMMA LeaseInvUsing == LeaseInv /\ Using => LeaseInv'
<1> SUFFICES ASSUME LeaseInv, NEW c \in Cursors,
                    Use(c) \/ Acquired(c) \/ Leave(c) \/ Left(c) \/ CloseCursor(c)
             PROVE  LeaseInv'
  BY DEF Using
<1> USE DEF LeaseInv, TypeOK, Stages, JobAwaited, CursorsKnown, Outcomes, LeaseEndsClean, ToldAtEnd,
            caller, Whole, Acquire, Dispose, NoJob, NoCursor, Held, AllAsked, Queue, Quiet
<1>1. CASE Use(c)
  BY <1>1 DEF Use
<1>2. CASE Acquired(c)
  <2>1. TypeOK'
    <3>1. cursor' \in [Cursors -> [known : BOOLEAN, native : BOOLEAN, closing : BOOLEAN]]
      <4>1. cursor' = cursor \/ cursor' = [cursor EXCEPT ![c].known = TRUE]
        BY <1>2, Zenon DEF Acquired
      <4>2. cursor \in [Cursors -> [known : BOOLEAN, native : BOOLEAN, closing : BOOLEAN]]
        OBVIOUS
      <4> HIDE DEF LeaseInv
      <4> QED
        BY <4>1, <4>2
    <3>2. /\ awaited' \in BOOLEAN /\ erred' \in BOOLEAN /\ cancelled' \in BOOLEAN
          /\ unclear' \in BOOLEAN
      BY <1>2, ZenonT(30) DEF Acquired
    <3> QED
      BY <1>2, <3>1, <3>2 DEF Acquired
  <2>2. Stages'
    BY <1>2 DEF Acquired, Lost
  <2>3. JobAwaited'
    BY <1>2 DEF Acquired, Lost
  <2>4. CursorsKnown'
    BY <1>2 DEF Acquired, Lost
  <2>5. Outcomes'
    BY <1>2 DEF Acquired, Lost
  <2>6. LeaseEndsClean'
    BY <1>2 DEF Acquired, Lost
  <2>7. ToldAtEnd'
    BY <1>2 DEF Acquired, Lost
  <2> QED
    BY <2>1, <2>2, <2>3, <2>4, <2>5, <2>6, <2>7
<1>3. CASE Leave(c)
  BY <1>3 DEF Leave
<1>4. CASE Left(c)
  BY <1>4 DEF Left
<1>5. CASE CloseCursor(c)
  BY <1>5 DEF CloseCursor
<1> QED
  BY <1>1, <1>2, <1>3, <1>4, <1>5

LEMMA LeaseInvNext == LeaseInv /\ [Next]_vars => LeaseInv'
<1>1. ASSUME LeaseInv, Cancel PROVE LeaseInv'
  BY <1>1 DEF Cancel, LeaseInv, TypeOK, Stages, JobAwaited, CursorsKnown, Outcomes,
     LeaseEndsClean, ToldAtEnd, work, Held, AllAsked
<1>2. ASSUME LeaseInv, UNCHANGED vars PROVE LeaseInv'
  BY <1>2 DEF vars, LeaseInv, TypeOK, Stages, JobAwaited, CursorsKnown, Outcomes, LeaseEndsClean,
     ToldAtEnd, Held, AllAsked
<1> QED
  BY <1>1, <1>2, LeaseInvWorker, LeaseInvLeasing, LeaseInvUsing DEF Next

\* However often the caller is cancelled and whatever it abandons: a lease that
\* ends and is not unclear has left no job, no connection and no cursor.
THEOREM LeaseLeavesNothing == Spec => []LeaseEndsClean
<1>1. LeaseInv => LeaseEndsClean
  BY DEF LeaseInv
<1> QED
  BY <1>1, LeaseInvInit, LeaseInvNext, PTL DEF Spec

\* While nothing is unclear the lease knows of every native cursor, or waits
\* for the one job that makes or closes it.
THEOREM LeaseKnowsCursors == Spec => []CursorsKnown
<1>1. LeaseInv => CursorsKnown
  BY DEF LeaseInv
<1> QED
  BY <1>1, LeaseInvInit, LeaseInvNext, PTL DEF Spec

-----------------------------------------------------------------------------
(* StoreFrames: any uses, databases and files *)

FramesUse == [at : Frames!Steps, on : Stores \cup {"none"}, handle : BOOLEAN,
        tx : {"none", "begun", "committed", "undone"}, outcome : Frames!Answers,
            told : Frames!Answers]

\* What was latched stays latched and what was handed over stays so.
FramesGrow ==
    /\ failed' \in [Stores -> BOOLEAN]
    /\ fault => fault'
    /\ \A s \in Stores : failed[s] => failed'[s]
    /\ kept \subseteq kept'

LEMMA FramesInitInv == Frames!Init => Frames!StoresInv
BY DEF Frames!Init, Frames!StoresInv, Frames!TypeOK, Frames!Idle, Frames!Steps, Frames!Answers,
   Frames!UseSound, Frames!Placed, Frames!OutcomeKept, Frames!Reported, Frames!Retained,
   Frames!On, Frames!ReleasedSound

\* A failure is latched in the store and with the owner before anything else.
LEMMA FramesFailGrows ==
    ASSUME Frames!StoresInv, NEW c \in Uses, Frames!On(c) \in Stores, Frames!Fail(c)
    PROVE  failed' \in [Stores -> BOOLEAN] /\ fault' /\ failed'[Frames!On(c)]
           /\ \A s \in Stores : failed[s] => failed'[s]
BY DEF Frames!StoresInv, Frames!TypeOK, Frames!Fail

LEMMA FramesStillGrows == ASSUME Frames!StoresInv, UNCHANGED Frames!latches, kept' = kept
                                 PROVE FramesGrow
BY DEF Frames!StoresInv, Frames!TypeOK, Frames!latches, FramesGrow

\* One use moves: the others stay as sound as they were.
LEMMA FramesUseStep ==
    ASSUME Frames!StoresInv, NEW c \in Uses, NEW r \in FramesUse,
           stores_call' = [stores_call EXCEPT ![c] = r],
           FramesGrow, stores_owner' = stores_owner, stores_owner # "released", Frames!UseSound(c)'
    PROVE  Frames!StoresInv'
<1>1. Frames!TypeOK'
  BY DEF Frames!StoresInv, Frames!TypeOK, FramesUse, FramesGrow
<1>2. ASSUME NEW d \in Uses, d # c PROVE Frames!UseSound(d)'
  <2>1. stores_call'[d] = stores_call[d] /\ Frames!UseSound(d)
    BY <1>2 DEF Frames!StoresInv, Frames!TypeOK
  <2>2. Frames!On(d) \in Stores \cup {"none"} /\ (stores_call[d].at # "idle"
        => Frames!On(d) \in Stores)
    BY <2>1 DEF Frames!StoresInv, Frames!TypeOK, Frames!UseSound, Frames!Placed, Frames!On
  <2>3. Frames!Placed(d)' /\ Frames!OutcomeKept(d)'
    BY <2>1 DEF Frames!UseSound, Frames!Placed, Frames!OutcomeKept, Frames!On, Frames!IsFile
  <2>4. Frames!Retained(d)'
    BY <2>1 DEF Frames!UseSound, Frames!Retained, Frames!On, FramesGrow
  <2>5. Frames!Reported(d)'
    <3>1. "error" \in {stores_call[d].outcome, stores_call[d].told} => fault /\ failed[Frames!On(d)]
      BY <2>1 DEF Frames!UseSound, Frames!Reported
    <3> QED BY <2>1, <2>2, <3>1 DEF Frames!UseSound, Frames!Placed, Frames!Reported, Frames!On,
        FramesGrow
  <2> QED BY <2>3, <2>4, <2>5 DEF Frames!UseSound
<1>3. Frames!ReleasedSound'
  BY DEF Frames!ReleasedSound
<1> QED BY <1>1, <1>2, <1>3 DEF Frames!StoresInv

-----------------------------------------------------------------------------
(* The steps of a use *)

\* What the invariant says of the use c.
LEMMA FramesUseFacts ==
    ASSUME Frames!StoresInv, NEW c \in Uses
    PROVE  /\ stores_call[c] \in FramesUse /\ Frames!UseSound(c)
           /\ stores_call[c].at \notin {"idle", "done"} => stores_owner # "released"
BY DEF Frames!StoresInv, Frames!TypeOK, FramesUse, Frames!ReleasedSound

LEMMA FramesBeginStep ==
    ASSUME Frames!StoresInv, NEW c \in Uses, NEW s \in Stores, Frames!Begin(c, s)
    PROVE  Frames!StoresInv'
<1> DEFINE r == [Frames!Idle EXCEPT !.at = "opening", !.on = s]
<1>1. r \in FramesUse /\ stores_call' = [stores_call EXCEPT ![c] = r]
  BY DEF Frames!Begin, Frames!Set, Frames!Idle, FramesUse, Frames!Steps, Frames!Answers
<1>2. FramesGrow /\ stores_owner' = stores_owner /\ stores_owner # "released"
  BY FramesStillGrows DEF Frames!Begin, Frames!cleanup
<1>3. stores_call'[c] = r
  BY <1>1 DEF Frames!StoresInv, Frames!TypeOK
<1>4. Frames!UseSound(c)'
  BY <1>3 DEF Frames!UseSound, Frames!Placed, Frames!OutcomeKept, Frames!Reported,
     Frames!Retained, Frames!On, Frames!IsFile, Frames!Idle
<1> QED BY <1>1, <1>2, <1>4, FramesUseStep

\* The three ways the latches move: not at all, by a failure, by a lost handle.
LEMMA FramesStillSound ==
    ASSUME Frames!StoresInv, UNCHANGED Frames!latches, UNCHANGED Frames!cleanup
    PROVE  FramesGrow /\ (fault => fault') /\ (\A s \in Stores : failed[s] => failed'[s])
BY FramesStillGrows DEF Frames!cleanup, Frames!latches

LEMMA FramesFailSound ==
    ASSUME Frames!StoresInv, NEW c \in Uses, Frames!On(c) \in Stores, Frames!Fail(c),
           UNCHANGED Frames!cleanup
    PROVE  FramesGrow /\ fault' /\ failed'[Frames!On(c)]
BY FramesFailGrows DEF Frames!cleanup, FramesGrow

LEMMA FramesRetainSound ==
    ASSUME Frames!StoresInv, NEW c \in Uses, Frames!On(c) \in Stores, Frames!Retain(c)
    PROVE  FramesGrow /\ fault' /\ failed'[Frames!On(c)] /\ Frames!On(c) \in kept'
BY FramesFailGrows DEF Frames!Retain, FramesGrow

\* The factory returns, refuses, or raises with the handle open or not.
LEMMA FramesOpenStep ==
    ASSUME Frames!StoresInv, NEW c \in Uses, Frames!Open(c)
    PROVE  Frames!StoresInv'
<1>0. /\ stores_call[c] \in FramesUse /\ Frames!UseSound(c) /\ stores_call[c].at = "opening"
      /\ stores_owner' = stores_owner /\ stores_owner # "released"
  BY FramesUseFacts DEF Frames!Open
<1>1. Frames!On(c) \in Stores
  BY <1>0 DEF Frames!UseSound, Frames!Placed
<1>2. ASSUME NEW r \in FramesUse, stores_call' = [stores_call EXCEPT ![c] = r], FramesGrow,
             Frames!UseSound(c)'
      PROVE  Frames!StoresInv'
  BY <1>0, <1>2, FramesUseStep
<1>3. CASE Frames!Set(c, [Frames!To(c, "entering") EXCEPT !.handle = TRUE])
           /\ UNCHANGED Frames!latches /\ UNCHANGED Frames!cleanup
  <2> DEFINE r == [Frames!To(c, "entering") EXCEPT !.handle = TRUE]
  <2>1. r \in FramesUse /\ stores_call' = [stores_call EXCEPT ![c] = r]
    BY <1>0, <1>3 DEF Frames!Set, Frames!To, Frames!Tell, FramesUse, Frames!Steps, Frames!Answers
  <2>2. stores_call'[c] = r
    BY <2>1 DEF Frames!StoresInv, Frames!TypeOK
  <2>3. FramesGrow /\ failed' = failed /\ fault' = fault
    BY <1>1, <1>3, FramesStillSound DEF Frames!latches
  <2>4. Frames!UseSound(c)'
    BY <1>0, <1>3, <2>2, <2>3 DEF Frames!UseSound, Frames!Placed, Frames!OutcomeKept,
       Frames!Reported, Frames!Retained, Frames!On, Frames!IsFile, FramesUse, Frames!To,
       Frames!Tell
  <2> QED BY <1>2, <2>1, <2>3, <2>4
<1>4. CASE Frames!Set(c, Frames!Tell(c, "absent")) /\ UNCHANGED Frames!latches
           /\ UNCHANGED Frames!cleanup
  <2> DEFINE r == Frames!Tell(c, "absent")
  <2>1. r \in FramesUse /\ stores_call' = [stores_call EXCEPT ![c] = r]
    BY <1>0, <1>4 DEF Frames!Set, Frames!To, Frames!Tell, FramesUse, Frames!Steps, Frames!Answers
  <2>2. stores_call'[c] = r
    BY <2>1 DEF Frames!StoresInv, Frames!TypeOK
  <2>3. FramesGrow /\ failed' = failed /\ fault' = fault
    BY <1>1, <1>4, FramesStillSound DEF Frames!latches
  <2>4. Frames!UseSound(c)'
    BY <1>0, <1>4, <2>2, <2>3 DEF Frames!UseSound, Frames!Placed, Frames!OutcomeKept,
       Frames!Reported, Frames!Retained, Frames!On, Frames!IsFile, FramesUse, Frames!To,
       Frames!Tell
  <2> QED BY <1>2, <2>1, <2>3, <2>4
<1>5. CASE Frames!Set(c, Frames!Tell(c, "error")) /\ Frames!Fail(c) /\ UNCHANGED Frames!cleanup
  <2> DEFINE r == Frames!Tell(c, "error")
  <2>1. r \in FramesUse /\ stores_call' = [stores_call EXCEPT ![c] = r]
    BY <1>0, <1>5 DEF Frames!Set, Frames!To, Frames!Tell, FramesUse, Frames!Steps, Frames!Answers
  <2>2. stores_call'[c] = r
    BY <2>1 DEF Frames!StoresInv, Frames!TypeOK
  <2>3. FramesGrow /\ fault' /\ failed'[Frames!On(c)]
    BY <1>1, <1>5, FramesFailSound
  <2>4. Frames!UseSound(c)'
    BY <1>0, <1>5, <2>2, <2>3 DEF Frames!UseSound, Frames!Placed, Frames!OutcomeKept,
       Frames!Reported, Frames!Retained, Frames!On, Frames!IsFile, FramesUse, Frames!To,
       Frames!Tell
  <2> QED BY <1>2, <2>1, <2>3, <2>4
<1>6. ASSUME NEW dropped \in BOOLEAN, Frames!Set(c, [Frames!Tell(c,
             "error") EXCEPT !.handle = dropped]), Frames!Retain(c)
      PROVE  Frames!StoresInv'
  <2> DEFINE r == [Frames!Tell(c, "error") EXCEPT !.handle = dropped]
  <2>1. r \in FramesUse /\ stores_call' = [stores_call EXCEPT ![c] = r]
    BY <1>0, <1>6 DEF Frames!Set, Frames!To, Frames!Tell, FramesUse, Frames!Steps, Frames!Answers
  <2>2. stores_call'[c] = r
    BY <2>1 DEF Frames!StoresInv, Frames!TypeOK
  <2>3. FramesGrow /\ fault' /\ failed'[Frames!On(c)] /\ Frames!On(c) \in kept'
    BY <1>1, <1>6, FramesRetainSound
  <2>4. Frames!UseSound(c)'
    BY <1>0, <1>6, <2>2, <2>3 DEF Frames!UseSound, Frames!Placed, Frames!OutcomeKept,
       Frames!Reported, Frames!Retained, Frames!On, Frames!IsFile, FramesUse, Frames!To,
       Frames!Tell
  <2> QED BY <1>2, <2>1, <2>3, <2>4
<1> QED BY <1>0, <1>3, <1>4, <1>5, <1>6 DEF Frames!Open

\* A handle that cannot be entered is on its way to be closed.
LEMMA FramesEnterStep ==
    ASSUME Frames!StoresInv, NEW c \in Uses, Frames!Enter(c)
    PROVE  Frames!StoresInv'
<1>0. /\ stores_call[c] \in FramesUse /\ Frames!UseSound(c) /\ stores_call[c].at = "entering"
      /\ stores_owner' = stores_owner /\ stores_owner # "released"
  BY FramesUseFacts DEF Frames!Enter
<1>1. Frames!On(c) \in Stores
  BY <1>0 DEF Frames!UseSound, Frames!Placed
<1>2. ASSUME NEW r \in FramesUse, stores_call' = [stores_call EXCEPT ![c] = r], FramesGrow,
             Frames!UseSound(c)'
      PROVE  Frames!StoresInv'
  BY <1>0, <1>2, FramesUseStep
<1>3. CASE Frames!Set(c, [Frames!To(c, "body") EXCEPT !.tx = "begun"])
           /\ UNCHANGED Frames!latches /\ UNCHANGED Frames!cleanup
  <2> DEFINE r == [Frames!To(c, "body") EXCEPT !.tx = "begun"]
  <2>1. r \in FramesUse /\ stores_call' = [stores_call EXCEPT ![c] = r]
    BY <1>0, <1>3 DEF Frames!Set, Frames!To, Frames!Tell, FramesUse, Frames!Steps, Frames!Answers
  <2>2. stores_call'[c] = r
    BY <2>1 DEF Frames!StoresInv, Frames!TypeOK
  <2>3. FramesGrow /\ failed' = failed /\ fault' = fault
    BY <1>1, <1>3, FramesStillSound DEF Frames!latches
  <2>4. Frames!UseSound(c)'
    BY <1>0, <1>3, <2>2, <2>3 DEF Frames!UseSound, Frames!Placed, Frames!OutcomeKept,
       Frames!Reported, Frames!Retained, Frames!On, Frames!IsFile, FramesUse, Frames!To,
       Frames!Tell
  <2> QED BY <1>2, <2>1, <2>3, <2>4
<1>4. CASE Frames!Set(c, [Frames!To(c, "closing") EXCEPT !.outcome = "error"]) /\ Frames!Fail(c)
           /\ UNCHANGED Frames!cleanup
  <2> DEFINE r == [Frames!To(c, "closing") EXCEPT !.outcome = "error"]
  <2>1. r \in FramesUse /\ stores_call' = [stores_call EXCEPT ![c] = r]
    BY <1>0, <1>4 DEF Frames!Set, Frames!To, Frames!Tell, FramesUse, Frames!Steps, Frames!Answers
  <2>2. stores_call'[c] = r
    BY <2>1 DEF Frames!StoresInv, Frames!TypeOK
  <2>3. FramesGrow /\ fault' /\ failed'[Frames!On(c)]
    BY <1>1, <1>4, FramesFailSound
  <2>4. Frames!UseSound(c)'
    BY <1>0, <1>4, <2>2, <2>3 DEF Frames!UseSound, Frames!Placed, Frames!OutcomeKept,
       Frames!Reported, Frames!Retained, Frames!On, Frames!IsFile, FramesUse, Frames!To,
       Frames!Tell
  <2> QED BY <1>2, <2>1, <2>3, <2>4
<1> QED BY <1>0, <1>3, <1>4 DEF Frames!Enter

\* The body ends in one of three ways, a file's never by a refusal.
LEMMA FramesBodyStep ==
    ASSUME Frames!StoresInv, NEW c \in Uses, Frames!Body(c)
    PROVE  Frames!StoresInv'
<1>0. /\ stores_call[c] \in FramesUse /\ Frames!UseSound(c) /\ stores_call[c].at = "body"
      /\ stores_owner' = stores_owner /\ stores_owner # "released"
  BY FramesUseFacts DEF Frames!Body
<1>1. Frames!On(c) \in Stores
  BY <1>0 DEF Frames!UseSound, Frames!Placed
<1>2. ASSUME NEW r \in FramesUse, stores_call' = [stores_call EXCEPT ![c] = r], FramesGrow,
             Frames!UseSound(c)'
      PROVE  Frames!StoresInv'
  BY <1>0, <1>2, FramesUseStep
<1>3. CASE Frames!Set(c, [Frames!To(c, "leaving") EXCEPT !.outcome = "ok"])
           /\ UNCHANGED Frames!latches /\ UNCHANGED Frames!cleanup
  <2> DEFINE r == [Frames!To(c, "leaving") EXCEPT !.outcome = "ok"]
  <2>1. r \in FramesUse /\ stores_call' = [stores_call EXCEPT ![c] = r]
    BY <1>0, <1>3 DEF Frames!Set, Frames!To, Frames!Tell, FramesUse, Frames!Steps, Frames!Answers
  <2>2. stores_call'[c] = r
    BY <2>1 DEF Frames!StoresInv, Frames!TypeOK
  <2>3. FramesGrow /\ failed' = failed /\ fault' = fault
    BY <1>1, <1>3, FramesStillSound DEF Frames!latches
  <2>4. Frames!UseSound(c)'
    BY <1>0, <1>3, <2>2, <2>3 DEF Frames!UseSound, Frames!Placed, Frames!OutcomeKept,
       Frames!Reported, Frames!Retained, Frames!On, Frames!IsFile, FramesUse, Frames!To,
       Frames!Tell
  <2> QED BY <1>2, <2>1, <2>3, <2>4
<1>4. CASE Frames!Set(c, [Frames!To(c, "leaving") EXCEPT !.outcome = "error"]) /\ Frames!Fail(c)
           /\ UNCHANGED Frames!cleanup
  <2> DEFINE r == [Frames!To(c, "leaving") EXCEPT !.outcome = "error"]
  <2>1. r \in FramesUse /\ stores_call' = [stores_call EXCEPT ![c] = r]
    BY <1>0, <1>4 DEF Frames!Set, Frames!To, Frames!Tell, FramesUse, Frames!Steps, Frames!Answers
  <2>2. stores_call'[c] = r
    BY <2>1 DEF Frames!StoresInv, Frames!TypeOK
  <2>3. FramesGrow /\ fault' /\ failed'[Frames!On(c)]
    BY <1>1, <1>4, FramesFailSound
  <2>4. Frames!UseSound(c)'
    BY <1>0, <1>4, <2>2, <2>3 DEF Frames!UseSound, Frames!Placed, Frames!OutcomeKept,
       Frames!Reported, Frames!Retained, Frames!On, Frames!IsFile, FramesUse, Frames!To,
       Frames!Tell
  <2> QED BY <1>2, <2>1, <2>3, <2>4
<1>5. CASE ~Frames!IsFile(c) /\ Frames!Set(c, [Frames!To(c,
           "leaving") EXCEPT !.outcome = "refused"]) /\ UNCHANGED Frames!latches
               /\ UNCHANGED Frames!cleanup
  <2> DEFINE r == [Frames!To(c, "leaving") EXCEPT !.outcome = "refused"]
  <2>1. r \in FramesUse /\ stores_call' = [stores_call EXCEPT ![c] = r]
    BY <1>0, <1>5 DEF Frames!Set, Frames!To, Frames!Tell, FramesUse, Frames!Steps, Frames!Answers
  <2>2. stores_call'[c] = r
    BY <2>1 DEF Frames!StoresInv, Frames!TypeOK
  <2>3. FramesGrow /\ failed' = failed /\ fault' = fault
    BY <1>1, <1>5, FramesStillSound DEF Frames!latches
  <2>4. Frames!UseSound(c)'
    BY <1>0, <1>5, <2>2, <2>3 DEF Frames!UseSound, Frames!Placed, Frames!OutcomeKept,
       Frames!Reported, Frames!Retained, Frames!On, Frames!IsFile, FramesUse, Frames!To,
       Frames!Tell
  <2> QED BY <1>2, <2>1, <2>3, <2>4
<1> QED BY <1>0, <1>3, <1>4, <1>5 DEF Frames!Body

\* The transaction follows the outcome, or is lost with an error.
LEMMA FramesLeaveDatabaseStep ==
    ASSUME Frames!StoresInv, NEW c \in Uses, Frames!LeaveDatabase(c)
    PROVE  Frames!StoresInv'
<1>0. /\ stores_call[c] \in FramesUse /\ Frames!UseSound(c) /\ stores_call[c].at = "leaving"
      /\ stores_owner' = stores_owner /\ stores_owner # "released"
  BY FramesUseFacts DEF Frames!LeaveDatabase
<1>1. Frames!On(c) \in Stores
  BY <1>0 DEF Frames!UseSound, Frames!Placed
<1>2. ASSUME NEW r \in FramesUse, stores_call' = [stores_call EXCEPT ![c] = r], FramesGrow,
             Frames!UseSound(c)'
      PROVE  Frames!StoresInv'
  BY <1>0, <1>2, FramesUseStep
<1>3. CASE Frames!Set(c, [Frames!To(c,
           "closing") EXCEPT !.tx = IF stores_call[c].outcome = "ok" THEN "committed" ELSE "undone"]) /\ UNCHANGED Frames!latches /\ UNCHANGED Frames!cleanup
  <2> DEFINE r == [Frames!To(c,
      "closing") EXCEPT !.tx = IF stores_call[c].outcome = "ok" THEN "committed" ELSE "undone"]
  <2>1. r \in FramesUse /\ stores_call' = [stores_call EXCEPT ![c] = r]
    BY <1>0, <1>3 DEF Frames!Set, Frames!To, Frames!Tell, FramesUse, Frames!Steps, Frames!Answers
  <2>2. stores_call'[c] = r
    BY <2>1 DEF Frames!StoresInv, Frames!TypeOK
  <2>3. FramesGrow /\ failed' = failed /\ fault' = fault
    BY <1>1, <1>3, FramesStillSound DEF Frames!latches
  <2>4. Frames!UseSound(c)'
    BY <1>0, <1>3, <2>2, <2>3 DEF Frames!UseSound, Frames!Placed, Frames!OutcomeKept,
       Frames!Reported, Frames!Retained, Frames!On, Frames!IsFile, FramesUse, Frames!To,
       Frames!Tell
  <2> QED BY <1>2, <2>1, <2>3, <2>4
<1>4. ASSUME NEW tx \in {"committed", "undone"}, Frames!Set(c, [Frames!To(c,
             "closing") EXCEPT !.tx = tx, !.outcome = "error"]), Frames!Fail(c),
                 UNCHANGED Frames!cleanup
      PROVE  Frames!StoresInv'
  <2> DEFINE r == [Frames!To(c, "closing") EXCEPT !.tx = tx, !.outcome = "error"]
  <2>1. r \in FramesUse /\ stores_call' = [stores_call EXCEPT ![c] = r]
    BY <1>0, <1>4 DEF Frames!Set, Frames!To, Frames!Tell, FramesUse, Frames!Steps, Frames!Answers
  <2>2. stores_call'[c] = r
    BY <2>1 DEF Frames!StoresInv, Frames!TypeOK
  <2>3. FramesGrow /\ fault' /\ failed'[Frames!On(c)]
    BY <1>1, <1>4, FramesFailSound
  <2>4. Frames!UseSound(c)'
    BY <1>0, <1>4, <2>2, <2>3 DEF Frames!UseSound, Frames!Placed, Frames!OutcomeKept,
       Frames!Reported, Frames!Retained, Frames!On, Frames!IsFile, FramesUse, Frames!To,
       Frames!Tell
  <2> QED BY <1>2, <2>1, <2>3, <2>4
<1> QED BY <1>0, <1>3, <1>4 DEF Frames!LeaveDatabase

\* What is reported is what the transaction became; a handle that stays is handed over.
LEMMA FramesCloseStep ==
    ASSUME Frames!StoresInv, NEW c \in Uses, Frames!Close(c)
    PROVE  Frames!StoresInv'
<1>0. /\ stores_call[c] \in FramesUse /\ Frames!UseSound(c) /\ stores_call[c].at \in {"leaving",
         "closing"}
      /\ (stores_call[c].at = "leaving" => Frames!IsFile(c))
      /\ stores_owner' = stores_owner /\ stores_owner # "released"
  BY FramesUseFacts DEF Frames!Close
<1>1. Frames!On(c) \in Stores
  BY <1>0 DEF Frames!UseSound, Frames!Placed
<1>2. ASSUME NEW r \in FramesUse, stores_call' = [stores_call EXCEPT ![c] = r], FramesGrow,
             Frames!UseSound(c)'
      PROVE  Frames!StoresInv'
  BY <1>0, <1>2, FramesUseStep
<1>3. CASE (~Frames!IsFile(c) \/ stores_call[c].outcome # "ok")
           /\ Frames!Set(c, [Frames!Tell(c, stores_call[c].outcome) EXCEPT !.handle = FALSE])
              /\ UNCHANGED Frames!latches /\ UNCHANGED Frames!cleanup
  <2> DEFINE r == [Frames!Tell(c, stores_call[c].outcome) EXCEPT !.handle = FALSE]
  <2>1. r \in FramesUse /\ stores_call' = [stores_call EXCEPT ![c] = r]
    BY <1>0, <1>3 DEF Frames!Set, Frames!To, Frames!Tell, FramesUse, Frames!Steps, Frames!Answers
  <2>2. stores_call'[c] = r
    BY <2>1 DEF Frames!StoresInv, Frames!TypeOK
  <2>3. FramesGrow /\ failed' = failed /\ fault' = fault
    BY <1>1, <1>3, FramesStillSound DEF Frames!latches
  <2>4. Frames!UseSound(c)'
    BY <1>0, <1>3, <2>2, <2>3 DEF Frames!UseSound, Frames!Placed, Frames!OutcomeKept,
       Frames!Reported, Frames!Retained, Frames!On, Frames!IsFile, FramesUse, Frames!To,
       Frames!Tell
  <2> QED BY <1>2, <2>1, <2>3, <2>4
<1>4. CASE Frames!Set(c, [Frames!To(c, "publishing") EXCEPT !.handle = FALSE])
           /\ UNCHANGED Frames!latches /\ UNCHANGED Frames!cleanup
  <2> DEFINE r == [Frames!To(c, "publishing") EXCEPT !.handle = FALSE]
  <2>1. r \in FramesUse /\ stores_call' = [stores_call EXCEPT ![c] = r]
    BY <1>0, <1>4 DEF Frames!Set, Frames!To, Frames!Tell, FramesUse, Frames!Steps, Frames!Answers
  <2>2. stores_call'[c] = r
    BY <2>1 DEF Frames!StoresInv, Frames!TypeOK
  <2>3. FramesGrow /\ failed' = failed /\ fault' = fault
    BY <1>1, <1>4, FramesStillSound DEF Frames!latches
  <2>4. Frames!UseSound(c)'
    BY <1>0, <1>4, <2>2, <2>3 DEF Frames!UseSound, Frames!Placed, Frames!OutcomeKept,
       Frames!Reported, Frames!Retained, Frames!On, Frames!IsFile, FramesUse, Frames!To,
       Frames!Tell
  <2> QED BY <1>2, <2>1, <2>3, <2>4
<1>5. ASSUME NEW dropped \in BOOLEAN, Frames!Set(c, [Frames!Tell(c,
             "error") EXCEPT !.handle = dropped]), Frames!Retain(c)
      PROVE  Frames!StoresInv'
  <2> DEFINE r == [Frames!Tell(c, "error") EXCEPT !.handle = dropped]
  <2>1. r \in FramesUse /\ stores_call' = [stores_call EXCEPT ![c] = r]
    BY <1>0, <1>5 DEF Frames!Set, Frames!To, Frames!Tell, FramesUse, Frames!Steps, Frames!Answers
  <2>2. stores_call'[c] = r
    BY <2>1 DEF Frames!StoresInv, Frames!TypeOK
  <2>3. FramesGrow /\ fault' /\ failed'[Frames!On(c)] /\ Frames!On(c) \in kept'
    BY <1>1, <1>5, FramesRetainSound
  <2>4. Frames!UseSound(c)'
    BY <1>0, <1>5, <2>2, <2>3 DEF Frames!UseSound, Frames!Placed, Frames!OutcomeKept,
       Frames!Reported, Frames!Retained, Frames!On, Frames!IsFile, FramesUse, Frames!To,
       Frames!Tell
  <2> QED BY <1>2, <2>1, <2>3, <2>4
<1> QED BY <1>0, <1>3, <1>4, <1>5 DEF Frames!Close

\* Only the published file counts as written.
LEMMA FramesPublishStep ==
    ASSUME Frames!StoresInv, NEW c \in Uses, Frames!Publish(c)
    PROVE  Frames!StoresInv'
<1>0. /\ stores_call[c] \in FramesUse /\ Frames!UseSound(c) /\ stores_call[c].at = "publishing"
      /\ stores_owner' = stores_owner /\ stores_owner # "released"
  BY FramesUseFacts DEF Frames!Publish
<1>1. Frames!On(c) \in Stores
  BY <1>0 DEF Frames!UseSound, Frames!Placed
<1>2. ASSUME NEW r \in FramesUse, stores_call' = [stores_call EXCEPT ![c] = r], FramesGrow,
             Frames!UseSound(c)'
      PROVE  Frames!StoresInv'
  BY <1>0, <1>2, FramesUseStep
<1>3. CASE Frames!Set(c, [Frames!Tell(c, "ok") EXCEPT !.tx = "committed"])
           /\ UNCHANGED Frames!latches /\ UNCHANGED Frames!cleanup
  <2> DEFINE r == [Frames!Tell(c, "ok") EXCEPT !.tx = "committed"]
  <2>1. r \in FramesUse /\ stores_call' = [stores_call EXCEPT ![c] = r]
    BY <1>0, <1>3 DEF Frames!Set, Frames!To, Frames!Tell, FramesUse, Frames!Steps, Frames!Answers
  <2>2. stores_call'[c] = r
    BY <2>1 DEF Frames!StoresInv, Frames!TypeOK
  <2>3. FramesGrow /\ failed' = failed /\ fault' = fault
    BY <1>1, <1>3, FramesStillSound DEF Frames!latches
  <2>4. Frames!UseSound(c)'
    BY <1>0, <1>3, <2>2, <2>3 DEF Frames!UseSound, Frames!Placed, Frames!OutcomeKept,
       Frames!Reported, Frames!Retained, Frames!On, Frames!IsFile, FramesUse, Frames!To,
       Frames!Tell
  <2> QED BY <1>2, <2>1, <2>3, <2>4
<1>4. CASE Frames!Set(c, Frames!Tell(c, "error")) /\ Frames!Fail(c) /\ UNCHANGED Frames!cleanup
  <2> DEFINE r == Frames!Tell(c, "error")
  <2>1. r \in FramesUse /\ stores_call' = [stores_call EXCEPT ![c] = r]
    BY <1>0, <1>4 DEF Frames!Set, Frames!To, Frames!Tell, FramesUse, Frames!Steps, Frames!Answers
  <2>2. stores_call'[c] = r
    BY <2>1 DEF Frames!StoresInv, Frames!TypeOK
  <2>3. FramesGrow /\ fault' /\ failed'[Frames!On(c)]
    BY <1>1, <1>4, FramesFailSound
  <2>4. Frames!UseSound(c)'
    BY <1>0, <1>4, <2>2, <2>3 DEF Frames!UseSound, Frames!Placed, Frames!OutcomeKept,
       Frames!Reported, Frames!Retained, Frames!On, Frames!IsFile, FramesUse, Frames!To,
       Frames!Tell
  <2> QED BY <1>2, <2>1, <2>3, <2>4
<1> QED BY <1>0, <1>3, <1>4 DEF Frames!Publish

\* The owner settles after the uses it admitted, by what it was handed.
LEMMA FramesOwnerStep ==
    ASSUME Frames!StoresInv, Frames!CloseOwner \/ Frames!Settle
    PROVE  Frames!StoresInv'
<1>1. UNCHANGED <<stores_call, failed, stores_unclear, fault, kept>>
  BY DEF Frames!CloseOwner, Frames!Settle, Frames!latches, Frames!cleanup
<1>2. Frames!TypeOK' /\ \A c \in Uses : Frames!UseSound(c)'
  BY <1>1 DEF Frames!StoresInv, Frames!TypeOK, Frames!UseSound, Frames!Placed, Frames!OutcomeKept,
     Frames!Reported, Frames!Retained, Frames!On, Frames!IsFile
<1>3. Frames!ReleasedSound'
  BY <1>1 DEF Frames!ReleasedSound, Frames!CloseOwner, Frames!Settle, Frames!Unresolved
<1> QED BY <1>2, <1>3 DEF Frames!StoresInv

LEMMA FramesNextStep == Frames!StoresInv /\ [Frames!Next]_(Frames!vars) => Frames!StoresInv'
<1> SUFFICES ASSUME Frames!StoresInv, [Frames!Next]_(Frames!vars) PROVE Frames!StoresInv'
  OBVIOUS
<1>1. CASE Frames!CloseOwner \/ Frames!Settle
  BY <1>1, FramesOwnerStep
<1>2. ASSUME NEW c \in Uses, NEW s \in Stores, Frames!Begin(c, s) PROVE Frames!StoresInv'
  BY <1>2, FramesBeginStep
<1>3. ASSUME NEW c \in Uses,
             Frames!Open(c) \/ Frames!Enter(c) \/ Frames!Body(c) \/ Frames!LeaveDatabase(c)
                 \/ Frames!Close(c) \/ Frames!Publish(c)
      PROVE  Frames!StoresInv'
  BY <1>3, FramesOpenStep, FramesEnterStep, FramesBodyStep, FramesLeaveDatabaseStep,
     FramesCloseStep, FramesPublishStep
<1>4. CASE UNCHANGED Frames!vars
  BY <1>4 DEF Frames!vars, Frames!StoresInv, Frames!TypeOK, Frames!UseSound, Frames!Placed,
     Frames!OutcomeKept, Frames!Reported, Frames!Retained, Frames!On, Frames!IsFile,
     Frames!ReleasedSound
<1> QED BY <1>1, <1>2, <1>3, <1>4 DEF Frames!Next

-----------------------------------------------------------------------------
\* A use that reports success has committed and closed, an error of storage is
\* known to the owner at once, and an owner that reports its resources released
\* has no handle left: for any uses, databases and files (the store frames).
THEOREM StoresTellTheTruth == Frames!Spec => []Frames!StoresTruthful
<1>1. Frames!StoresInv => Frames!StoresTruthful
  BY DEF Frames!StoresInv, Frames!UseSound, Frames!Placed, Frames!Reported, Frames!Retained,
     Frames!ReleasedSound, Frames!StoresTruthful
<1> QED BY <1>1, FramesInitInv, FramesNextStep, PTL DEF Frames!Spec

-----------------------------------------------------------------------------
(* ServiceLife: any processes, operations and reads *)

LEMMA ServiceInitInv == Service!Init => Service!ServiceInv
BY DEF Service!Init, Service!ServiceInv, Service!TypeOK, Service!ProcSound, Service!OpSound,
   Service!ReadSound, Service!OpenIsOf, Service!Clean, Service!Acting, Service!Reading,
   Service!None, Service!Free

\* A process takes the free lock: nothing works under it.
LEMMA ServiceStartStep ==
    ASSUME Service!Names, Service!ServiceInv, NEW p \in Procs, Service!Start(p)
    PROVE  Service!ServiceInv'
<1>1. Service!TypeOK'
  BY DEF Service!Start, Service!ServiceInv, Service!TypeOK, Service!Faults, Service!Database,
     Service!None, Service!Free
<1>2. ASSUME NEW d \in Procs PROVE Service!ProcSound(d)'
  BY DEF Service!Start, Service!ServiceInv, Service!TypeOK, Service!ProcSound, Service!OpSound,
     Service!ReadSound, Service!OpenIsOf, Service!Clean, Service!Acting, Service!Reading,
     Service!Faults, Service!Database, Service!None, Service!Free, Service!Names
<1>3. ASSUME NEW x \in Ops PROVE Service!OpSound(x)'
  BY DEF Service!Start, Service!ServiceInv, Service!TypeOK, Service!ProcSound, Service!OpSound,
     Service!ReadSound, Service!OpenIsOf, Service!Clean, Service!Acting, Service!Reading,
     Service!Faults, Service!Database, Service!None, Service!Free, Service!Names
<1>4. ASSUME NEW z \in Readers PROVE Service!ReadSound(z)'
  BY DEF Service!Start, Service!ServiceInv, Service!TypeOK, Service!ProcSound, Service!OpSound,
     Service!ReadSound, Service!OpenIsOf, Service!Clean, Service!Acting, Service!Reading,
     Service!Faults, Service!Database, Service!None, Service!Free, Service!Names
<1> QED BY <1>1, <1>2, <1>3, <1>4 DEF Service!ServiceInv

\* A handle of unknown outcome is no lock.
LEMMA ServiceLoseLockFileStep ==
    ASSUME Service!Names, Service!ServiceInv, NEW p \in Procs, Service!LoseLockFile(p)
    PROVE  Service!ServiceInv'
<1>1. Service!TypeOK'
  BY DEF Service!LoseLockFile, Service!ServiceInv, Service!TypeOK, Service!Faults,
     Service!Database, Service!None, Service!Free
<1>2. ASSUME NEW d \in Procs PROVE Service!ProcSound(d)'
  BY DEF Service!LoseLockFile, Service!ServiceInv, Service!TypeOK, Service!ProcSound,
     Service!OpSound, Service!ReadSound, Service!OpenIsOf, Service!Clean, Service!Acting,
     Service!Reading, Service!Faults, Service!Database, Service!None, Service!Free
<1>3. ASSUME NEW x \in Ops PROVE Service!OpSound(x)'
  BY DEF Service!LoseLockFile, Service!ServiceInv, Service!TypeOK, Service!ProcSound,
     Service!OpSound, Service!ReadSound, Service!OpenIsOf, Service!Clean, Service!Acting,
     Service!Reading, Service!Faults, Service!Database, Service!None, Service!Free
<1>4. ASSUME NEW z \in Readers PROVE Service!ReadSound(z)'
  BY DEF Service!LoseLockFile, Service!ServiceInv, Service!TypeOK, Service!ProcSound,
     Service!OpSound, Service!ReadSound, Service!OpenIsOf, Service!Clean, Service!Acting,
     Service!Reading, Service!Faults, Service!Database, Service!None, Service!Free, Service!Names
<1> QED BY <1>1, <1>2, <1>3, <1>4 DEF Service!ServiceInv

\* Only a process that found every effect settled goes on to recover.
LEMMA ServiceReadJournalsStep ==
    ASSUME Service!Names, Service!ServiceInv, NEW p \in Procs, Service!ReadJournals(p)
    PROVE  Service!ServiceInv'
<1>1. Service!TypeOK'
  BY DEF Service!ReadJournals, Service!ServiceInv, Service!TypeOK, Service!Faults,
     Service!Database, Service!None, Service!Free
<1>2. ASSUME NEW d \in Procs PROVE Service!ProcSound(d)'
  BY DEF Service!ReadJournals, Service!ServiceInv, Service!TypeOK, Service!ProcSound,
     Service!OpSound, Service!ReadSound, Service!OpenIsOf, Service!Clean, Service!Acting,
     Service!Reading, Service!Faults, Service!Database, Service!None, Service!Free
<1>3. ASSUME NEW x \in Ops PROVE Service!OpSound(x)'
  BY DEF Service!ReadJournals, Service!ServiceInv, Service!TypeOK, Service!ProcSound,
     Service!OpSound, Service!ReadSound, Service!OpenIsOf, Service!Clean, Service!Acting,
     Service!Reading, Service!Faults, Service!Database, Service!None, Service!Free
<1>4. ASSUME NEW z \in Readers PROVE Service!ReadSound(z)'
  BY DEF Service!ReadJournals, Service!ServiceInv, Service!TypeOK, Service!ProcSound,
     Service!OpSound, Service!ReadSound, Service!OpenIsOf, Service!Clean, Service!Acting,
     Service!Reading, Service!Faults, Service!Database, Service!None, Service!Free, Service!Names
<1> QED BY <1>1, <1>2, <1>3, <1>4 DEF Service!ServiceInv

\* It settles the runs of earlier lives, none of which is of unknown outcome.
LEMMA ServiceRecoverStep ==
    ASSUME Service!Names, Service!ServiceInv, NEW p \in Procs, Service!Recover(p)
    PROVE  Service!ServiceInv'
<1>1. Service!TypeOK'
  BY DEF Service!Recover, Service!ServiceInv, Service!TypeOK, Service!Faults, Service!Database,
     Service!None, Service!Free
<1>2. ASSUME NEW d \in Procs PROVE Service!ProcSound(d)'
  BY DEF Service!Recover, Service!ServiceInv, Service!TypeOK, Service!ProcSound, Service!OpSound,
     Service!ReadSound, Service!OpenIsOf, Service!Clean, Service!Acting, Service!Reading,
     Service!Faults, Service!Database, Service!None, Service!Free
<1>3. ASSUME NEW x \in Ops PROVE Service!OpSound(x)'
  BY DEF Service!Recover, Service!ServiceInv, Service!TypeOK, Service!ProcSound, Service!OpSound,
     Service!ReadSound, Service!OpenIsOf, Service!Clean, Service!Acting, Service!Reading,
     Service!Faults, Service!Database, Service!None, Service!Free
<1>4. ASSUME NEW z \in Readers PROVE Service!ReadSound(z)'
  BY DEF Service!Recover, Service!ServiceInv, Service!TypeOK, Service!ProcSound, Service!OpSound,
     Service!ReadSound, Service!OpenIsOf, Service!Clean, Service!Acting, Service!Reading,
     Service!Faults, Service!Database, Service!None, Service!Free, Service!Names
<1> QED BY <1>1, <1>2, <1>3, <1>4 DEF Service!ServiceInv

\* A start that fails has begun no operation.
LEMMA ServiceFailStartStep ==
    ASSUME Service!Names, Service!ServiceInv, NEW p \in Procs, Service!FailStart(p)
    PROVE  Service!ServiceInv'
<1>1. Service!TypeOK'
  BY DEF Service!FailStart, Service!ServiceInv, Service!TypeOK, Service!Faults, Service!Database,
     Service!None, Service!Free
<1>2. ASSUME NEW d \in Procs PROVE Service!ProcSound(d)'
  BY DEF Service!FailStart, Service!ServiceInv, Service!TypeOK, Service!ProcSound,
     Service!OpSound, Service!ReadSound, Service!OpenIsOf, Service!Clean, Service!Acting,
     Service!Reading, Service!Faults, Service!Database, Service!None, Service!Free
<1>3. ASSUME NEW x \in Ops PROVE Service!OpSound(x)'
  BY DEF Service!FailStart, Service!ServiceInv, Service!TypeOK, Service!ProcSound,
     Service!OpSound, Service!ReadSound, Service!OpenIsOf, Service!Clean, Service!Acting,
     Service!Reading, Service!Faults, Service!Database, Service!None, Service!Free
<1>4. ASSUME NEW z \in Readers PROVE Service!ReadSound(z)'
  BY DEF Service!FailStart, Service!ServiceInv, Service!TypeOK, Service!ProcSound,
     Service!OpSound, Service!ReadSound, Service!OpenIsOf, Service!Clean, Service!Acting,
     Service!Reading, Service!Faults, Service!Database, Service!None, Service!Free, Service!Names
<1> QED BY <1>1, <1>2, <1>3, <1>4 DEF Service!ServiceInv

\* Being asked to close changes nothing of what works.
LEMMA ServiceCloseStep ==
    ASSUME Service!Names, Service!ServiceInv, NEW p \in Procs, Service!Close(p)
    PROVE  Service!ServiceInv'
<1>1. Service!TypeOK'
  BY DEF Service!Close, Service!ServiceInv, Service!TypeOK, Service!Faults, Service!Database,
     Service!None, Service!Free
<1>2. ASSUME NEW d \in Procs PROVE Service!ProcSound(d)'
  BY DEF Service!Close, Service!ServiceInv, Service!TypeOK, Service!ProcSound, Service!OpSound,
     Service!ReadSound, Service!OpenIsOf, Service!Clean, Service!Acting, Service!Reading,
     Service!Faults, Service!Database, Service!None, Service!Free
<1>3. ASSUME NEW x \in Ops PROVE Service!OpSound(x)'
  BY DEF Service!Close, Service!ServiceInv, Service!TypeOK, Service!ProcSound, Service!OpSound,
     Service!ReadSound, Service!OpenIsOf, Service!Clean, Service!Acting, Service!Reading,
     Service!Faults, Service!Database, Service!None, Service!Free
<1>4. ASSUME NEW z \in Readers PROVE Service!ReadSound(z)'
  BY DEF Service!Close, Service!ServiceInv, Service!TypeOK, Service!ProcSound, Service!OpSound,
     Service!ReadSound, Service!OpenIsOf, Service!Clean, Service!Acting, Service!Reading,
     Service!Faults, Service!Database, Service!None, Service!Free, Service!Names
<1> QED BY <1>1, <1>2, <1>3, <1>4 DEF Service!ServiceInv

\* The close holds the lifecycle lock from here on.
LEMMA ServiceCloseOwnedStep ==
    ASSUME Service!Names, Service!ServiceInv, NEW p \in Procs, Service!CloseOwned(p)
    PROVE  Service!ServiceInv'
<1>1. Service!TypeOK'
  BY DEF Service!CloseOwned, Service!ServiceInv, Service!TypeOK, Service!Faults, Service!Database,
     Service!None, Service!Free
<1>2. ASSUME NEW d \in Procs PROVE Service!ProcSound(d)'
  BY DEF Service!CloseOwned, Service!ServiceInv, Service!TypeOK, Service!ProcSound,
     Service!OpSound, Service!ReadSound, Service!OpenIsOf, Service!Clean, Service!Acting,
     Service!Reading, Service!Faults, Service!Database, Service!None, Service!Free
<1>3. ASSUME NEW x \in Ops PROVE Service!OpSound(x)'
  BY DEF Service!CloseOwned, Service!ServiceInv, Service!TypeOK, Service!ProcSound,
     Service!OpSound, Service!ReadSound, Service!OpenIsOf, Service!Clean, Service!Acting,
     Service!Reading, Service!Faults, Service!Database, Service!None, Service!Free
<1>4. ASSUME NEW z \in Readers PROVE Service!ReadSound(z)'
  BY DEF Service!CloseOwned, Service!ServiceInv, Service!TypeOK, Service!ProcSound,
     Service!OpSound, Service!ReadSound, Service!OpenIsOf, Service!Clean, Service!Acting,
     Service!Reading, Service!Faults, Service!Database, Service!None, Service!Free, Service!Names
<1> QED BY <1>1, <1>2, <1>3, <1>4 DEF Service!ServiceInv

\* It waits for the operations that entered.
LEMMA ServiceJoinStep ==
    ASSUME Service!Names, Service!ServiceInv, NEW p \in Procs, Service!Join(p)
    PROVE  Service!ServiceInv'
<1>1. Service!TypeOK'
  BY DEF Service!Join, Service!ServiceInv, Service!TypeOK, Service!Faults, Service!Database,
     Service!None, Service!Free
<1>2. ASSUME NEW d \in Procs PROVE Service!ProcSound(d)'
  BY DEF Service!Join, Service!ServiceInv, Service!TypeOK, Service!ProcSound, Service!OpSound,
     Service!ReadSound, Service!OpenIsOf, Service!Clean, Service!Acting, Service!Reading,
     Service!Faults, Service!Database, Service!None, Service!Free
<1>3. ASSUME NEW x \in Ops PROVE Service!OpSound(x)'
  BY DEF Service!Join, Service!ServiceInv, Service!TypeOK, Service!ProcSound, Service!OpSound,
     Service!ReadSound, Service!OpenIsOf, Service!Clean, Service!Acting, Service!Reading,
     Service!Faults, Service!Database, Service!None, Service!Free
<1>4. ASSUME NEW z \in Readers PROVE Service!ReadSound(z)'
  BY DEF Service!Join, Service!ServiceInv, Service!TypeOK, Service!ProcSound, Service!OpSound,
     Service!ReadSound, Service!OpenIsOf, Service!Clean, Service!Acting, Service!Reading,
     Service!Faults, Service!Database, Service!None, Service!Free, Service!Names
<1> QED BY <1>1, <1>2, <1>3, <1>4 DEF Service!ServiceInv

\* The resources it closes wait for what the operations left behind.
LEMMA ServiceDrainStep ==
    ASSUME Service!Names, Service!ServiceInv, NEW p \in Procs, Service!Drain(p)
    PROVE  Service!ServiceInv'
<1>1. Service!TypeOK'
  BY DEF Service!Drain, Service!ServiceInv, Service!TypeOK, Service!Faults, Service!Database,
     Service!None, Service!Free
<1>2. ASSUME NEW d \in Procs PROVE Service!ProcSound(d)'
  BY DEF Service!Drain, Service!ServiceInv, Service!TypeOK, Service!ProcSound, Service!OpSound,
     Service!ReadSound, Service!OpenIsOf, Service!Clean, Service!Acting, Service!Reading,
     Service!Faults, Service!Database, Service!None, Service!Free
<1>3. ASSUME NEW x \in Ops PROVE Service!OpSound(x)'
  BY DEF Service!Drain, Service!ServiceInv, Service!TypeOK, Service!ProcSound, Service!OpSound,
     Service!ReadSound, Service!OpenIsOf, Service!Clean, Service!Acting, Service!Reading,
     Service!Faults, Service!Database, Service!None, Service!Free
<1>4. ASSUME NEW z \in Readers PROVE Service!ReadSound(z)'
  BY DEF Service!Drain, Service!ServiceInv, Service!TypeOK, Service!ProcSound, Service!OpSound,
     Service!ReadSound, Service!OpenIsOf, Service!Clean, Service!Acting, Service!Reading,
     Service!Faults, Service!Database, Service!None, Service!Free, Service!Names
<1> QED BY <1>1, <1>2, <1>3, <1>4 DEF Service!ServiceInv

\* A failure keeps the lock.
LEMMA ServiceFailDrainStep ==
    ASSUME Service!Names, Service!ServiceInv, NEW p \in Procs, Service!FailDrain(p)
    PROVE  Service!ServiceInv'
<1>1. Service!TypeOK'
  BY DEF Service!FailDrain, Service!ServiceInv, Service!TypeOK, Service!Faults, Service!Database,
     Service!None, Service!Free, Service!Failed
<1>2. ASSUME NEW d \in Procs PROVE Service!ProcSound(d)'
  BY DEF Service!FailDrain, Service!ServiceInv, Service!TypeOK, Service!ProcSound,
     Service!OpSound, Service!ReadSound, Service!OpenIsOf, Service!Clean, Service!Acting,
     Service!Reading, Service!Faults, Service!Database, Service!None, Service!Free, Service!Failed
<1>3. ASSUME NEW x \in Ops PROVE Service!OpSound(x)'
  BY DEF Service!FailDrain, Service!ServiceInv, Service!TypeOK, Service!ProcSound,
     Service!OpSound, Service!ReadSound, Service!OpenIsOf, Service!Clean, Service!Acting,
     Service!Reading, Service!Faults, Service!Database, Service!None, Service!Free, Service!Failed
<1>4. ASSUME NEW z \in Readers PROVE Service!ReadSound(z)'
  BY DEF Service!FailDrain, Service!ServiceInv, Service!TypeOK, Service!ProcSound,
     Service!OpSound, Service!ReadSound, Service!OpenIsOf, Service!Clean, Service!Acting,
     Service!Reading, Service!Faults, Service!Database, Service!None, Service!Free, Service!Names,
     Service!Failed
<1> QED BY <1>1, <1>2, <1>3, <1>4 DEF Service!ServiceInv

\* The lock goes when nothing works any more.
LEMMA ServiceReleaseStep ==
    ASSUME Service!Names, Service!ServiceInv, NEW p \in Procs, Service!Release(p)
    PROVE  Service!ServiceInv'
<1>1. Service!TypeOK'
  BY DEF Service!Release, Service!ServiceInv, Service!TypeOK, Service!Faults, Service!Database,
     Service!None, Service!Free, Service!Failed
<1>2. ASSUME NEW d \in Procs PROVE Service!ProcSound(d)'
  BY DEF Service!Release, Service!ServiceInv, Service!TypeOK, Service!ProcSound, Service!OpSound,
     Service!ReadSound, Service!OpenIsOf, Service!Clean, Service!Acting, Service!Reading,
     Service!Faults, Service!Database, Service!None, Service!Free, Service!Failed
<1>3. ASSUME NEW x \in Ops PROVE Service!OpSound(x)'
  BY DEF Service!Release, Service!ServiceInv, Service!TypeOK, Service!ProcSound, Service!OpSound,
     Service!ReadSound, Service!OpenIsOf, Service!Clean, Service!Acting, Service!Reading,
     Service!Faults, Service!Database, Service!None, Service!Free, Service!Failed
<1>4. ASSUME NEW z \in Readers PROVE Service!ReadSound(z)'
  BY DEF Service!Release, Service!ServiceInv, Service!TypeOK, Service!ProcSound, Service!OpSound,
     Service!ReadSound, Service!OpenIsOf, Service!Clean, Service!Acting, Service!Reading,
     Service!Faults, Service!Database, Service!None, Service!Free, Service!Names, Service!Failed
<1> QED BY <1>1, <1>2, <1>3, <1>4 DEF Service!ServiceInv

\* A lock of unknown state serves nobody.
LEMMA ServiceFailReleaseStep ==
    ASSUME Service!Names, Service!ServiceInv, NEW p \in Procs, Service!FailRelease(p)
    PROVE  Service!ServiceInv'
<1>1. Service!TypeOK'
  BY DEF Service!FailRelease, Service!ServiceInv, Service!TypeOK, Service!Faults,
     Service!Database, Service!None, Service!Free, Service!Failed
<1>2. ASSUME NEW d \in Procs PROVE Service!ProcSound(d)'
  BY DEF Service!FailRelease, Service!ServiceInv, Service!TypeOK, Service!ProcSound,
     Service!OpSound, Service!ReadSound, Service!OpenIsOf, Service!Clean, Service!Acting,
     Service!Reading, Service!Faults, Service!Database, Service!None, Service!Free, Service!Failed
<1>3. ASSUME NEW x \in Ops PROVE Service!OpSound(x)'
  BY DEF Service!FailRelease, Service!ServiceInv, Service!TypeOK, Service!ProcSound,
     Service!OpSound, Service!ReadSound, Service!OpenIsOf, Service!Clean, Service!Acting,
     Service!Reading, Service!Faults, Service!Database, Service!None, Service!Free, Service!Failed
<1>4. ASSUME NEW z \in Readers PROVE Service!ReadSound(z)'
  BY DEF Service!FailRelease, Service!ServiceInv, Service!TypeOK, Service!ProcSound,
     Service!OpSound, Service!ReadSound, Service!OpenIsOf, Service!Clean, Service!Acting,
     Service!Reading, Service!Faults, Service!Database, Service!None, Service!Free, Service!Names,
     Service!Failed
<1> QED BY <1>1, <1>2, <1>3, <1>4 DEF Service!ServiceInv

\* With the process everything of it ends.
LEMMA ServiceCrashStep ==
    ASSUME Service!Names, Service!ServiceInv, NEW p \in Procs, Service!Crash(p)
    PROVE  Service!ServiceInv'
<1>1. Service!TypeOK'
  <2>1. op' \in [Ops -> [pc : {"idle", "admitted", "effect", "done"},
        proc : Procs \cup {Service!None},
                        joined : BOOLEAN]]
    BY DEF Service!Crash, Service!ServiceInv, Service!TypeOK
  <2>2. read' \in [Readers -> [pc : {"idle", "sql", "done"}, proc : Procs \cup {Service!None}]]
    BY DEF Service!Crash, Service!ServiceInv, Service!TypeOK
  <2>3. /\ holder' \in Procs \cup {Service!None} /\ serving' \subseteq Procs
           /\ service_asked' \subseteq Procs
        /\ life' \in [Procs -> Readers \cup {Service!Free, "start", "close"}]
    BY DEF Service!Crash, Service!ServiceInv, Service!TypeOK, Service!Faults, Service!Database
  <2>4. svc' \in [Procs -> {"down", "reading", "recovering", "ready", "meta", "failed", "stuck",
                          "join", "drain", "final", "closed", "gone"}]
    BY DEF Service!Crash, Service!ServiceInv, Service!TypeOK
  <2>5. /\ run' \in [Ops -> {Service!None, "running", "completed", "failed", "cancelled",
           "interrupted"}]
        /\ journal' \in [Ops -> {Service!None, "open", "sealed"}]
    BY DEF Service!Crash, Service!ServiceInv, Service!TypeOK, Service!Faults, Service!Database
  <2> QED BY <2>1, <2>2, <2>3, <2>4, <2>5 DEF Service!TypeOK
<1>2. ASSUME NEW d \in Procs PROVE Service!ProcSound(d)'
  BY DEF Service!Crash, Service!ServiceInv, Service!TypeOK, Service!ProcSound, Service!OpSound,
     Service!ReadSound, Service!OpenIsOf, Service!Clean, Service!Acting, Service!Reading,
     Service!Faults, Service!Database, Service!None, Service!Free, Service!Alive
<1>3. ASSUME NEW x \in Ops PROVE Service!OpSound(x)'
  BY DEF Service!Crash, Service!ServiceInv, Service!TypeOK, Service!ProcSound, Service!OpSound,
     Service!ReadSound, Service!OpenIsOf, Service!Clean, Service!Acting, Service!Reading,
     Service!Faults, Service!Database, Service!None, Service!Free, Service!Alive
<1>4. ASSUME NEW z \in Readers PROVE Service!ReadSound(z)'
  BY DEF Service!Crash, Service!ServiceInv, Service!TypeOK, Service!ProcSound, Service!OpSound,
     Service!ReadSound, Service!OpenIsOf, Service!Clean, Service!Acting, Service!Reading,
     Service!Faults, Service!Database, Service!None, Service!Free, Service!Names, Service!Alive
<1> QED BY <1>1, <1>2, <1>3, <1>4 DEF Service!ServiceInv

\* An operation enters a process that holds the lock and knows the journals.
LEMMA ServiceEnterStep ==
    ASSUME Service!Names, Service!ServiceInv, NEW o \in Ops, NEW p \in Procs, Service!Enter(o, p)
    PROVE  Service!ServiceInv'
<1>1. Service!TypeOK'
  BY DEF Service!Enter, Service!ServiceInv, Service!TypeOK, Service!Faults, Service!Database,
     Service!None, Service!Free
<1>2. ASSUME NEW d \in Procs PROVE Service!ProcSound(d)'
  BY DEF Service!Enter, Service!ServiceInv, Service!TypeOK, Service!ProcSound, Service!OpSound,
     Service!ReadSound, Service!OpenIsOf, Service!Clean, Service!Acting, Service!Reading,
     Service!Faults, Service!Database, Service!None, Service!Free
<1>3. ASSUME NEW x \in Ops PROVE Service!OpSound(x)'
  BY DEF Service!Enter, Service!ServiceInv, Service!TypeOK, Service!ProcSound, Service!OpSound,
     Service!ReadSound, Service!OpenIsOf, Service!Clean, Service!Acting, Service!Reading,
     Service!Faults, Service!Database, Service!None, Service!Free
<1>4. ASSUME NEW z \in Readers PROVE Service!ReadSound(z)'
  BY DEF Service!Enter, Service!ServiceInv, Service!TypeOK, Service!ProcSound, Service!OpSound,
     Service!ReadSound, Service!OpenIsOf, Service!Clean, Service!Acting, Service!Reading,
     Service!Faults, Service!Database, Service!None, Service!Free, Service!Names
<1> QED BY <1>1, <1>2, <1>3, <1>4 DEF Service!ServiceInv

\* An operation left to the scheduler is joined by the resources instead.
LEMMA ServiceBackgroundStep ==
    ASSUME Service!Names, Service!ServiceInv, NEW o \in Ops, Service!Background(o)
    PROVE  Service!ServiceInv'
<1>1. Service!TypeOK'
  <2>1. op' \in [Ops -> [pc : {"idle", "admitted", "effect", "done"},
        proc : Procs \cup {Service!None},
                        joined : BOOLEAN]]
    <3> DEFINE u == [op[o] EXCEPT !.joined = FALSE]
    <3>1. u \in [pc : {"idle", "admitted", "effect", "done"}, proc : Procs \cup {Service!None},
                 joined : BOOLEAN]
      BY DEF Service!ServiceInv, Service!TypeOK
    <3>2. op' = [op EXCEPT ![o] = u]
      BY DEF Service!Background
    <3> HIDE DEF u
    <3> QED BY <3>1, <3>2 DEF Service!ServiceInv, Service!TypeOK
  <2>2. read' \in [Readers -> [pc : {"idle", "sql", "done"}, proc : Procs \cup {Service!None}]]
    BY DEF Service!Background, Service!ServiceInv, Service!TypeOK
  <2>3. /\ holder' \in Procs \cup {Service!None} /\ serving' \subseteq Procs
           /\ service_asked' \subseteq Procs
        /\ life' \in [Procs -> Readers \cup {Service!Free, "start", "close"}]
    BY DEF Service!Background, Service!ServiceInv, Service!TypeOK, Service!Faults,
       Service!Database
  <2>4. svc' \in [Procs -> {"down", "reading", "recovering", "ready", "meta", "failed", "stuck",
                          "join", "drain", "final", "closed", "gone"}]
    BY DEF Service!Background, Service!ServiceInv, Service!TypeOK
  <2>5. /\ run' \in [Ops -> {Service!None, "running", "completed", "failed", "cancelled",
           "interrupted"}]
        /\ journal' \in [Ops -> {Service!None, "open", "sealed"}]
    BY DEF Service!Background, Service!ServiceInv, Service!TypeOK, Service!Faults,
       Service!Database
  <2> QED BY <2>1, <2>2, <2>3, <2>4, <2>5 DEF Service!TypeOK
<1>2. ASSUME NEW d \in Procs PROVE Service!ProcSound(d)'
  BY DEF Service!Background, Service!ServiceInv, Service!TypeOK, Service!ProcSound,
     Service!OpSound, Service!ReadSound, Service!OpenIsOf, Service!Clean, Service!Acting,
     Service!Reading, Service!Faults, Service!Database, Service!None, Service!Free
<1>3. ASSUME NEW x \in Ops PROVE Service!OpSound(x)'
  BY DEF Service!Background, Service!ServiceInv, Service!TypeOK, Service!ProcSound,
     Service!OpSound, Service!ReadSound, Service!OpenIsOf, Service!Clean, Service!Acting,
     Service!Reading, Service!Faults, Service!Database, Service!None, Service!Free
<1>4. ASSUME NEW z \in Readers PROVE Service!ReadSound(z)'
  BY DEF Service!Background, Service!ServiceInv, Service!TypeOK, Service!ProcSound,
     Service!OpSound, Service!ReadSound, Service!OpenIsOf, Service!Clean, Service!Acting,
     Service!Reading, Service!Faults, Service!Database, Service!None, Service!Free, Service!Names
<1> QED BY <1>1, <1>2, <1>3, <1>4 DEF Service!ServiceInv

\* An effect begins under the lock of its process.
LEMMA ServiceIntentStep ==
    ASSUME Service!Names, Service!ServiceInv, NEW o \in Ops, Service!Intent(o)
    PROVE  Service!ServiceInv'
<1>1. Service!TypeOK'
  BY DEF Service!Intent, Service!ServiceInv, Service!TypeOK, Service!Faults, Service!Database,
     Service!None, Service!Free
<1>2. ASSUME NEW d \in Procs PROVE Service!ProcSound(d)'
  BY DEF Service!Intent, Service!ServiceInv, Service!TypeOK, Service!ProcSound, Service!OpSound,
     Service!ReadSound, Service!OpenIsOf, Service!Clean, Service!Acting, Service!Reading,
     Service!Faults, Service!Database, Service!None, Service!Free
<1>3. ASSUME NEW x \in Ops PROVE Service!OpSound(x)'
  BY DEF Service!Intent, Service!ServiceInv, Service!TypeOK, Service!ProcSound, Service!OpSound,
     Service!ReadSound, Service!OpenIsOf, Service!Clean, Service!Acting, Service!Reading,
     Service!Faults, Service!Database, Service!None, Service!Free
<1>4. ASSUME NEW z \in Readers PROVE Service!ReadSound(z)'
  BY DEF Service!Intent, Service!ServiceInv, Service!TypeOK, Service!ProcSound, Service!OpSound,
     Service!ReadSound, Service!OpenIsOf, Service!Clean, Service!Acting, Service!Reading,
     Service!Faults, Service!Database, Service!None, Service!Free, Service!Names
<1> QED BY <1>1, <1>2, <1>3, <1>4 DEF Service!ServiceInv

\* An operation that ends keeps its process and whether close waits for it.
LEMMA ServiceEndedTyped ==
    ASSUME Service!TypeOK, NEW o \in Ops, op' = [op EXCEPT ![o].pc = "done"]
    PROVE  op' \in [Ops -> [pc : {"idle", "admitted", "effect", "done"},
        proc : Procs \cup {Service!None},
                           joined : BOOLEAN]]
<1> DEFINE u == [op[o] EXCEPT !.pc = "done"]
<1>1. op \in [Ops -> [pc : {"idle", "admitted", "effect", "done"}, proc : Procs \cup {Service!None},
                     joined : BOOLEAN]]
  BY DEF Service!TypeOK
<1>2. u \in [pc : {"idle", "admitted", "effect", "done"}, proc : Procs \cup {Service!None},
            joined : BOOLEAN]
  BY <1>1
<1>3. op' = [op EXCEPT ![o] = u]
  BY <1>1
<1> HIDE DEF u
<1> QED BY <1>1, <1>2, <1>3

\* Its outcome is known.
LEMMA ServiceSealStep ==
    ASSUME Service!Names, Service!ServiceInv, NEW o \in Ops, Service!Seal(o)
    PROVE  Service!ServiceInv'
<1>1. Service!TypeOK'
  <2>1. op' \in [Ops -> [pc : {"idle", "admitted", "effect", "done"},
        proc : Procs \cup {Service!None},
                        joined : BOOLEAN]]
    BY ServiceEndedTyped DEF Service!Seal, Service!ServiceInv
  <2>2. read' \in [Readers -> [pc : {"idle", "sql", "done"}, proc : Procs \cup {Service!None}]]
    BY DEF Service!Seal, Service!ServiceInv, Service!TypeOK
  <2>3. /\ holder' \in Procs \cup {Service!None} /\ serving' \subseteq Procs
           /\ service_asked' \subseteq Procs
        /\ life' \in [Procs -> Readers \cup {Service!Free, "start", "close"}]
    BY DEF Service!Seal, Service!ServiceInv, Service!TypeOK, Service!Faults, Service!Database
  <2>4. svc' \in [Procs -> {"down", "reading", "recovering", "ready", "meta", "failed", "stuck",
                          "join", "drain", "final", "closed", "gone"}]
    BY DEF Service!Seal, Service!ServiceInv, Service!TypeOK
  <2>5. /\ run' \in [Ops -> {Service!None, "running", "completed", "failed", "cancelled",
           "interrupted"}]
        /\ journal' \in [Ops -> {Service!None, "open", "sealed"}]
    BY DEF Service!Seal, Service!ServiceInv, Service!TypeOK, Service!Faults, Service!Database
  <2> QED BY <2>1, <2>2, <2>3, <2>4, <2>5 DEF Service!TypeOK
<1>2. ASSUME NEW d \in Procs PROVE Service!ProcSound(d)'
  BY DEF Service!Seal, Service!ServiceInv, Service!TypeOK, Service!ProcSound, Service!OpSound,
     Service!ReadSound, Service!OpenIsOf, Service!Clean, Service!Acting, Service!Reading,
     Service!Faults, Service!Database, Service!None, Service!Free
<1>3. ASSUME NEW x \in Ops PROVE Service!OpSound(x)'
  BY DEF Service!Seal, Service!ServiceInv, Service!TypeOK, Service!ProcSound, Service!OpSound,
     Service!ReadSound, Service!OpenIsOf, Service!Clean, Service!Acting, Service!Reading,
     Service!Faults, Service!Database, Service!None, Service!Free
<1>4. ASSUME NEW z \in Readers PROVE Service!ReadSound(z)'
  BY DEF Service!Seal, Service!ServiceInv, Service!TypeOK, Service!ProcSound, Service!OpSound,
     Service!ReadSound, Service!OpenIsOf, Service!Clean, Service!Acting, Service!Reading,
     Service!Faults, Service!Database, Service!None, Service!Free, Service!Names
<1> QED BY <1>1, <1>2, <1>3, <1>4 DEF Service!ServiceInv

\* Its outcome is not, and its run is not running any more.
LEMMA ServiceFailSealStep ==
    ASSUME Service!Names, Service!ServiceInv, NEW o \in Ops, Service!FailSeal(o)
    PROVE  Service!ServiceInv'
<1>1. Service!TypeOK'
  <2>1. op' \in [Ops -> [pc : {"idle", "admitted", "effect", "done"},
        proc : Procs \cup {Service!None},
                        joined : BOOLEAN]]
    BY ServiceEndedTyped DEF Service!FailSeal, Service!ServiceInv
  <2>2. /\ read' \in [Readers -> [pc : {"idle", "sql", "done"}, proc : Procs \cup {Service!None}]]
        /\ journal' \in [Ops -> {Service!None, "open", "sealed"}]
    BY DEF Service!FailSeal, Service!ServiceInv, Service!TypeOK
  <2>3. /\ holder' \in Procs \cup {Service!None} /\ serving' \subseteq Procs
           /\ service_asked' \subseteq Procs
        /\ life' \in [Procs -> Readers \cup {Service!Free, "start", "close"}]
    BY DEF Service!FailSeal, Service!ServiceInv, Service!TypeOK
  <2>4. svc' \in [Procs -> {"down", "reading", "recovering", "ready", "meta", "failed", "stuck",
                          "join", "drain", "final", "closed", "gone"}]
    BY DEF Service!FailSeal, Service!ServiceInv, Service!TypeOK
  <2>5. run' \in [Ops -> {Service!None, "running", "completed", "failed", "cancelled",
        "interrupted"}]
    BY DEF Service!FailSeal, Service!ServiceInv, Service!TypeOK
  <2> QED BY <2>1, <2>2, <2>3, <2>4, <2>5 DEF Service!TypeOK
<1>2. ASSUME NEW d \in Procs PROVE Service!ProcSound(d)'
  BY DEF Service!FailSeal, Service!ServiceInv, Service!TypeOK, Service!ProcSound, Service!OpSound,
     Service!ReadSound, Service!OpenIsOf, Service!Clean, Service!Acting, Service!Reading,
     Service!Faults, Service!Database, Service!None, Service!Free
<1>3. ASSUME NEW x \in Ops PROVE Service!OpSound(x)'
  BY DEF Service!FailSeal, Service!ServiceInv, Service!TypeOK, Service!ProcSound, Service!OpSound,
     Service!ReadSound, Service!OpenIsOf, Service!Clean, Service!Acting, Service!Reading,
     Service!Faults, Service!Database, Service!None, Service!Free
<1>4. ASSUME NEW z \in Readers PROVE Service!ReadSound(z)'
  BY DEF Service!FailSeal, Service!ServiceInv, Service!TypeOK, Service!ProcSound, Service!OpSound,
     Service!ReadSound, Service!OpenIsOf, Service!Clean, Service!Acting, Service!Reading,
     Service!Faults, Service!Database, Service!None, Service!Free, Service!Names
<1> QED BY <1>1, <1>2, <1>3, <1>4 DEF Service!ServiceInv

\* Nothing was begun.
LEMMA ServiceWithdrawStep ==
    ASSUME Service!Names, Service!ServiceInv, NEW o \in Ops, Service!Withdraw(o)
    PROVE  Service!ServiceInv'
<1>1. Service!TypeOK'
  <2>1. op' \in [Ops -> [pc : {"idle", "admitted", "effect", "done"},
        proc : Procs \cup {Service!None},
                        joined : BOOLEAN]]
    BY ServiceEndedTyped DEF Service!Withdraw, Service!ServiceInv
  <2>2. /\ read' \in [Readers -> [pc : {"idle", "sql", "done"}, proc : Procs \cup {Service!None}]]
        /\ journal' \in [Ops -> {Service!None, "open", "sealed"}]
    BY DEF Service!Withdraw, Service!ServiceInv, Service!TypeOK
  <2>3. /\ holder' \in Procs \cup {Service!None} /\ serving' \subseteq Procs
           /\ service_asked' \subseteq Procs
        /\ life' \in [Procs -> Readers \cup {Service!Free, "start", "close"}]
    BY DEF Service!Withdraw, Service!ServiceInv, Service!TypeOK
  <2>4. svc' \in [Procs -> {"down", "reading", "recovering", "ready", "meta", "failed", "stuck",
                          "join", "drain", "final", "closed", "gone"}]
    BY DEF Service!Withdraw, Service!ServiceInv, Service!TypeOK
  <2>5. run' \in [Ops -> {Service!None, "running", "completed", "failed", "cancelled",
        "interrupted"}]
    BY DEF Service!Withdraw, Service!ServiceInv, Service!TypeOK
  <2> QED BY <2>1, <2>2, <2>3, <2>4, <2>5 DEF Service!TypeOK
<1>2. ASSUME NEW d \in Procs PROVE Service!ProcSound(d)'
  BY DEF Service!Withdraw, Service!ServiceInv, Service!TypeOK, Service!ProcSound, Service!OpSound,
     Service!ReadSound, Service!OpenIsOf, Service!Clean, Service!Acting, Service!Reading,
     Service!Faults, Service!Database, Service!None, Service!Free
<1>3. ASSUME NEW x \in Ops PROVE Service!OpSound(x)'
  BY DEF Service!Withdraw, Service!ServiceInv, Service!TypeOK, Service!ProcSound, Service!OpSound,
     Service!ReadSound, Service!OpenIsOf, Service!Clean, Service!Acting, Service!Reading,
     Service!Faults, Service!Database, Service!None, Service!Free
<1>4. ASSUME NEW z \in Readers PROVE Service!ReadSound(z)'
  BY DEF Service!Withdraw, Service!ServiceInv, Service!TypeOK, Service!ProcSound, Service!OpSound,
     Service!ReadSound, Service!OpenIsOf, Service!Clean, Service!Acting, Service!Reading,
     Service!Faults, Service!Database, Service!None, Service!Free, Service!Names
<1> QED BY <1>1, <1>2, <1>3, <1>4 DEF Service!ServiceInv

\* A read holds the lifecycle lock of a process that may serve.
LEMMA ServiceReadStep ==
    ASSUME Service!Names, Service!ServiceInv, NEW q \in Readers, NEW p \in Procs, Service!Read(q, p)
    PROVE  Service!ServiceInv'
<1>1. Service!TypeOK'
  BY DEF Service!Read, Service!ServiceInv, Service!TypeOK, Service!Faults, Service!Database,
     Service!None, Service!Free, Service!MayRead
<1>2. ASSUME NEW d \in Procs PROVE Service!ProcSound(d)'
  BY DEF Service!Read, Service!ServiceInv, Service!TypeOK, Service!ProcSound, Service!OpSound,
     Service!ReadSound, Service!OpenIsOf, Service!Clean, Service!Acting, Service!Reading,
     Service!Faults, Service!Database, Service!None, Service!Free, Service!Names, Service!MayRead
<1>3. ASSUME NEW x \in Ops PROVE Service!OpSound(x)'
  BY DEF Service!Read, Service!ServiceInv, Service!TypeOK, Service!ProcSound, Service!OpSound,
     Service!ReadSound, Service!OpenIsOf, Service!Clean, Service!Acting, Service!Reading,
     Service!Faults, Service!Database, Service!None, Service!Free, Service!Names, Service!MayRead
<1>4. ASSUME NEW z \in Readers PROVE Service!ReadSound(z)'
  BY DEF Service!Read, Service!ServiceInv, Service!TypeOK, Service!ProcSound, Service!OpSound,
     Service!ReadSound, Service!OpenIsOf, Service!Clean, Service!Acting, Service!Reading,
     Service!Faults, Service!Database, Service!None, Service!Free, Service!Names, Service!MayRead
<1> QED BY <1>1, <1>2, <1>3, <1>4 DEF Service!ServiceInv

\* It gives the lifecycle lock back.
LEMMA ServiceReadEndsStep ==
    ASSUME Service!Names, Service!ServiceInv, NEW q \in Readers, Service!ReadEnds(q)
    PROVE  Service!ServiceInv'
<1>1. Service!TypeOK'
  BY DEF Service!ReadEnds, Service!ServiceInv, Service!TypeOK, Service!Faults, Service!Database,
     Service!None, Service!Free
<1>2. ASSUME NEW d \in Procs PROVE Service!ProcSound(d)'
  BY DEF Service!ReadEnds, Service!ServiceInv, Service!TypeOK, Service!ProcSound, Service!OpSound,
     Service!ReadSound, Service!OpenIsOf, Service!Clean, Service!Acting, Service!Reading,
     Service!Faults, Service!Database, Service!None, Service!Free, Service!Names
<1>3. ASSUME NEW x \in Ops PROVE Service!OpSound(x)'
  BY DEF Service!ReadEnds, Service!ServiceInv, Service!TypeOK, Service!ProcSound, Service!OpSound,
     Service!ReadSound, Service!OpenIsOf, Service!Clean, Service!Acting, Service!Reading,
     Service!Faults, Service!Database, Service!None, Service!Free, Service!Names
<1>4. ASSUME NEW z \in Readers PROVE Service!ReadSound(z)'
  BY DEF Service!ReadEnds, Service!ServiceInv, Service!TypeOK, Service!ProcSound, Service!OpSound,
     Service!ReadSound, Service!OpenIsOf, Service!Clean, Service!Acting, Service!Reading,
     Service!Faults, Service!Database, Service!None, Service!Free, Service!Names
<1> QED BY <1>1, <1>2, <1>3, <1>4 DEF Service!ServiceInv

LEMMA ServiceNextStep == Service!Names /\ Service!ServiceInv /\ [Service!Next]_(Service!vars)
                         => Service!ServiceInv'
<1> SUFFICES ASSUME Service!Names, Service!ServiceInv, [Service!Next]_(Service!vars)
    PROVE Service!ServiceInv'
  OBVIOUS
<1>1. ASSUME NEW p \in Procs,
             Service!Start(p) \/ Service!LoseLockFile(p) \/ Service!ReadJournals(p)
                 \/ Service!Recover(p) \/ Service!FailStart(p)
      PROVE  Service!ServiceInv'
  BY <1>1, ServiceStartStep, ServiceLoseLockFileStep, ServiceReadJournalsStep, ServiceRecoverStep,
     ServiceFailStartStep
<1>2. ASSUME NEW p \in Procs, Service!Close(p) \/ Service!CloseOwned(p) \/ Service!Join(p)
             \/ Service!Drain(p) \/ Service!FailDrain(p)
      PROVE  Service!ServiceInv'
  BY <1>2, ServiceCloseStep, ServiceCloseOwnedStep, ServiceJoinStep, ServiceDrainStep,
     ServiceFailDrainStep
<1>3. ASSUME NEW p \in Procs, Service!Release(p) \/ Service!FailRelease(p) \/ Service!Crash(p)
      PROVE  Service!ServiceInv'
  BY <1>3, ServiceReleaseStep, ServiceFailReleaseStep, ServiceCrashStep
<1>4. ASSUME NEW o \in Ops, NEW p \in Procs, Service!Enter(o, p)
      PROVE  Service!ServiceInv'
  BY <1>4, ServiceEnterStep
<1>5. ASSUME NEW o \in Ops, Service!Background(o) \/ Service!Intent(o) \/ Service!Seal(o)
             \/ Service!FailSeal(o) \/ Service!Withdraw(o)
      PROVE  Service!ServiceInv'
  BY <1>5, ServiceBackgroundStep, ServiceIntentStep, ServiceSealStep, ServiceFailSealStep,
     ServiceWithdrawStep
<1>6. ASSUME NEW q \in Readers, (\E p \in Procs : Service!Read(q, p)) \/ Service!ReadEnds(q)
      PROVE  Service!ServiceInv'
  BY <1>6, ServiceReadStep, ServiceReadEndsStep
<1>7. CASE UNCHANGED Service!vars
  <2>1. Service!TypeOK'
    BY <1>7 DEF Service!vars, Service!ServiceInv, Service!TypeOK
  <2>2. \A d \in Procs : Service!ProcSound(d)'
    BY <1>7 DEF Service!vars, Service!ServiceInv, Service!ProcSound, Service!OpenIsOf,
       Service!Clean
  <2>3. \A x \in Ops : Service!OpSound(x)'
    BY <1>7 DEF Service!vars, Service!ServiceInv, Service!OpSound, Service!OpenIsOf,
       Service!Acting
  <2>4. \A z \in Readers : Service!ReadSound(z)'
    BY <1>7 DEF Service!vars, Service!ServiceInv, Service!ReadSound, Service!Reading
  <2> QED BY <2>1, <2>2, <2>3, <2>4 DEF Service!ServiceInv
<1> QED BY <1>1, <1>2, <1>3, <1>4, <1>5, <1>6, <1>7 DEF Service!Next

-----------------------------------------------------------------------------
\* Whoever acts on a workspace holds its lock, and an effect of unknown outcome
\* keeps every later life from beginning another (start, close, _shutdown_resources).
THEOREM OwnershipIsKept ==
    ASSUME Service!Names
    PROVE  Service!Spec => []Service!OwnershipHolds
<1>1. Service!ServiceInv => Service!OwnershipHolds
  <2> SUFFICES ASSUME Service!ServiceInv PROVE Service!OwnershipHolds
    OBVIOUS
  <2>1. Service!ActsUnderLock
    BY DEF Service!ServiceInv, Service!OpSound, Service!ReadSound, Service!ActsUnderLock
  <2>2. Service!UnknownQuarantines
    BY DEF Service!ServiceInv, Service!OpSound, Service!OpenIsOf, Service!UnknownQuarantines
  <2> QED BY <2>1, <2>2 DEF Service!OwnershipHolds
<1>2. Service!Names
  OBVIOUS
<1> QED BY <1>1, <1>2, ServiceInitInv, ServiceNextStep, PTL DEF Service!Spec

-----------------------------------------------------------------------------
(* VerificationReviews: any reviews, plans and crashes *)

VerificationRow == [status : Verification!Statuses, overdue : BOOLEAN, decision : {"", "approve",
    "reject", "cancel"}]
VerificationVerdicts == {"", "completed", "failed", "indeterminate", "cancelled"}
VerificationDecision == [pc : Verification!Working \cup {"none", "wait", "claim"},
    cancelled : BOOLEAN,
             verdict : VerificationVerdicts, last : Verification!Results \cup {""}]

LEMMA VerificationFacts ==
    ASSUME Verification!VerificationInv, NEW r \in VerificationIds
    PROVE  /\ verification_review[r] \in VerificationRow /\ task[r] \in VerificationDecision
           /\ steps[r] \in Seq(Verification!Results \cup {"running"})
              /\ results[r] \in Seq(Verification!Results)
           /\ launches[r] \in [1..NCommands -> Nat] /\ stops[r] \in BOOLEAN
           /\ Verification!RowsTold(r) /\ Verification!TaskKnows(r)
BY DEF Verification!VerificationInv, Verification!VerificationTypes, VerificationRow,
   VerificationDecision, VerificationVerdicts

LEMMA VerificationAppended == ASSUME NEW S, NEW q \in Seq(S), NEW e \in S PROVE Append(q,
                                     e) \in Seq(S)
OBVIOUS

LEMMA VerificationSameSequence ==
    ASSUME NEW S, NEW q \in Seq(S), NEW w \in Seq(S), Len(q) = Len(w),
           \A i \in 1..Len(q) : q[i] = w[i]
    PROVE  q = w
OBVIOUS

LEMMA VerificationCompleteKept ==
    ASSUME NEW r \in VerificationIds, steps'[r] = steps[r], stops'[r] = stops[r]
    PROVE  Verification!Complete(r)' <=> Verification!Complete(r)
BY DEF Verification!Complete, Verification!Unknown

\* Rows without one that is running are the results.
LEMMA VerificationSealedRows ==
    ASSUME Verification!VerificationInv, NEW r \in VerificationIds, ~Verification!Unknown(r)
    PROVE  steps[r] = results[r]
<1>1. steps[r] \in Seq(Verification!Results \cup {"running"})
      /\ results[r] \in Seq(Verification!Results) /\ Verification!RowsTold(r)
  BY VerificationFacts
<1>2. CASE Verification!Begun(r)
  <2>1. Len(steps[r]) = Len(results[r]) + 1 /\ steps[r][Len(steps[r])] = "running"
    BY <1>1, <1>2 DEF Verification!Begun
  <2>2. Len(steps[r]) \in DOMAIN steps[r]
    BY <1>1, <2>1
  <2> QED BY <2>1, <2>2 DEF Verification!Unknown
<1>3. CASE Verification!Unsealed(r)
  <2>1. Len(steps[r]) \in DOMAIN steps[r]
    BY <1>1, <1>3 DEF Verification!Unsealed
  <2> QED BY <1>3, <2>1 DEF Verification!Unknown, Verification!Unsealed
<1> QED BY <1>1, <1>2, <1>3 DEF Verification!RowsTold

-----------------------------------------------------------------------------
(* The shapes of a step *)

VerificationOthers(r) ==
    \A j \in VerificationIds \ {r} :
        /\ verification_review'[j] = verification_review[j] /\ steps'[j] = steps[j]
           /\ results'[j] = results[j]
        /\ launches'[j] = launches[j] /\ stops'[j] = stops[j] /\ task'[j] = task[j]

\* The decision on r, if there is one now, is not one that a fence has missed.
VerificationHeeds(r) ==
    task'[r].pc # "none" =>
        /\ ~booting
        /\ ~Verification!Fenced(r) \/ (task[r].pc # "none" /\ (task[r].cancelled
           => task'[r].cancelled))

\* The status of r is neither withdrawn nor opened again.
VerificationAdvances(r) ==
    /\ verification_review[r].status # "none" => verification_review'[r].status # "none"
    /\ verification_review[r].status \notin {"none", "pending", "running"} =>
          verification_review'[r].status \notin {"pending", "running"}

LEMMA VerificationRequestKept ==
    ASSUME Verification!VerificationInv, NEW r \in VerificationIds, VerificationOthers(r),
           VerificationHeeds(r), VerificationAdvances(r),
           NEW c \in Cancels, request'[c] = request[c]
    PROVE  Verification!RequestHolds(c)'
<1>1. Verification!RequestHolds(c) /\ request[c].pc \in {"idle", "drain", "settle", "done"}
  BY DEF Verification!VerificationInv, Verification!VerificationTypes
<1>2. PICK s : s = request[c].r
  OBVIOUS
<1>3. CASE request[c].pc = "idle"
  BY <1>3 DEF Verification!RequestHolds
<1>4. CASE request[c].pc # "idle" /\ s # r
  <2>1. s \in VerificationIds
    BY <1>1, <1>2, <1>4 DEF Verification!RequestHolds
  <2>2. verification_review'[s] = verification_review[s] /\ task'[s] = task[s]
    BY <1>4, <2>1 DEF VerificationOthers
  <2> QED BY <1>1, <1>2, <2>1, <2>2 DEF Verification!RequestHolds, Verification!Status,
      Verification!Decides
<1>5. CASE request[c].pc # "idle" /\ s = r
  <2>1. request[c].pc \in {"drain", "settle"} => Verification!Fenced(r)
    BY <1>2, <1>5 DEF Verification!Fenced
  <2> QED BY <1>1, <1>2, <1>5, <2>1 DEF Verification!RequestHolds, Verification!Status,
      Verification!Decides, VerificationHeeds, VerificationAdvances
<1> QED BY <1>3, <1>4, <1>5

\* One review moves, with the lock that its decision takes or gives back.
LEMMA VerificationOneReview ==
    ASSUME Verification!PlanNames, Verification!VerificationInv, NEW r \in VerificationIds,
           Verification!VerificationTypes', VerificationOthers(r),
           VerificationHeeds(r), VerificationAdvances(r), booting' = booting,
           lock' = lock \/ (lock = r /\ lock' = "free") \/ (lock = "free" /\ lock' = r),
           Verification!RowsTold(r)', Verification!TaskKnows(r)',
           \A c \in Cancels : request'[c] = request[c] \/ Verification!RequestHolds(c)'
    PROVE  Verification!VerificationInv'
<1>1. ASSUME NEW j \in VerificationIds PROVE Verification!RowsTold(j)' /\ Verification!TaskKnows(j)'
  <2>1. CASE j = r
    BY <2>1
  <2>2. CASE j # r
    <3>1. /\ verification_review'[j] = verification_review[j] /\ steps'[j] = steps[j]
             /\ results'[j] = results[j]
          /\ launches'[j] = launches[j] /\ stops'[j] = stops[j] /\ task'[j] = task[j]
      BY <2>2 DEF VerificationOthers
    <3>2. Verification!RowsTold(j) /\ Verification!TaskKnows(j)
      BY VerificationFacts
    <3>3. Verification!Complete(j)' <=> Verification!Complete(j)
      BY <3>1, VerificationCompleteKept
    <3>4. Verification!RowsTold(j)'
      BY <3>1, <3>2, <3>3 DEF Verification!RowsTold, Verification!Begun, Verification!Unsealed,
         Verification!Status
    <3>5. lock = j => lock' = j
      BY <2>2 DEF Verification!PlanNames
    <3> QED BY <3>1, <3>2, <3>3, <3>4, <3>5 DEF Verification!TaskKnows, Verification!Begun,
        Verification!Unsealed, Verification!Status
  <2> QED BY <2>1, <2>2
<1>2. \A c \in Cancels : Verification!RequestHolds(c)'
  BY VerificationRequestKept
<1>3. booting' => \A j \in VerificationIds : ~Verification!Decides(j)'
  BY DEF Verification!VerificationInv, Verification!Decides, VerificationOthers, VerificationHeeds
<1> QED BY <1>1, <1>2, <1>3 DEF Verification!VerificationInv

\* Only the decision on r and its lock change.
LEMMA VerificationTaskOnly ==
    ASSUME Verification!PlanNames, Verification!VerificationInv, NEW r \in VerificationIds,
           UNCHANGED <<verification_review, steps, results, launches, stops, stale, booting,
                       request>>,
           task' \in [VerificationIds -> VerificationDecision],
               \A j \in VerificationIds \ {r} : task'[j] = task[j],
           lock' = lock \/ (lock = r /\ lock' = "free") \/ (lock = "free" /\ lock' = r),
           VerificationHeeds(r), Verification!TaskKnows(r)', task'[r].pc = "prepare"
               => steps[r] = <<>>
    PROVE  Verification!VerificationInv'
<1>1. Verification!VerificationTypes'
  BY DEF Verification!VerificationInv, Verification!VerificationTypes, VerificationDecision,
     VerificationVerdicts
<1>2. Verification!RowsTold(r)'
  <2>1. Verification!RowsTold(r)
    BY VerificationFacts
  <2>2. Verification!Complete(r)' <=> Verification!Complete(r)
    BY VerificationCompleteKept
  <2> QED BY <2>1, <2>2 DEF Verification!RowsTold, Verification!Begun, Verification!Unsealed,
      Verification!Status
<1>3. VerificationOthers(r) /\ VerificationAdvances(r)
  BY DEF VerificationOthers, VerificationAdvances
<1> QED BY <1>1, <1>2, <1>3, VerificationOneReview

\* Only the row of r changes, while no decision works on it.
LEMMA VerificationReviewOnly ==
    ASSUME Verification!PlanNames, Verification!VerificationInv, NEW r \in VerificationIds,
           NEW v \in VerificationRow,
           UNCHANGED <<steps, results, launches, stops, stale, booting, task, lock>>,
           request' \in [Cancels -> [pc : {"idle", "drain", "settle", "done"},
               r : VerificationIds \cup {""}]],
           verification_review' = [verification_review EXCEPT ![r] = v],
           task[r].pc \notin Verification!Working,
           v.decision = verification_review[r].decision \/ Verification!Status(r) = "pending",
           v.status = Verification!Status(r) \/ (Verification!Status(r) # "none"
               /\ v.status \notin {"none", "pending", "running"}),
           v.status = "completed" => Verification!Complete(r),
           \A c \in Cancels : request'[c] = request[c] \/ Verification!RequestHolds(c)'
    PROVE  Verification!VerificationInv'
<1>1. /\ verification_review' \in [VerificationIds -> VerificationRow]
         /\ verification_review'[r] = v
      /\ \A j \in VerificationIds \ {r} : verification_review'[j] = verification_review[j]
  BY DEF Verification!VerificationInv, Verification!VerificationTypes, VerificationRow
<1>2. Verification!VerificationTypes'
  BY <1>1 DEF Verification!VerificationInv, Verification!VerificationTypes, VerificationRow
<1>3. Verification!Complete(r)' <=> Verification!Complete(r)
  BY VerificationCompleteKept
<1>4. Verification!RowsTold(r)'
  <2>1. Verification!RowsTold(r)
    BY VerificationFacts
  <2>2. Verification!Status(r)' = v.status
    BY <1>1 DEF Verification!Status
  <2> QED BY <1>1, <1>3, <2>1, <2>2 DEF Verification!RowsTold, Verification!Begun,
      Verification!Unsealed, Verification!Status
<1>5. Verification!TaskKnows(r)'
  <2>1. Verification!TaskKnows(r)
    BY VerificationFacts
  <2> QED BY <2>1 DEF Verification!TaskKnows, Verification!Working
<1>6. VerificationOthers(r) /\ VerificationAdvances(r)
  BY <1>1 DEF VerificationOthers, VerificationAdvances, Verification!Status
<1>7. VerificationHeeds(r)
  BY DEF VerificationHeeds, Verification!VerificationInv, Verification!Decides
<1> QED BY <1>2, <1>4, <1>5, <1>6, <1>7, VerificationOneReview

-----------------------------------------------------------------------------
(* Where a task goes *)

LEMMA VerificationGotoFacts ==
    ASSUME Verification!VerificationInv, NEW r \in VerificationIds,
           NEW pc \in Verification!Working, Verification!Goto(r, pc)
    PROVE  /\ task' \in [VerificationIds -> VerificationDecision]
              /\ \A j \in VerificationIds \ {r} : task'[j] = task[j]
           /\ task'[r].pc = pc /\ task'[r].cancelled = task[r].cancelled
           /\ task'[r].last = task[r].last /\ lock' = lock
<1>1. task \in [VerificationIds -> VerificationDecision]
  BY DEF Verification!VerificationInv, Verification!VerificationTypes, VerificationDecision,
     VerificationVerdicts
<1>2. PICK t : t = [task[r] EXCEPT !.pc = pc]
  OBVIOUS
<1>3. /\ t \in VerificationDecision /\ t.pc = pc /\ t.cancelled = task[r].cancelled
         /\ t.last = task[r].last
  BY <1>1, <1>2 DEF VerificationDecision
<1>4. task' = [task EXCEPT ![r] = t] /\ lock' = lock
  BY <1>1, <1>2 DEF Verification!Goto
<1> QED BY <1>1, <1>3, <1>4

LEMMA VerificationConcludeFacts ==
    ASSUME Verification!VerificationInv, NEW r \in VerificationIds,
           NEW answer \in VerificationVerdicts, Verification!Conclude(r, answer)
    PROVE  /\ task' \in [VerificationIds -> VerificationDecision]
              /\ \A j \in VerificationIds \ {r} : task'[j] = task[j]
           /\ task'[r].pc = "outcome" /\ task'[r].cancelled = task[r].cancelled
           /\ task'[r].verdict = answer /\ lock' = lock
<1>1. task \in [VerificationIds -> VerificationDecision]
  BY DEF Verification!VerificationInv, Verification!VerificationTypes, VerificationDecision,
     VerificationVerdicts
<1>2. PICK t : t = [task[r] EXCEPT !.pc = "outcome", !.verdict = answer]
  OBVIOUS
<1>3. /\ t \in VerificationDecision /\ t.pc = "outcome" /\ t.cancelled = task[r].cancelled
         /\ t.verdict = answer
  BY <1>1, <1>2 DEF VerificationDecision, Verification!Working
<1>4. task' = [task EXCEPT ![r] = t] /\ lock' = lock
  BY <1>1, <1>2 DEF Verification!Conclude
<1> QED BY <1>1, <1>3, <1>4

LEMMA VerificationEndFacts ==
    ASSUME Verification!VerificationInv, NEW r \in VerificationIds, Verification!End(r)
    PROVE  /\ task' \in [VerificationIds -> VerificationDecision]
              /\ \A j \in VerificationIds \ {r} : task'[j] = task[j]
           /\ task'[r].pc = "none"
           /\ lock' = lock \/ (lock = r /\ lock' = "free")
<1>1. task \in [VerificationIds -> VerificationDecision]
      /\ Verification!NoTask \in VerificationDecision /\ Verification!NoTask.pc = "none"
  BY DEF Verification!VerificationInv, Verification!VerificationTypes, VerificationDecision,
     VerificationVerdicts, Verification!NoTask
<1> QED BY <1>1 DEF Verification!End

\* A working decision ends its plan with a verdict.
LEMMA VerificationConcludes ==
    ASSUME Verification!PlanNames, Verification!VerificationInv, NEW r \in VerificationIds,
           task[r].pc \in Verification!Working,
           NEW answer \in VerificationVerdicts \ {""}, Verification!Conclude(r, answer),
               answer = "completed" => Verification!Complete(r),
           UNCHANGED <<verification_review, steps, request>>, Verification!Env, Verification!History
    PROVE  Verification!VerificationInv'
<1>1. /\ task' \in [VerificationIds -> VerificationDecision]
         /\ \A j \in VerificationIds \ {r} : task'[j] = task[j]
      /\ task'[r].pc = "outcome" /\ task'[r].cancelled = task[r].cancelled
      /\ task'[r].verdict = answer /\ lock' = lock
  BY VerificationConcludeFacts
<1>2. Verification!Complete(r)' <=> Verification!Complete(r)
  BY VerificationCompleteKept DEF Verification!Env
<1>3. Verification!TaskKnows(r)
  BY VerificationFacts
<1>4. Verification!TaskKnows(r)'
  BY <1>1, <1>2, <1>3 DEF Verification!TaskKnows, Verification!Working, Verification!Status
<1>5. VerificationHeeds(r)
  BY <1>1 DEF VerificationHeeds, Verification!VerificationInv, Verification!Decides,
     Verification!Working
<1> QED BY <1>1, <1>4, <1>5, VerificationTaskOnly DEF Verification!Env, Verification!History

\* A decision ends without writing anything.
LEMMA VerificationEnds ==
    ASSUME Verification!PlanNames, Verification!VerificationInv, NEW r \in VerificationIds,
           Verification!End(r),
           UNCHANGED <<verification_review, steps, request>>, Verification!Env, Verification!History
    PROVE  Verification!VerificationInv'
<1>1. /\ task' \in [VerificationIds -> VerificationDecision]
         /\ \A j \in VerificationIds \ {r} : task'[j] = task[j]
      /\ task'[r].pc = "none"
      /\ lock' = lock \/ (lock = r /\ lock' = "free")
  BY VerificationEndFacts
<1>2. Verification!TaskKnows(r)' /\ VerificationHeeds(r)
  BY <1>1 DEF Verification!TaskKnows, Verification!Working, VerificationHeeds
<1> QED BY <1>1, <1>2, VerificationTaskOnly DEF Verification!Env, Verification!History

-----------------------------------------------------------------------------
(* The steps of a decision *)

LEMMA VerificationDecideStep ==
    ASSUME Verification!PlanNames, Verification!VerificationInv, NEW r \in VerificationIds,
           Verification!Decide(r)
    PROVE  Verification!VerificationInv'
<1>1. task \in [VerificationIds -> VerificationDecision]
  BY DEF Verification!VerificationInv, Verification!VerificationTypes, VerificationDecision,
     VerificationVerdicts
<1>2. PICK t : t = [task[r] EXCEPT !.pc = "wait"]
  OBVIOUS
<1>3. t \in VerificationDecision /\ t.pc = "wait"
  BY <1>1, <1>2 DEF VerificationDecision
<1>4. task' = [task EXCEPT ![r] = t]
  BY <1>1, <1>2 DEF Verification!Decide
<1>5. task' \in [VerificationIds -> VerificationDecision] /\ task'[r].pc = "wait"
      /\ \A j \in VerificationIds \ {r} : task'[j] = task[j]
  BY <1>1, <1>3, <1>4
<1>6. Verification!TaskKnows(r)' /\ VerificationHeeds(r)
  BY <1>5 DEF Verification!TaskKnows, Verification!Working, VerificationHeeds,
     Verification!Decide, Verification!Open
<1> QED BY <1>5, <1>6, VerificationTaskOnly DEF Verification!Decide, Verification!Env,
    Verification!History

LEMMA VerificationTakeStep ==
    ASSUME Verification!PlanNames, Verification!VerificationInv, NEW r \in VerificationIds,
           Verification!Take(r)
    PROVE  Verification!VerificationInv'
<1>1. task \in [VerificationIds -> VerificationDecision]
  BY DEF Verification!VerificationInv, Verification!VerificationTypes, VerificationDecision,
     VerificationVerdicts
<1>2. PICK t : t = [task[r] EXCEPT !.pc = "claim"]
  OBVIOUS
<1>3. t \in VerificationDecision /\ t.pc = "claim" /\ t.cancelled = task[r].cancelled
  BY <1>1, <1>2 DEF VerificationDecision
<1>4. task' = [task EXCEPT ![r] = t]
  BY <1>1, <1>2 DEF Verification!Take
<1>5. /\ task' \in [VerificationIds -> VerificationDecision]
         /\ \A j \in VerificationIds \ {r} : task'[j] = task[j]
      /\ task'[r].pc = "claim" /\ task'[r].cancelled = task[r].cancelled
  BY <1>1, <1>3, <1>4
<1>6. Verification!TaskKnows(r)'
  BY <1>5 DEF Verification!TaskKnows, Verification!Working, Verification!Take
<1>7. VerificationHeeds(r)
  BY <1>5 DEF VerificationHeeds, Verification!VerificationInv, Verification!Decides,
     Verification!Take
<1> QED BY <1>5, <1>6, <1>7, VerificationTaskOnly DEF Verification!Take, Verification!Env,
    Verification!History

\* The row of r changes as its decision ends or goes on: what the rows tell stays.
LEMMA VerificationDecisionWrites ==
    ASSUME Verification!PlanNames, Verification!VerificationInv, NEW r \in VerificationIds,
           NEW v \in VerificationRow,
           task[r].pc # "none",
           UNCHANGED <<steps, request>>, Verification!Env, Verification!History,
           verification_review' = [verification_review EXCEPT ![r] = v],
           task' \in [VerificationIds -> VerificationDecision],
               \A j \in VerificationIds \ {r} : task'[j] = task[j],
           task'[r].pc # "none" => task'[r].cancelled = task[r].cancelled,
           lock' = lock \/ (lock = r /\ lock' = "free"),
           Verification!TaskKnows(r)',
           v.decision = verification_review[r].decision \/ steps[r] = <<>>,
           v.status \in {"none", "pending"} \/ task'[r].pc = "prepare" => steps[r] = <<>>,
           v.status = "completed" => Verification!Complete(r), VerificationAdvances(r)
    PROVE  Verification!VerificationInv'
<1>1. /\ verification_review' \in [VerificationIds -> VerificationRow]
         /\ verification_review'[r] = v
      /\ \A j \in VerificationIds \ {r} : verification_review'[j] = verification_review[j]
  BY DEF Verification!VerificationInv, Verification!VerificationTypes, VerificationRow
<1>2. Verification!VerificationTypes'
  BY <1>1 DEF Verification!VerificationInv, Verification!VerificationTypes, VerificationRow,
     VerificationDecision, VerificationVerdicts, Verification!Env, Verification!History
<1>3. Verification!Complete(r)' <=> Verification!Complete(r)
  BY VerificationCompleteKept DEF Verification!Env
<1>4. Verification!RowsTold(r)'
  <2>1. Verification!RowsTold(r)
    BY VerificationFacts
  <2>2. Verification!Status(r)' = v.status
    BY <1>1 DEF Verification!Status
  <2> QED BY <1>1, <1>3, <2>1, <2>2 DEF Verification!RowsTold, Verification!Begun,
      Verification!Unsealed, Verification!History
<1>5. VerificationOthers(r)
  BY <1>1 DEF VerificationOthers, Verification!Env, Verification!History
<1>6. VerificationHeeds(r)
  BY DEF VerificationHeeds, Verification!VerificationInv, Verification!Decides
<1> QED BY <1>2, <1>4, <1>5, <1>6, VerificationOneReview DEF Verification!Env

\* What a write of a status leaves of its row.
LEMMA VerificationStatusFacts ==
    ASSUME Verification!VerificationInv, NEW r \in VerificationIds,
           NEW s \in Verification!Statuses, Verification!SetStatus(r, s)
    PROVE  \E v \in VerificationRow :
        /\ verification_review' = [verification_review EXCEPT ![r] = v] /\ v.status = s
                                      /\ v.decision = verification_review[r].decision
<1>1. PICK v : v = [verification_review[r] EXCEPT !.status = s]
  OBVIOUS
<1>2. verification_review \in [VerificationIds -> VerificationRow]
  BY DEF Verification!VerificationInv, Verification!VerificationTypes, VerificationRow
<1>3. v \in VerificationRow /\ v.status = s /\ v.decision = verification_review[r].decision
  BY <1>1, <1>2 DEF VerificationRow
<1>4. verification_review' = [verification_review EXCEPT ![r] = v]
  BY <1>1, <1>2 DEF Verification!SetStatus
<1> QED BY <1>3, <1>4

LEMMA VerificationCurrentFacts ==
    ASSUME Verification!VerificationInv, NEW r \in VerificationIds
    PROVE  /\ Verification!Current(r) \in Verification!Statuses
           /\ Verification!Current(r) = "pending" => Verification!Status(r) = "pending"
           /\ Verification!Current(r) = Verification!Status(r)
              \/ (Verification!Status(r) = "pending" /\ Verification!Current(r) = "expired")
<1>1. verification_review[r] \in VerificationRow
  BY VerificationFacts
<1> QED BY <1>1 DEF Verification!Current, Verification!Status, VerificationRow,
    Verification!Statuses

LEMMA VerificationRefusedStep ==
    ASSUME Verification!PlanNames, Verification!VerificationInv, NEW r \in VerificationIds,
           Verification!Refused(r)
    PROVE  Verification!VerificationInv'
<1>1. Verification!Current(r) \in Verification!Statuses /\ Verification!SetStatus(r,
      Verification!Current(r)) /\ Verification!End(r) /\ task[r].pc = "claim"
  BY VerificationCurrentFacts DEF Verification!Refused
<1>2. PICK v \in VerificationRow :
      /\ verification_review' = [verification_review EXCEPT ![r] = v]
         /\ v.status = Verification!Current(r)
                                   /\ v.decision = verification_review[r].decision
  BY <1>1, VerificationStatusFacts
<1>3. /\ task' \in [VerificationIds -> VerificationDecision]
         /\ \A j \in VerificationIds \ {r} : task'[j] = task[j]
      /\ task'[r].pc = "none"
      /\ lock' = lock \/ (lock = r /\ lock' = "free")
  BY <1>1, VerificationEndFacts
<1>4. Verification!RowsTold(r) /\ verification_review[r] \in VerificationRow
  BY VerificationFacts
<1>5. verification_review'[r] = v
  BY <1>2 DEF Verification!VerificationInv, Verification!VerificationTypes
<1>6. VerificationAdvances(r)
  BY <1>2, <1>5, VerificationCurrentFacts DEF VerificationAdvances, Verification!Status
<1>7. Verification!TaskKnows(r)'
  BY <1>3 DEF Verification!TaskKnows, Verification!Working
<1>8. /\ v.status \in {"none", "pending"} => steps[r] = <<>>
      /\ v.status = "completed" => Verification!Complete(r)
  BY <1>2, <1>4, VerificationCurrentFacts DEF Verification!RowsTold
<1> QED BY <1>1, <1>2, <1>3, <1>6, <1>7, <1>8, VerificationDecisionWrites DEF Verification!Refused

LEMMA VerificationRejectStep ==
    ASSUME Verification!PlanNames, Verification!VerificationInv, NEW r \in VerificationIds,
           Verification!Reject(r)
    PROVE  Verification!VerificationInv'
<1>1. /\ Verification!End(r) /\ task[r].pc = "claim" /\ Verification!Status(r) = "pending"
  BY VerificationCurrentFacts DEF Verification!Reject
<1>2. PICK v : v = [verification_review[r] EXCEPT !.status = "rejected", !.decision = "reject"]
  OBVIOUS
<1>3. /\ v \in VerificationRow /\ v.status = "rejected" /\ v.decision = "reject"
  BY <1>2, VerificationFacts DEF VerificationRow, Verification!Statuses
<1>4. verification_review' = [verification_review EXCEPT ![r] = v] /\ verification_review'[r] = v
  BY <1>2 DEF Verification!Reject, Verification!VerificationInv, Verification!VerificationTypes
<1>5. /\ task' \in [VerificationIds -> VerificationDecision]
         /\ \A j \in VerificationIds \ {r} : task'[j] = task[j]
      /\ task'[r].pc = "none"
      /\ lock' = lock \/ (lock = r /\ lock' = "free")
  BY <1>1, VerificationEndFacts
<1>6. steps[r] = <<>>
  BY <1>1, VerificationFacts DEF Verification!RowsTold
<1>7. VerificationAdvances(r) /\ Verification!TaskKnows(r)'
  BY <1>1, <1>3, <1>4, <1>5 DEF VerificationAdvances, Verification!TaskKnows,
     Verification!Working, Verification!Status
<1> QED BY <1>1, <1>3, <1>4, <1>5, <1>6, <1>7, VerificationDecisionWrites DEF Verification!Reject

LEMMA VerificationApproveStep ==
    ASSUME Verification!PlanNames, Verification!VerificationInv, NEW r \in VerificationIds,
           Verification!Approve(r)
    PROVE  Verification!VerificationInv'
<1>1. /\ task[r].pc = "claim" /\ Verification!Status(r) = "pending"
  BY VerificationCurrentFacts DEF Verification!Approve
<1>2. PICK v : v = [verification_review[r] EXCEPT !.status = "running", !.decision = "approve"]
  OBVIOUS
<1>3. /\ v \in VerificationRow /\ v.status = "running" /\ v.decision = "approve"
  BY <1>2, VerificationFacts DEF VerificationRow, Verification!Statuses
<1>4. verification_review' = [verification_review EXCEPT ![r] = v] /\ verification_review'[r] = v
  BY <1>2 DEF Verification!Approve, Verification!VerificationInv, Verification!VerificationTypes
<1>5. lock = r /\ steps[r] = <<>>
  BY <1>1, VerificationFacts DEF Verification!TaskKnows, Verification!RowsTold
<1>6. VerificationAdvances(r)
  BY <1>1, <1>3, <1>4 DEF VerificationAdvances, Verification!Status
<1>7. /\ task' \in [VerificationIds -> VerificationDecision]
         /\ \A j \in VerificationIds \ {r} : task'[j] = task[j]
      /\ task'[r].pc # "none" => task'[r].cancelled = task[r].cancelled
      /\ lock' = lock \/ (lock = r /\ lock' = "free")
      /\ Verification!TaskKnows(r)'
  <2>1. CASE Verification!Goto(r, "prepare")
    <3>1. "prepare" \in Verification!Working
      BY DEF Verification!Working
    <3>2. /\ task' \in [VerificationIds -> VerificationDecision]
             /\ \A j \in VerificationIds \ {r} : task'[j] = task[j]
          /\ task'[r].pc = "prepare" /\ task'[r].cancelled = task[r].cancelled /\ lock' = lock
      BY <2>1, <3>1, VerificationGotoFacts
    <3> QED BY <1>3, <1>4, <1>5, <3>2 DEF Verification!TaskKnows, Verification!Working,
        Verification!Status
  <2>2. CASE Verification!Conclude(r, "cancelled")
    <3>1. /\ task' \in [VerificationIds -> VerificationDecision]
             /\ \A j \in VerificationIds \ {r} : task'[j] = task[j]
          /\ task'[r].pc = "outcome" /\ task'[r].cancelled = task[r].cancelled
          /\ task'[r].verdict = "cancelled" /\ lock' = lock
      BY <2>2, VerificationConcludeFacts DEF VerificationVerdicts
    <3> QED BY <1>3, <1>4, <1>5, <3>1 DEF Verification!TaskKnows, Verification!Working,
        Verification!Status
  <2>3. CASE Verification!End(r)
    <3>1. /\ task' \in [VerificationIds -> VerificationDecision]
             /\ \A j \in VerificationIds \ {r} : task'[j] = task[j]
          /\ task'[r].pc = "none"
          /\ lock' = lock \/ (lock = r /\ lock' = "free")
      BY <2>3, VerificationEndFacts
    <3> QED BY <3>1 DEF Verification!TaskKnows, Verification!Working
  <2> QED BY <2>1, <2>2, <2>3 DEF Verification!Approve
<1> QED BY <1>1, <1>3, <1>4, <1>5, <1>6, <1>7, VerificationDecisionWrites DEF Verification!Approve

LEMMA VerificationPreparePipelineStep ==
    ASSUME Verification!PlanNames, Verification!VerificationInv, NEW r \in VerificationIds,
           Verification!PreparePipeline(r)
    PROVE  Verification!VerificationInv'
<1>1. task[r].pc = "prepare" /\ task[r].pc \in Verification!Working
  BY DEF Verification!PreparePipeline, Verification!Working
<1>2. ASSUME NEW answer \in {"cancelled", "failed", "indeterminate"}, Verification!Conclude(r,
             answer)
      PROVE  Verification!VerificationInv'
  BY <1>1, <1>2, VerificationConcludes DEF VerificationVerdicts, Verification!PreparePipeline
<1>3. CASE Verification!Goto(r, "start")
  <2>1. "start" \in Verification!Working
    BY DEF Verification!Working
  <2>2. /\ task' \in [VerificationIds -> VerificationDecision]
           /\ \A j \in VerificationIds \ {r} : task'[j] = task[j]
        /\ task'[r].pc = "start" /\ task'[r].cancelled = task[r].cancelled /\ lock' = lock
    BY <1>3, <2>1, VerificationGotoFacts
  <2>3. steps[r] = <<>> /\ Verification!TaskKnows(r)
    BY <1>1, VerificationFacts DEF Verification!RowsTold
  <2>4. ~Verification!Unknown(r)
    BY <2>3 DEF Verification!Unknown
  <2>5. steps[r] = results[r]
    BY <2>4, VerificationSealedRows
  <2>6. Verification!TaskKnows(r)'
    BY <1>1, <2>2, <2>3, <2>5 DEF Verification!TaskKnows, Verification!Working,
       Verification!Status, Verification!PreparePipeline, Verification!History
  <2>7. VerificationHeeds(r)
    BY <1>1, <2>2 DEF VerificationHeeds, Verification!VerificationInv, Verification!Decides
  <2> QED BY <2>2, <2>6, <2>7, VerificationTaskOnly DEF Verification!PreparePipeline,
      Verification!Env, Verification!History
<1> QED BY <1>2, <1>3 DEF Verification!PreparePipeline

LEMMA VerificationEndPlanStep ==
    ASSUME Verification!PlanNames, Verification!VerificationInv, NEW r \in VerificationIds,
           Verification!EndPlan(r)
    PROVE  Verification!VerificationInv'
<1>1. task[r].pc \in Verification!Working /\ Verification!Complete(r)
  BY DEF Verification!EndPlan, Verification!Working, Verification!PlanOver
<1>2. PICK answer \in VerificationVerdicts \ {""} : Verification!Conclude(r, answer)
  BY DEF Verification!EndPlan, VerificationVerdicts
<1> QED BY <1>1, <1>2, VerificationConcludes DEF Verification!EndPlan

LEMMA VerificationStalePlanStep ==
    ASSUME Verification!PlanNames, Verification!VerificationInv, NEW r \in VerificationIds,
           Verification!StalePlan(r)
    PROVE  Verification!VerificationInv'
BY VerificationConcludes DEF Verification!StalePlan, Verification!Working, VerificationVerdicts

LEMMA VerificationBreakStep ==
    ASSUME Verification!PlanNames, Verification!VerificationInv, NEW r \in VerificationIds,
           Verification!Break(r)
    PROVE  Verification!VerificationInv'
BY VerificationConcludes DEF Verification!Break, Verification!Working, VerificationVerdicts

LEMMA VerificationKillStep ==
    ASSUME Verification!PlanNames, Verification!VerificationInv, NEW r \in VerificationIds,
           Verification!Kill(r)
    PROVE  Verification!VerificationInv'
BY VerificationConcludes DEF Verification!Kill, Verification!Working, VerificationVerdicts

\* What a decision knows when it has written rows or started a command for r.
LEMMA VerificationRowsMove ==
    ASSUME Verification!PlanNames, Verification!VerificationInv, NEW r \in VerificationIds,
           task[r].pc \in Verification!Working,
           NEW w \in Seq(Verification!Results \cup {"running"}),
               NEW x \in Seq(Verification!Results),
           NEW l \in [1..NCommands -> Nat],
           steps' = [steps EXCEPT ![r] = w], results' = [results EXCEPT ![r] = x],
           launches' = [launches EXCEPT ![r] = l],
           UNCHANGED <<verification_review, request, lock>>, Verification!Env,
           task' \in [VerificationIds -> VerificationDecision],
               \A j \in VerificationIds \ {r} : task'[j] = task[j],
           task'[r].pc \in Verification!Working \ {"prepare"},
               task'[r].cancelled = task[r].cancelled,
           w = x \/ Verification!Begun(r)' \/ Verification!Unsealed(r)', Len(w) <= NCommands,
           \A i \in 1..NCommands : l[i] <= 1 /\ (l[i] # 0 => i <= Len(w)),
           Verification!TaskKnows(r)'
    PROVE  Verification!VerificationInv'
<1>1. /\ steps' \in [VerificationIds -> Seq(Verification!Results \cup {"running"})] /\ steps'[r] = w
      /\ results' \in [VerificationIds -> Seq(Verification!Results)] /\ results'[r] = x
      /\ launches' \in [VerificationIds -> [1..NCommands -> Nat]] /\ launches'[r] = l
      /\ \A j \in VerificationIds \ {r} :
            steps'[j] = steps[j] /\ results'[j] = results[j] /\ launches'[j] = launches[j]
  BY DEF Verification!VerificationInv, Verification!VerificationTypes
<1>2. Verification!VerificationTypes'
  BY <1>1 DEF Verification!VerificationInv, Verification!VerificationTypes, VerificationDecision,
     VerificationVerdicts, Verification!Env
<1>3. verification_review[r].decision = "approve" /\ Verification!Status(r) = "running"
  BY VerificationFacts DEF Verification!TaskKnows
<1>4. Verification!RowsTold(r)'
  BY <1>1, <1>3 DEF Verification!RowsTold, Verification!Status, Verification!Working
<1>5. VerificationOthers(r) /\ VerificationAdvances(r)
  BY <1>1 DEF VerificationOthers, VerificationAdvances, Verification!Env
<1>6. VerificationHeeds(r)
  BY DEF VerificationHeeds, Verification!VerificationInv, Verification!Decides,
     Verification!Working
<1> QED BY <1>2, <1>4, <1>5, <1>6, VerificationOneReview DEF Verification!Env

LEMMA VerificationStartStepStep ==
    ASSUME Verification!PlanNames, Verification!VerificationInv, NEW r \in VerificationIds,
           Verification!StartStep(r)
    PROVE  Verification!VerificationInv'
<1>1. /\ task[r].pc = "start" /\ task[r].pc \in Verification!Working
         /\ ~Verification!Complete(r) /\ ~Verification!Unknown(r)
  BY DEF Verification!StartStep, Verification!PlanOver, Verification!Working
<1>2. CASE UNCHANGED steps /\ Verification!Conclude(r, "indeterminate")
  BY <1>1, <1>2, VerificationConcludes DEF Verification!StartStep, VerificationVerdicts
<1>3. CASE /\ steps' = [steps EXCEPT ![r] = Append(@, "running")]
           /\ \/ ~task[r].cancelled /\ Verification!Goto(r, "launch")
              \/ Verification!Conclude(r,
                 IF task[r].cancelled THEN "cancelled" ELSE "indeterminate")
  <2>1. /\ steps[r] \in Seq(Verification!Results \cup {"running"})
           /\ results[r] \in Seq(Verification!Results)
        /\ launches[r] \in [1..NCommands -> Nat] /\ Verification!RowsTold(r)
           /\ Verification!TaskKnows(r)
        /\ steps[r] = results[r]
    BY <1>1, VerificationFacts, VerificationSealedRows
  <2>2. PICK w \in Seq(Verification!Results \cup {"running"}) : w = Append(steps[r], "running")
    <3>1. "running" \in Verification!Results \cup {"running"}
      OBVIOUS
    <3> QED BY <2>1, <3>1, VerificationAppended
  <2>3. Len(w) = Len(steps[r]) + 1 /\ Len(steps[r]) < NCommands
    BY <1>1, <2>1, <2>2 DEF Verification!Complete, Verification!RowsTold, Verification!PlanNames
  <2>4. /\ steps' = [steps EXCEPT ![r] = w] /\ results' = [results EXCEPT ![r] = results[r]]
        /\ launches' = [launches EXCEPT ![r] = launches[r]]
    BY <1>3, <2>2 DEF Verification!StartStep, Verification!History, Verification!VerificationInv,
       Verification!VerificationTypes
  <2>5. steps'[r] = w /\ results'[r] = results[r] /\ launches'[r] = launches[r]
    BY <2>4 DEF Verification!VerificationInv, Verification!VerificationTypes
  <2>6. Verification!Begun(r)'
    BY <2>1, <2>2, <2>5 DEF Verification!Begun
  <2>7. \A i \in 1..NCommands :
            launches[r][i] <= 1 /\ (launches[r][i] # 0 => i <= Len(w) /\ i # Len(w))
    BY <2>1, <2>3 DEF Verification!RowsTold
  <2>8. Len(w) \in 1..NCommands /\ launches[r][Len(w)] = 0
    BY <2>1, <2>3, <2>7 DEF Verification!PlanNames
  <2>l. /\ Len(w) <= NCommands
        /\ \A i \in 1..NCommands : launches[r][i] <= 1 /\ (launches[r][i] # 0 => i <= Len(w))
        /\ UNCHANGED <<verification_review, request>> /\ Verification!Env
    BY <2>7, <2>8 DEF Verification!PlanNames, Verification!StartStep
  <2>9. CASE Verification!Goto(r, "launch")
    <3>1. "launch" \in Verification!Working
      BY DEF Verification!Working
    <3>2. /\ task' \in [VerificationIds -> VerificationDecision]
             /\ \A j \in VerificationIds \ {r} : task'[j] = task[j]
          /\ task'[r].pc = "launch" /\ task'[r].cancelled = task[r].cancelled /\ lock' = lock
      BY <2>9, <3>1, VerificationGotoFacts
    <3>3. Verification!TaskKnows(r)'
      BY <1>1, <2>1, <2>5, <2>6, <2>8, <3>2 DEF Verification!TaskKnows, Verification!Working,
         Verification!Status, Verification!StartStep
    <3>4. task'[r].pc \in Verification!Working \ {"prepare"}
      BY <3>2 DEF Verification!Working
    <3> QED BY <1>1, <2>1, <2>4, <2>6, <2>l, <3>2, <3>3, <3>4, VerificationRowsMove
  <2>10. CASE Verification!Conclude(r, IF task[r].cancelled THEN "cancelled" ELSE "indeterminate")
    <3>1. PICK answer \in {"cancelled", "indeterminate"} : Verification!Conclude(r, answer)
      BY <2>10
    <3>2. /\ task' \in [VerificationIds -> VerificationDecision]
             /\ \A j \in VerificationIds \ {r} : task'[j] = task[j]
          /\ task'[r].pc = "outcome" /\ task'[r].cancelled = task[r].cancelled
          /\ task'[r].verdict = answer /\ lock' = lock
      BY <3>1, VerificationConcludeFacts DEF VerificationVerdicts
    <3>3. Verification!TaskKnows(r)'
      BY <1>1, <2>1, <3>2 DEF Verification!TaskKnows, Verification!Working, Verification!Status,
         Verification!StartStep
    <3>4. task'[r].pc \in Verification!Working \ {"prepare"}
      BY <3>2 DEF Verification!Working
    <3> QED BY <1>1, <2>1, <2>4, <2>6, <2>l, <3>2, <3>3, <3>4, VerificationRowsMove
  <2> QED BY <1>3, <2>9, <2>10
<1> QED BY <1>2, <1>3 DEF Verification!StartStep

LEMMA VerificationLaunchStep ==
    ASSUME Verification!PlanNames, Verification!VerificationInv, NEW r \in VerificationIds,
           Verification!Launch(r)
    PROVE  Verification!VerificationInv'
<1>1. task[r].pc = "launch" /\ task[r].pc \in Verification!Working /\ "run" \in Verification!Working
  BY DEF Verification!Launch, Verification!Working
<1>2. /\ steps[r] \in Seq(Verification!Results \cup {"running"})
         /\ results[r] \in Seq(Verification!Results)
      /\ launches[r] \in [1..NCommands -> Nat] /\ Verification!RowsTold(r)
         /\ Verification!TaskKnows(r)
      /\ Verification!Begun(r) /\ launches[r][Len(steps[r])] = 0
  BY <1>1, VerificationFacts DEF Verification!TaskKnows
<1>3. Len(steps[r]) = Len(results[r]) + 1 /\ Len(steps[r]) \in 1..NCommands
  BY <1>2 DEF Verification!Begun, Verification!RowsTold, Verification!PlanNames
<1>4. PICK n \in 1..NCommands : n = Len(results[r]) + 1 /\ n = Len(steps[r])
  BY <1>3
<1>5. PICK l : l = [launches[r] EXCEPT ![n] = 1]
  OBVIOUS
<1>6. l \in [1..NCommands -> Nat] /\ \A i \in 1..NCommands : l[i] <= 1 /\ (l[i] # 0
      => i <= Len(steps[r]))
  BY <1>2, <1>4, <1>5 DEF Verification!RowsTold
<1>7. /\ steps' = [steps EXCEPT ![r] = steps[r]] /\ results' = [results EXCEPT ![r] = results[r]]
      /\ launches' = [launches EXCEPT ![r] = l]
  <2>1. launches' = [launches EXCEPT ![r][n] = @ + 1]
    BY <1>4 DEF Verification!Launch
  <2>2. launches[r][n] + 1 = 1
    BY <1>2, <1>4
  <2> QED BY <1>5, <2>1, <2>2 DEF Verification!Launch, Verification!VerificationInv,
      Verification!VerificationTypes
<1>8. steps'[r] = steps[r] /\ results'[r] = results[r]
  BY <1>7 DEF Verification!VerificationInv, Verification!VerificationTypes
<1>9. Verification!Begun(r)'
  BY <1>2, <1>8 DEF Verification!Begun
<1>10. /\ task' \in [VerificationIds -> VerificationDecision]
          /\ \A j \in VerificationIds \ {r} : task'[j] = task[j]
       /\ task'[r].pc = "run" /\ task'[r].cancelled = task[r].cancelled /\ lock' = lock
  BY <1>1, VerificationGotoFacts DEF Verification!Launch
<1>11. Verification!TaskKnows(r)'
  BY <1>1, <1>2, <1>9, <1>10 DEF Verification!TaskKnows, Verification!Working,
     Verification!Status, Verification!Launch
<1>12. task'[r].pc \in Verification!Working \ {"prepare"} /\ Len(steps[r]) <= NCommands
  BY <1>10, <1>2 DEF Verification!Working, Verification!RowsTold
<1> QED BY <1>1, <1>2, <1>6, <1>7, <1>9, <1>10, <1>11, <1>12, VerificationRowsMove DEF
    Verification!Launch

LEMMA VerificationExitStep ==
    ASSUME Verification!PlanNames, Verification!VerificationInv, NEW r \in VerificationIds,
           Verification!Exit(r)
    PROVE  Verification!VerificationInv'
<1>1. task[r].pc = "run" /\ task[r].pc \in Verification!Working
  BY DEF Verification!Exit, Verification!Working
<1>2. /\ steps[r] \in Seq(Verification!Results \cup {"running"})
         /\ results[r] \in Seq(Verification!Results)
      /\ launches[r] \in [1..NCommands -> Nat] /\ Verification!RowsTold(r)
         /\ Verification!TaskKnows(r)
      /\ Verification!Begun(r) /\ task[r] \in VerificationDecision
  BY <1>1, VerificationFacts DEF Verification!TaskKnows
<1>3. PICK y \in Verification!Results :
          /\ results' = [results EXCEPT ![r] = Append(@, y)]
          /\ task' = [task EXCEPT ![r].pc = "seal", ![r].last = y]
  BY DEF Verification!Exit
<1>4. PICK x \in Seq(Verification!Results) : x = Append(results[r], y)
  BY <1>2, VerificationAppended
<1>5. PICK t : t = [task[r] EXCEPT !.pc = "seal", !.last = y]
  OBVIOUS
<1>6. t \in VerificationDecision /\ t.pc = "seal" /\ t.last = y /\ t.cancelled = task[r].cancelled
  BY <1>2, <1>5 DEF VerificationDecision, Verification!Working
<1>7. /\ task' \in [VerificationIds -> VerificationDecision] /\ task'[r] = t
         /\ \A j \in VerificationIds \ {r} : task'[j] = task[j]
  <2>1. task \in [VerificationIds -> VerificationDecision]
    BY DEF Verification!VerificationInv, Verification!VerificationTypes, VerificationDecision,
       VerificationVerdicts
  <2>2. task' = [task EXCEPT ![r] = t]
    BY <1>3, <1>5, <2>1
  <2> QED BY <1>6, <2>1, <2>2
<1>8. /\ steps' = [steps EXCEPT ![r] = steps[r]] /\ results' = [results EXCEPT ![r] = x]
      /\ launches' = [launches EXCEPT ![r] = launches[r]]
  BY <1>3, <1>4 DEF Verification!Exit, Verification!VerificationInv,
     Verification!VerificationTypes
<1>9. steps'[r] = steps[r] /\ results'[r] = x
  BY <1>8 DEF Verification!VerificationInv, Verification!VerificationTypes
<1>10. /\ Len(steps[r]) = Len(x) /\ Len(x) # 0 /\ steps[r][Len(x)] = "running" /\ x[Len(x)] = y
       /\ \A i \in 1..(Len(x) - 1) : steps[r][i] = x[i]
  BY <1>2, <1>4 DEF Verification!Begun
<1>11. Verification!Unsealed(r)'
  BY <1>9, <1>10 DEF Verification!Unsealed
<1>12. Verification!TaskKnows(r)'
  BY <1>1, <1>2, <1>6, <1>7, <1>9, <1>10, <1>11 DEF Verification!TaskKnows, Verification!Working,
     Verification!Status, Verification!Exit
<1>13. /\ task'[r].pc \in Verification!Working \ {"prepare"}
          /\ task'[r].cancelled = task[r].cancelled
       /\ Len(steps[r]) <= NCommands
       /\ \A i \in 1..NCommands : launches[r][i] <= 1 /\ (launches[r][i] # 0 => i <= Len(steps[r]))
  BY <1>2, <1>6, <1>7 DEF Verification!Working, Verification!RowsTold
<1> QED BY <1>1, <1>2, <1>7, <1>8, <1>11, <1>12, <1>13, VerificationRowsMove DEF Verification!Exit

LEMMA VerificationSealStepStep ==
    ASSUME Verification!PlanNames, Verification!VerificationInv, NEW r \in VerificationIds,
           Verification!SealStep(r)
    PROVE  Verification!VerificationInv'
<1>1. task[r].pc = "seal" /\ task[r].pc \in Verification!Working /\ "start" \in Verification!Working
  BY DEF Verification!SealStep, Verification!Working
<1>2. CASE UNCHANGED steps /\ Verification!Conclude(r, "indeterminate")
  BY <1>1, <1>2, VerificationConcludes DEF Verification!SealStep, VerificationVerdicts
<1>3. CASE /\ steps' = [steps EXCEPT ![r][Len(steps[r])] = task[r].last]
           /\ IF task[r].cancelled THEN Verification!Conclude(r,
              "cancelled") ELSE Verification!Goto(r, "start")
  <2>1. /\ steps[r] \in Seq(Verification!Results \cup {"running"})
           /\ results[r] \in Seq(Verification!Results)
        /\ launches[r] \in [1..NCommands -> Nat] /\ Verification!RowsTold(r)
           /\ Verification!TaskKnows(r)
        /\ Verification!Unsealed(r) /\ task[r].last = results[r][Len(steps[r])]
    BY <1>1, VerificationFacts DEF Verification!TaskKnows
  <2>2. PICK w : w = [steps[r] EXCEPT ![Len(steps[r])] = task[r].last]
    OBVIOUS
  <2>3. /\ w \in Seq(Verification!Results \cup {"running"}) /\ Len(w) = Len(results[r])
        /\ Len(w) = Len(steps[r])
        /\ \A i \in 1..Len(w) : w[i] = results[r][i]
    BY <2>1, <2>2 DEF Verification!Unsealed
  <2>4. w = results[r]
    <3>1. results[r] \in Seq(Verification!Results \cup {"running"})
      BY <2>1
    <3> QED BY <2>3, <3>1, VerificationSameSequence
  <2>5. /\ steps' = [steps EXCEPT ![r] = w] /\ results' = [results EXCEPT ![r] = results[r]]
        /\ launches' = [launches EXCEPT ![r] = launches[r]]
    BY <1>3, <2>2 DEF Verification!SealStep, Verification!History, Verification!VerificationInv,
       Verification!VerificationTypes
  <2>6. steps'[r] = w /\ results'[r] = results[r]
    BY <2>5 DEF Verification!VerificationInv, Verification!VerificationTypes
  <2>7. /\ Len(w) <= NCommands
        /\ \A i \in 1..NCommands : launches[r][i] <= 1 /\ (launches[r][i] # 0 => i <= Len(w))
    BY <2>1, <2>3 DEF Verification!RowsTold
  <2>8. /\ task' \in [VerificationIds -> VerificationDecision]
           /\ \A j \in VerificationIds \ {r} : task'[j] = task[j]
        /\ task'[r].pc = "start" \/ (task'[r].pc = "outcome" /\ task'[r].verdict = "cancelled")
        /\ task'[r].cancelled = task[r].cancelled /\ lock' = lock
    <3>1. CASE Verification!Goto(r, "start")
      BY <1>1, <3>1, VerificationGotoFacts
    <3>2. CASE Verification!Conclude(r, "cancelled")
      BY <3>2, VerificationConcludeFacts DEF VerificationVerdicts
    <3> QED BY <1>3, <3>1, <3>2
  <2>9. Verification!TaskKnows(r)'
    BY <1>1, <2>1, <2>4, <2>6, <2>8 DEF Verification!TaskKnows, Verification!Working,
       Verification!Status, Verification!SealStep
  <2>10. task'[r].pc \in Verification!Working \ {"prepare"}
    BY <2>8 DEF Verification!Working
  <2> QED BY <1>1, <2>1, <2>3, <2>4, <2>5, <2>7, <2>8, <2>9, <2>10, VerificationRowsMove DEF
      Verification!SealStep
<1> QED BY <1>2, <1>3 DEF Verification!SealStep

LEMMA VerificationOutcomeStep ==
    ASSUME Verification!PlanNames, Verification!VerificationInv, NEW r \in VerificationIds,
           Verification!Outcome(r)
    PROVE  Verification!VerificationInv'
<1>1. /\ task[r].pc = "outcome" /\ task[r].pc \in Verification!Working /\ Verification!End(r)
         /\ Verification!Status(r) = "running"
      /\ task[r] \in VerificationDecision /\ Verification!TaskKnows(r)
  BY VerificationFacts DEF Verification!Outcome, Verification!Working, Verification!TaskKnows
<1>2. CASE UNCHANGED verification_review
  BY <1>2, <1>1, VerificationEnds DEF Verification!Outcome
<1>3. CASE Verification!SetStatus(r, task[r].verdict) /\ task[r].verdict \in Verification!Statuses
  <2>1. PICK v \in VerificationRow :
        /\ verification_review' = [verification_review EXCEPT ![r] = v]
           /\ v.status = task[r].verdict
                                     /\ v.decision = verification_review[r].decision
    BY <1>3, VerificationStatusFacts
  <2>2. /\ task' \in [VerificationIds -> VerificationDecision]
           /\ \A j \in VerificationIds \ {r} : task'[j] = task[j]
        /\ task'[r].pc = "none"
        /\ lock' = lock \/ (lock = r /\ lock' = "free")
    BY <1>1, VerificationEndFacts
  <2>3. v.status \in {"completed", "failed", "indeterminate", "cancelled"}
    BY <1>1, <1>3, <2>1 DEF VerificationDecision, VerificationVerdicts, Verification!Statuses
  <2>4. VerificationAdvances(r)
    BY <1>1, <2>1, <2>3 DEF VerificationAdvances, Verification!Status,
       Verification!VerificationInv, Verification!VerificationTypes
  <2>5. Verification!TaskKnows(r)'
    BY <2>2 DEF Verification!TaskKnows, Verification!Working
  <2>6. v.status = "completed" => Verification!Complete(r)
    BY <1>1, <2>1 DEF Verification!TaskKnows
  <2> QED BY <1>1, <2>1, <2>2, <2>3, <2>4, <2>5, <2>6, VerificationDecisionWrites DEF
      Verification!Outcome
<1> QED BY <1>1, <1>2, <1>3 DEF Verification!Outcome, VerificationDecision, VerificationVerdicts,
    Verification!Statuses, Verification!TaskKnows

LEMMA VerificationLeaveStep ==
    ASSUME Verification!PlanNames, Verification!VerificationInv, NEW r \in VerificationIds,
           Verification!Leave(r)
    PROVE  Verification!VerificationInv'
BY VerificationEnds DEF Verification!Leave

-----------------------------------------------------------------------------
(* What settles a review that no decision works on *)

\* Whoever may take the lock, or serves no decision yet, meets none at work.
LEMMA VerificationNoneWorks ==
    ASSUME Verification!PlanNames, Verification!VerificationInv, lock = "free" \/ booting,
           NEW r \in VerificationIds
    PROVE  task[r].pc \notin Verification!Working
BY VerificationFacts DEF Verification!PlanNames, Verification!TaskKnows,
   Verification!VerificationInv, Verification!Decides, Verification!Working

LEMMA VerificationReconciledFacts ==
    ASSUME Verification!VerificationInv, NEW r \in VerificationIds
    PROVE  /\ Verification!Reconciled(r) \in Verification!Statuses
           /\ Verification!Reconciled(r) = Verification!Status(r)
              \/ (Verification!Status(r) # "none" /\ Verification!Reconciled(r) \notin {"none",
                 "pending", "running"})
           /\ Verification!Reconciled(r) = "completed" => Verification!Complete(r)
           /\ Verification!Reconciled(r) # "running"
           /\ Verification!Current(r) # "pending" => Verification!Reconciled(r) # "pending"
<1>1. Verification!RowsTold(r)
  BY VerificationFacts
<1> QED BY <1>1, VerificationCurrentFacts DEF Verification!Reconciled, Verification!Statuses,
    Verification!RowsTold

LEMMA VerificationExpireStep ==
    ASSUME Verification!PlanNames, Verification!VerificationInv, NEW r \in VerificationIds,
           Verification!Expire(r)
    PROVE  Verification!VerificationInv'
<1>1. Verification!Status(r) = "pending" /\ Verification!Current(r) = "expired"
      /\ Verification!Current(r) \in Verification!Statuses
  BY VerificationCurrentFacts DEF Verification!Expire
<1>2. PICK v \in VerificationRow :
      /\ verification_review' = [verification_review EXCEPT ![r] = v] /\ v.status = "expired"
                                   /\ v.decision = verification_review[r].decision
  BY <1>1, VerificationStatusFacts DEF Verification!Expire
<1>3. task[r].pc \notin Verification!Working
  BY <1>1, VerificationFacts DEF Verification!TaskKnows
<1>4. UNCHANGED <<steps, results, launches, stops, stale, booting, task, lock, request>>
  BY DEF Verification!Expire, Verification!Env, Verification!History
<1>5. request' \in [Cancels -> [pc : {"idle", "drain", "settle", "done"},
      r : VerificationIds \cup {""}]]
  BY <1>4 DEF Verification!VerificationInv, Verification!VerificationTypes
<1> QED BY <1>1, <1>2, <1>3, <1>4, <1>5, VerificationReviewOnly

\* Reconciliation writes what the stored rows say.
LEMMA VerificationReconciles ==
    ASSUME Verification!PlanNames, Verification!VerificationInv, NEW r \in VerificationIds,
           task[r].pc \notin Verification!Working,
           Verification!SetStatus(r, Verification!Reconciled(r)),
           UNCHANGED <<steps, results, launches, stops, stale, booting, task, lock, request>>
    PROVE  Verification!VerificationInv'
<1>1. PICK v \in VerificationRow :
      /\ verification_review' = [verification_review EXCEPT ![r] = v]
         /\ v.status = Verification!Reconciled(r)
                                   /\ v.decision = verification_review[r].decision
  BY VerificationStatusFacts, VerificationReconciledFacts
<1>2. request' \in [Cancels -> [pc : {"idle", "drain", "settle", "done"},
      r : VerificationIds \cup {""}]]
  BY DEF Verification!VerificationInv, Verification!VerificationTypes
<1> QED BY <1>1, <1>2, VerificationReconciledFacts, VerificationReviewOnly

LEMMA VerificationReconcileStep ==
    ASSUME Verification!PlanNames, Verification!VerificationInv, NEW r \in VerificationIds,
           Verification!Reconcile(r)
    PROVE  Verification!VerificationInv'
BY VerificationNoneWorks, VerificationReconciles DEF Verification!Reconcile, Verification!Env,
   Verification!History

LEMMA VerificationRecoverStep ==
    ASSUME Verification!PlanNames, Verification!VerificationInv, NEW r \in VerificationIds,
           Verification!Recover(r)
    PROVE  Verification!VerificationInv'
BY VerificationNoneWorks, VerificationReconciles DEF Verification!Recover, Verification!Env,
   Verification!History

LEMMA VerificationOverdueStep ==
    ASSUME Verification!PlanNames, Verification!VerificationInv, NEW r \in VerificationIds,
           Verification!Overdue(r)
    PROVE  Verification!VerificationInv'
<1>1. PICK v : v = [verification_review[r] EXCEPT !.overdue = TRUE]
  OBVIOUS
<1>2. verification_review \in [VerificationIds -> VerificationRow]
  BY DEF Verification!VerificationInv, Verification!VerificationTypes, VerificationRow
<1>3. v \in VerificationRow /\ v.status = verification_review[r].status
      /\ v.decision = verification_review[r].decision
  BY <1>1, <1>2 DEF VerificationRow
<1>4. verification_review' = [verification_review EXCEPT ![r] = v]
  BY <1>1, <1>2 DEF Verification!Overdue
<1>5. Verification!Status(r) = "pending" /\ task[r].pc \notin Verification!Working
  BY VerificationFacts DEF Verification!Overdue, Verification!TaskKnows
<1>6. UNCHANGED <<steps, results, launches, stops, stale, booting, task, lock, request>>
  BY DEF Verification!Overdue, Verification!Env, Verification!History
<1>7. request' \in [Cancels -> [pc : {"idle", "drain", "settle", "done"},
      r : VerificationIds \cup {""}]]
  BY <1>6 DEF Verification!VerificationInv, Verification!VerificationTypes
<1>8. v.status = Verification!Status(r) /\ v.status # "completed"
  BY <1>3, <1>5 DEF Verification!Status
<1> QED BY <1>3, <1>4, <1>5, <1>6, <1>7, <1>8, VerificationReviewOnly

LEMMA VerificationPrepareStep ==
    ASSUME Verification!PlanNames, Verification!VerificationInv, NEW r \in VerificationIds,
           Verification!Prepare(r)
    PROVE  Verification!VerificationInv'
<1>1. "pending" \in Verification!Statuses /\ Verification!SetStatus(r, "pending")
      /\ Verification!Status(r) = "none"
  BY DEF Verification!Prepare, Verification!Statuses
<1>2. PICK v \in VerificationRow :
      /\ verification_review' = [verification_review EXCEPT ![r] = v] /\ v.status = "pending"
                                   /\ v.decision = verification_review[r].decision
  BY <1>1, VerificationStatusFacts
<1>3. /\ verification_review' \in [VerificationIds -> VerificationRow]
         /\ verification_review'[r] = v
            /\ \A j \in VerificationIds \ {r} : verification_review'[j] = verification_review[j]
  BY <1>2 DEF Verification!VerificationInv, Verification!VerificationTypes, VerificationRow
<1>4. PICK b \in BOOLEAN : stops' = [stops EXCEPT ![r] = b]
  BY DEF Verification!Prepare
<1>5. stops' \in [VerificationIds -> BOOLEAN]
      /\ \A j \in VerificationIds \ {r} : stops'[j] = stops[j]
  BY <1>4 DEF Verification!VerificationInv, Verification!VerificationTypes
<1>6. Verification!VerificationTypes'
  BY <1>3, <1>5 DEF Verification!VerificationInv, Verification!VerificationTypes, VerificationRow,
     Verification!Prepare, Verification!History
<1>7. Verification!RowsTold(r)'
  <2>1. Verification!RowsTold(r)
    BY VerificationFacts
  <2>2. Verification!Status(r)' = "pending"
    BY <1>2, <1>3 DEF Verification!Status
  <2> QED BY <1>1, <1>2, <1>3, <2>1, <2>2 DEF Verification!RowsTold, Verification!Begun,
      Verification!Unsealed, Verification!Prepare, Verification!History
<1>8. Verification!TaskKnows(r)'
  <2>1. task[r].pc \notin Verification!Working /\ Verification!TaskKnows(r)
    BY VerificationNoneWorks, VerificationFacts DEF Verification!Prepare
  <2> QED BY <2>1 DEF Verification!TaskKnows, Verification!Working, Verification!Prepare
<1>9. VerificationOthers(r) /\ VerificationAdvances(r) /\ VerificationHeeds(r)
  BY <1>1, <1>2, <1>3, <1>5 DEF VerificationOthers, VerificationAdvances, VerificationHeeds,
     Verification!Prepare, Verification!History, Verification!Status, Verification!Open
<1> QED BY <1>6, <1>7, <1>8, <1>9, VerificationOneReview DEF Verification!Prepare

-----------------------------------------------------------------------------
(* The cancel *)

LEMMA VerificationDrainRecord ==
    ASSUME NEW s \in VerificationIds
    PROVE  /\ [pc |-> "drain", r |-> s] \in [pc : {"idle", "drain", "settle", "done"},
              r : VerificationIds \cup {""}]
           /\ [pc |-> "drain", r |-> s].pc = "drain" /\ [pc |-> "drain", r |-> s].r = s
OBVIOUS

LEMMA VerificationCancelStep ==
    ASSUME Verification!PlanNames, Verification!VerificationInv, NEW c \in Cancels,
           NEW r \in VerificationIds, Verification!Cancel(c, r)
    PROVE  Verification!VerificationInv'
<1>1. task \in [VerificationIds -> VerificationDecision] /\ task[r] \in VerificationDecision
      /\ Verification!Decides(r) \in BOOLEAN
  BY DEF Verification!VerificationInv, Verification!VerificationTypes, VerificationDecision,
     VerificationVerdicts, Verification!Decides
<1>2. PICK t : t = [task[r] EXCEPT !.cancelled = Verification!Decides(r)]
  OBVIOUS
<1>3. /\ t \in VerificationDecision /\ t.pc = task[r].pc /\ t.cancelled = Verification!Decides(r)
      /\ t.verdict = task[r].verdict /\ t.last = task[r].last
  BY <1>1, <1>2 DEF VerificationDecision
<1>4. task' = [task EXCEPT ![r] = t]
  BY <1>1, <1>2 DEF Verification!Cancel
<1>5. task' \in [VerificationIds -> VerificationDecision] /\ task'[r] = t
      /\ \A j \in VerificationIds \ {r} : task'[j] = task[j]
  BY <1>1, <1>3, <1>4
<1>q. PICK q \in [pc : {"idle", "drain", "settle", "done"}, r : VerificationIds \cup {""}] :
          q = [pc |-> "drain", r |-> r] /\ q.pc = "drain" /\ q.r = r
  BY VerificationDrainRecord
<1>6. /\ request' \in [Cancels -> [pc : {"idle", "drain", "settle", "done"},
         r : VerificationIds \cup {""}]]
      /\ request'[c] = q
      /\ \A d \in Cancels \ {c} : request'[d] = request[d]
  BY <1>q DEF Verification!Cancel, Verification!VerificationInv, Verification!VerificationTypes
<1>7. Verification!RequestHolds(c)'
  <2>1. request'[c].pc = "drain" /\ request'[c].r = r
    BY <1>q, <1>6
  <2>2. Verification!Status(r)' # "none"
    BY DEF Verification!Cancel, Verification!Status
  <2>3. Verification!Decides(r)' => task'[r].cancelled
    BY <1>3, <1>5 DEF Verification!Decides
  <2> QED BY <2>1, <2>2, <2>3 DEF Verification!RequestHolds
<1>8. Verification!VerificationTypes'
  BY <1>5, <1>6 DEF Verification!VerificationInv, Verification!VerificationTypes,
     VerificationDecision, VerificationVerdicts, Verification!Cancel, Verification!Env,
     Verification!History
<1>9. Verification!Complete(r)' <=> Verification!Complete(r)
  BY VerificationCompleteKept DEF Verification!Cancel, Verification!Env
<1>10. Verification!RowsTold(r)' /\ Verification!TaskKnows(r)'
  <2>1. Verification!RowsTold(r) /\ Verification!TaskKnows(r)
    BY VerificationFacts
  <2>2. Verification!RowsTold(r)'
    BY <1>3, <1>5, <1>9, <2>1 DEF Verification!RowsTold, Verification!Begun,
       Verification!Unsealed, Verification!Status, Verification!Cancel, Verification!History
  <2>3. Verification!TaskKnows(r)'
    BY <1>3, <1>5, <1>9, <2>1 DEF Verification!TaskKnows, Verification!Begun,
       Verification!Unsealed, Verification!Status, Verification!Cancel, Verification!History
  <2> QED BY <2>2, <2>3
<1>11. VerificationOthers(r) /\ VerificationAdvances(r)
  BY <1>5 DEF VerificationOthers, VerificationAdvances, Verification!Cancel, Verification!Env,
     Verification!History
<1>12. VerificationHeeds(r)
  BY <1>3, <1>5 DEF VerificationHeeds, Verification!Decides, Verification!Cancel,
     Verification!Open
<1> QED BY <1>6, <1>7, <1>8, <1>10, <1>11, <1>12, VerificationOneReview DEF Verification!Cancel,
    Verification!Env

\* Only one request moves.
LEMMA VerificationRequestOnly ==
    ASSUME Verification!PlanNames, Verification!VerificationInv, NEW c \in Cancels,
           NEW q \in [pc : {"idle", "drain", "settle", "done"}, r : VerificationIds \cup {""}],
           request' = [request EXCEPT ![c] = q], Verification!RequestHolds(c)',
           UNCHANGED <<verification_review, steps, results, launches, stops, stale, booting, task,
                       lock>>
    PROVE  Verification!VerificationInv'
<1>1. Verification!VerificationTypes'
  BY DEF Verification!VerificationInv, Verification!VerificationTypes
<1>2. ASSUME NEW d \in Cancels PROVE Verification!RequestHolds(d)'
  <2>1. CASE d = c
    BY <2>1
  <2>2. CASE d # c
    <3>1. request'[d] = request[d] /\ Verification!RequestHolds(d)
      BY <2>2 DEF Verification!VerificationInv, Verification!VerificationTypes
    <3> QED BY <3>1 DEF Verification!RequestHolds, Verification!Status, Verification!Decides
  <2> QED BY <2>1, <2>2
<1>3. ASSUME NEW r \in VerificationIds PROVE Verification!RowsTold(r)' /\ Verification!TaskKnows(r)'
  <2>1. Verification!RowsTold(r) /\ Verification!TaskKnows(r)
    BY VerificationFacts
  <2>2. Verification!Complete(r)' <=> Verification!Complete(r)
    BY VerificationCompleteKept
  <2> QED BY <2>1, <2>2 DEF Verification!RowsTold, Verification!TaskKnows, Verification!Begun,
      Verification!Unsealed, Verification!Status
<1>4. booting' => \A r \in VerificationIds : ~Verification!Decides(r)'
  BY DEF Verification!VerificationInv, Verification!Decides
<1> QED BY <1>1, <1>2, <1>3, <1>4 DEF Verification!VerificationInv

LEMMA VerificationRequestFacts ==
    ASSUME Verification!VerificationInv, NEW c \in Cancels, request[c].pc # "idle"
    PROVE  /\ request[c] \in [pc : {"idle", "drain", "settle", "done"}, r : VerificationIds]
           /\ Verification!RequestHolds(c) /\ Verification!Status(request[c].r) # "none"
<1>1. /\ request[c] \in [pc : {"idle", "drain", "settle", "done"}, r : VerificationIds \cup {""}]
      /\ Verification!RequestHolds(c)
  BY DEF Verification!VerificationInv, Verification!VerificationTypes
<1>2. request[c].r \in VerificationIds /\ Verification!Status(request[c].r) # "none"
  BY <1>1 DEF Verification!RequestHolds
<1> QED BY <1>1, <1>2

LEMMA VerificationDrainStep ==
    ASSUME Verification!PlanNames, Verification!VerificationInv, NEW c \in Cancels,
           Verification!Drain(c)
    PROVE  Verification!VerificationInv'
<1>1. /\ request[c] \in [pc : {"idle", "drain", "settle", "done"}, r : VerificationIds]
      /\ Verification!Status(request[c].r) # "none"
  BY VerificationRequestFacts DEF Verification!Drain
<1>2. PICK q : q = [request[c] EXCEPT !.pc = "settle"]
  OBVIOUS
<1>3. q \in [pc : {"idle", "drain", "settle", "done"}, r : VerificationIds] /\ q.pc = "settle"
      /\ q.r = request[c].r
  BY <1>1, <1>2
<1>4. request' = [request EXCEPT ![c] = q] /\ request'[c] = q
  BY <1>2 DEF Verification!Drain, Verification!VerificationInv, Verification!VerificationTypes
<1>5. Verification!RequestHolds(c)'
  BY <1>1, <1>3, <1>4 DEF Verification!RequestHolds, Verification!Drain, Verification!Drained,
     Verification!Decides, Verification!Status
<1> QED BY <1>3, <1>4, <1>5, VerificationRequestOnly DEF Verification!Drain, Verification!Env,
    Verification!History

LEMMA VerificationFailCancelStep ==
    ASSUME Verification!PlanNames, Verification!VerificationInv, NEW c \in Cancels,
           Verification!FailCancel(c)
    PROVE  Verification!VerificationInv'
<1>1. Verification!NoRequest \in [pc : {"idle", "drain", "settle", "done"},
      r : VerificationIds \cup {""}] /\ Verification!NoRequest.pc = "idle"
  BY DEF Verification!NoRequest
<1>2. request'[c] = Verification!NoRequest
  BY DEF Verification!FailCancel, Verification!VerificationInv, Verification!VerificationTypes
<1>3. Verification!RequestHolds(c)'
  BY <1>1, <1>2 DEF Verification!RequestHolds
<1> QED BY <1>1, <1>3, VerificationRequestOnly DEF Verification!FailCancel, Verification!Env,
    Verification!History

LEMMA VerificationSettleCancelStep ==
    ASSUME Verification!PlanNames, Verification!VerificationInv, NEW c \in Cancels,
           Verification!SettleCancel(c)
    PROVE  Verification!VerificationInv'
<1>1. request[c].pc = "settle" /\ lock = "free"
  BY DEF Verification!SettleCancel
<1>2. PICK r \in VerificationIds : r = request[c].r /\ Verification!Status(r) # "none"
  BY <1>1, VerificationRequestFacts
<1>3. PICK q : q = [request[c] EXCEPT !.pc = "done"]
  OBVIOUS
<1>4. q \in [pc : {"idle", "drain", "settle", "done"}, r : VerificationIds] /\ q.pc = "done"
      /\ q.r = r
  BY <1>1, <1>2, <1>3, VerificationRequestFacts
<1>5. request' = [request EXCEPT ![c] = q]
  BY <1>3 DEF Verification!SettleCancel, Verification!VerificationInv,
     Verification!VerificationTypes
<1>6. /\ request' \in [Cancels -> [pc : {"idle", "drain", "settle", "done"},
         r : VerificationIds \cup {""}]]
      /\ request'[c] = q /\ \A d \in Cancels \ {c} : request'[d] = request[d]
  BY <1>4, <1>5 DEF Verification!VerificationInv, Verification!VerificationTypes
<1>7. PICK v \in VerificationRow :
          /\ verification_review' = [verification_review EXCEPT ![r] = v]
          /\ \/ v.status = "cancelled" /\ v.decision = "cancel"
                /\ Verification!Status(r) = "pending"
             \/ v.status = Verification!Reconciled(r)
                /\ v.decision = verification_review[r].decision
                   /\ Verification!Current(r) # "pending"
  <2>1. verification_review \in [VerificationIds -> VerificationRow]
    BY DEF Verification!VerificationInv, Verification!VerificationTypes, VerificationRow
  <2>2. CASE Verification!Current(r) = "pending"
    <3>1. PICK v : v = [verification_review[r] EXCEPT !.status = "cancelled", !.decision = "cancel"]
      OBVIOUS
    <3>2. v \in VerificationRow /\ v.status = "cancelled" /\ v.decision = "cancel"
      BY <2>1, <3>1 DEF VerificationRow, Verification!Statuses
    <3>3. verification_review' = [verification_review EXCEPT ![r] = v]
      BY <1>2, <2>1, <2>2, <3>1 DEF Verification!SettleCancel
    <3> QED BY <2>2, <3>2, <3>3, VerificationCurrentFacts
  <2>3. CASE Verification!Current(r) # "pending"
    <3>1. Verification!SetStatus(r, Verification!Reconciled(r))
      BY <1>2, <2>3 DEF Verification!SettleCancel, Verification!SetStatus
    <3> QED BY <2>3, <3>1, VerificationStatusFacts, VerificationReconciledFacts
  <2> QED BY <2>2, <2>3
<1>8. task[r].pc \notin Verification!Working /\ task[r].pc \in Verification!Working \cup {"none",
      "wait", "claim"}
  BY <1>1, VerificationNoneWorks, VerificationFacts DEF VerificationDecision
<1>9. v.status \notin {"none", "pending", "running"}
  BY <1>2, <1>7, VerificationReconciledFacts
<1>10. v.status = "completed" => Verification!Complete(r)
  BY <1>7, VerificationReconciledFacts
<1>11. Verification!RequestHolds(c)'
  <2>1. verification_review'[r] = v
    BY <1>7 DEF Verification!VerificationInv, Verification!VerificationTypes
  <2> QED BY <1>4, <1>6, <1>9, <2>1 DEF Verification!RequestHolds, Verification!Status
<1>12. /\ v.decision = verification_review[r].decision \/ Verification!Status(r) = "pending"
       /\ v.status = Verification!Status(r) \/ (Verification!Status(r) # "none"
          /\ v.status \notin {"none", "pending", "running"})
       /\ \A d \in Cancels : request'[d] = request[d] \/ Verification!RequestHolds(d)'
  BY <1>2, <1>6, <1>7, <1>9, <1>11
<1>13. UNCHANGED <<steps, results, launches, stops, stale, booting, task, lock>>
  BY DEF Verification!SettleCancel, Verification!Env, Verification!History
<1>14. verification_review' = [verification_review EXCEPT ![r] = v]
  BY <1>7
<1> QED BY <1>6, <1>8, <1>10, <1>12, <1>13, <1>14, VerificationReviewOnly

-----------------------------------------------------------------------------
LEMMA VerificationServeStep ==
    ASSUME Verification!PlanNames, Verification!VerificationInv, Verification!EditConfig
           \/ Verification!Serve \/ UNCHANGED Verification!vars
    PROVE  Verification!VerificationInv'
<1>1. UNCHANGED <<verification_review, steps, results, launches, stops, task, lock, request>>
  BY DEF Verification!EditConfig, Verification!Serve, Verification!vars, Verification!History
<1>2. stale' \subseteq VerificationIds /\ (booting' = booting \/ booting' = FALSE)
  BY DEF Verification!EditConfig, Verification!Serve, Verification!vars,
     Verification!VerificationInv, Verification!VerificationTypes
<1>3. Verification!VerificationTypes'
  BY <1>1, <1>2 DEF Verification!VerificationInv, Verification!VerificationTypes
<1>4. ASSUME NEW r \in VerificationIds PROVE Verification!RowsTold(r)' /\ Verification!TaskKnows(r)'
  <2>1. Verification!RowsTold(r) /\ Verification!TaskKnows(r)
    BY VerificationFacts
  <2>2. Verification!Complete(r)' <=> Verification!Complete(r)
    BY <1>1, VerificationCompleteKept
  <2> QED BY <1>1, <2>1, <2>2 DEF Verification!RowsTold, Verification!TaskKnows,
      Verification!Begun, Verification!Unsealed, Verification!Status
<1>5. \A c \in Cancels : Verification!RequestHolds(c)'
  BY <1>1 DEF Verification!VerificationInv, Verification!RequestHolds, Verification!Status,
     Verification!Decides
<1>6. booting' => \A r \in VerificationIds : ~Verification!Decides(r)'
  BY <1>1, <1>2 DEF Verification!VerificationInv, Verification!Decides
<1> QED BY <1>3, <1>4, <1>5, <1>6 DEF Verification!VerificationInv

LEMMA VerificationCrashStep == ASSUME Verification!PlanNames, Verification!VerificationInv,
                                      Verification!Crash PROVE Verification!VerificationInv'
<1>1. UNCHANGED <<verification_review, steps, results, launches, stops, stale>>
      /\ lock' = "free" /\ booting' = TRUE
  BY DEF Verification!Crash, Verification!History
<1>2. \A r \in VerificationIds : task'[r] = Verification!NoTask
  BY DEF Verification!Crash
<1>3. \A c \in Cancels : request'[c] = Verification!NoRequest
  BY DEF Verification!Crash
<1>4. Verification!NoTask \in VerificationDecision /\ Verification!NoTask.pc = "none"
      /\ Verification!NoRequest.pc = "idle"
      /\ Verification!NoRequest \in [pc : {"idle", "drain", "settle", "done"},
         r : VerificationIds \cup {""}]
  BY DEF Verification!NoTask, Verification!NoRequest, VerificationDecision, VerificationVerdicts
<1>5. Verification!VerificationTypes'
  BY <1>1, <1>4 DEF Verification!VerificationInv, Verification!VerificationTypes,
     Verification!Crash, VerificationDecision, VerificationVerdicts
<1>6. ASSUME NEW r \in VerificationIds PROVE Verification!RowsTold(r)'
             /\ Verification!TaskKnows(r)' /\ ~Verification!Decides(r)'
  <2>1. Verification!RowsTold(r)
    BY VerificationFacts
  <2>2. Verification!Complete(r)' <=> Verification!Complete(r)
    BY <1>1, VerificationCompleteKept
  <2>3. task'[r].pc = "none"
    BY <1>2, <1>4
  <2> QED BY <1>1, <2>1, <2>2, <2>3 DEF Verification!RowsTold, Verification!TaskKnows,
      Verification!Begun, Verification!Unsealed, Verification!Status, Verification!Working,
      Verification!Decides
<1>7. \A c \in Cancels : Verification!RequestHolds(c)'
  BY <1>3, <1>4 DEF Verification!RequestHolds
<1> QED BY <1>5, <1>6, <1>7 DEF Verification!VerificationInv

LEMMA VerificationInitInv == ASSUME Verification!PlanNames, Verification!Init
                                    PROVE Verification!VerificationInv
<1>1. Verification!NoTask \in VerificationDecision /\ Verification!NoTask.pc = "none"
      /\ Verification!NoRequest.pc = "idle"
      /\ Verification!NoRequest \in [pc : {"idle", "drain", "settle", "done"},
         r : VerificationIds \cup {""}]
  BY DEF Verification!NoTask, Verification!NoRequest, VerificationDecision, VerificationVerdicts
<1>2. Verification!VerificationTypes
  <2>1. /\ steps \in [VerificationIds -> Seq(Verification!Results \cup {"running"})]
           /\ results \in [VerificationIds -> Seq(Verification!Results)]
        /\ launches \in [VerificationIds -> [1..NCommands -> Nat]]
    <3>1. <<>> \in Seq(Verification!Results \cup {"running"}) /\ <<>> \in Seq(Verification!Results)
      OBVIOUS
    <3> QED BY <3>1 DEF Verification!Init
  <2>2. task \in [VerificationIds -> VerificationDecision]
    BY <1>1 DEF Verification!Init
  <2> QED BY <1>1, <2>1, <2>2 DEF Verification!Init, Verification!VerificationTypes,
      VerificationDecision, VerificationVerdicts, Verification!Statuses
<1>3. ASSUME NEW r \in VerificationIds PROVE Verification!RowsTold(r)
             /\ Verification!TaskKnows(r) /\ ~Verification!Decides(r)
  <2>1. steps[r] = <<>> /\ results[r] = <<>> /\ Verification!Status(r) = "none"
        /\ task[r].pc = "none"
    BY <1>1 DEF Verification!Init, Verification!Status
  <2>2. \A i \in 1..NCommands : launches[r][i] = 0
    BY DEF Verification!Init
  <2> QED BY <2>1, <2>2 DEF Verification!RowsTold, Verification!TaskKnows, Verification!Working,
      Verification!Decides, Verification!PlanNames
<1>4. \A c \in Cancels : Verification!RequestHolds(c)
  BY <1>1 DEF Verification!Init, Verification!RequestHolds
<1> QED BY <1>2, <1>3, <1>4 DEF Verification!VerificationInv

LEMMA VerificationNextStep == ASSUME Verification!PlanNames, Verification!VerificationInv,
                                     [Verification!Next]_(Verification!vars)
                                         PROVE Verification!VerificationInv'
<1>1. ASSUME NEW r \in VerificationIds,
             Verification!Prepare(r) \/ Verification!Expire(r) \/ Verification!Decide(r)
                 \/ Verification!Leave(r) \/ Verification!Take(r) \/ Verification!Refused(r)
                    \/ Verification!Reject(r)
             \/ Verification!Approve(r) \/ Verification!PreparePipeline(r)
                \/ Verification!EndPlan(r) \/ Verification!StalePlan(r)
      PROVE  Verification!VerificationInv'
  BY <1>1, VerificationPrepareStep, VerificationExpireStep, VerificationDecideStep,
     VerificationLeaveStep, VerificationTakeStep, VerificationRefusedStep, VerificationRejectStep,
     VerificationApproveStep, VerificationPreparePipelineStep, VerificationEndPlanStep,
     VerificationStalePlanStep
<1>2. ASSUME NEW r \in VerificationIds,
             Verification!StartStep(r) \/ Verification!Launch(r) \/ Verification!Exit(r)
                 \/ Verification!Break(r) \/ Verification!Kill(r) \/ Verification!SealStep(r)
                    \/ Verification!Outcome(r)
             \/ Verification!Reconcile(r) \/ Verification!Overdue(r) \/ Verification!Recover(r)
      PROVE  Verification!VerificationInv'
  BY <1>2, VerificationStartStepStep, VerificationLaunchStep, VerificationExitStep,
     VerificationBreakStep, VerificationKillStep, VerificationSealStepStep,
     VerificationOutcomeStep, VerificationReconcileStep, VerificationOverdueStep,
     VerificationRecoverStep
<1>3. ASSUME NEW c \in Cancels,
             (\E r \in VerificationIds : Verification!Cancel(c, r)) \/ Verification!Drain(c)
                 \/ Verification!SettleCancel(c) \/ Verification!FailCancel(c)
      PROVE  Verification!VerificationInv'
  BY <1>3, VerificationCancelStep, VerificationDrainStep, VerificationSettleCancelStep,
     VerificationFailCancelStep
<1> QED BY <1>1, <1>2, <1>3, VerificationServeStep, VerificationCrashStep DEF Verification!Next

\* What the rows and the task know gives the evidence.
LEMMA VerificationRowsAreEvidence ==
    ASSUME Verification!PlanNames, Verification!VerificationInv
    PROVE  Verification!TypeOK /\ Verification!EvidenceIsReal
<1>1. ASSUME NEW r \in VerificationIds, NEW i \in 1..NCommands
      PROVE  /\ launches[r][i] <= 1
             /\ launches[r][i] = 1 => i <= Len(steps[r])
                /\ verification_review[r].decision = "approve"
  <2>1. Verification!RowsTold(r) /\ steps[r] \in Seq(Verification!Results \cup {"running"})
    BY VerificationFacts
  <2>2. i <= Len(steps[r]) => steps[r] # <<>>
    BY <2>1
  <2> QED BY <2>1, <2>2 DEF Verification!RowsTold
<1>2. ASSUME NEW r \in VerificationIds, Verification!Status(r) = "completed"
      PROVE  /\ steps[r] = results[r] /\ results[r] # <<>>
             /\ Len(results[r]) < NCommands => stops[r] /\ results[r][Len(results[r])] # "ok"
  <2>1. Verification!Complete(r)
    BY <1>2, VerificationFacts DEF Verification!RowsTold
  <2>2. steps[r] = results[r]
    BY <2>1, VerificationSealedRows DEF Verification!Complete
  <2> QED BY <2>1, <2>2 DEF Verification!Complete
<1>3. ASSUME NEW r \in VerificationIds
      PROVE  /\ Len(steps[r]) <= NCommands /\ Len(results[r]) <= NCommands
             /\ task[r].pc \in {"none", "wait", "claim", "prepare", "start", "launch", "run",
                "seal", "outcome"}
  <2>1. /\ Verification!RowsTold(r) /\ task[r] \in VerificationDecision
        /\ steps[r] \in Seq(Verification!Results \cup {"running"})
           /\ results[r] \in Seq(Verification!Results)
    BY VerificationFacts
  <2>2. Verification!Begun(r) => Len(steps[r]) = Len(results[r]) + 1
    BY <2>1 DEF Verification!Begun
  <2>3. Len(results[r]) <= Len(steps[r])
    BY <2>1, <2>2 DEF Verification!RowsTold, Verification!Unsealed
  <2>4. Len(steps[r]) <= NCommands
    BY <2>1 DEF Verification!RowsTold
  <2>5. Len(results[r]) <= NCommands
    BY <2>1, <2>3, <2>4 DEF Verification!PlanNames
  <2> QED BY <2>1, <2>4, <2>5 DEF VerificationDecision, Verification!Working
<1>4. Verification!TypeOK
  BY <1>3 DEF Verification!TypeOK, Verification!VerificationInv, Verification!VerificationTypes
<1> QED BY <1>1, <1>2, <1>4 DEF Verification!EvidenceIsReal, Verification!IntentBeforeLaunch,
    Verification!CompletedIsProven

LEMMA VerificationAnsweredIsFinal ==
    ASSUME Verification!PlanNames, Verification!VerificationInv, NEW c \in Cancels,
           request[c].pc = "done"
    PROVE  LET r == request[c].r IN
           Verification!Status(r) \notin {"pending", "running"} /\ task[r].pc \in {"none", "wait",
               "claim"}
<1>1. PICK r \in VerificationIds : r = request[c].r
  BY VerificationRequestFacts
<1>2. Verification!RequestHolds(c) /\ Verification!TaskKnows(r) /\ task[r] \in VerificationDecision
  BY VerificationRequestFacts, VerificationFacts
<1> QED BY <1>1, <1>2 DEF Verification!RequestHolds, Verification!TaskKnows, VerificationDecision

LEMMA VerificationFenceHolds ==
    ASSUME Verification!PlanNames, Verification!VerificationInv,
           [Verification!Next]_(Verification!vars), NEW r \in VerificationIds,
               launches'[r] # launches[r]
    PROVE  ~Verification!Fenced(r)
<1>1. Verification!Launch(r)
  <2>1. PICK j \in VerificationIds : Verification!Launch(j)
    BY DEF Verification!Next, Verification!vars, Verification!Prepare, Verification!Expire,
       Verification!Decide, Verification!Leave, Verification!Take, Verification!Refused,
       Verification!Reject, Verification!Approve, Verification!PreparePipeline,
       Verification!EndPlan, Verification!StalePlan, Verification!StartStep, Verification!Exit,
       Verification!Break, Verification!Kill, Verification!SealStep, Verification!Outcome,
       Verification!Reconcile, Verification!Overdue, Verification!Recover, Verification!Cancel,
       Verification!Drain, Verification!SettleCancel, Verification!FailCancel,
       Verification!EditConfig, Verification!Crash, Verification!Serve, Verification!History
  <2>2. j = r
    BY <2>1 DEF Verification!Launch, Verification!VerificationInv, Verification!VerificationTypes
  <2> QED BY <2>1, <2>2
<1>2. task[r].pc = "launch" /\ ~task[r].cancelled
  BY <1>1 DEF Verification!Launch
<1> SUFFICES ASSUME NEW c \in Cancels, request[c].pc \in {"drain", "settle"}, request[c].r = r
             PROVE  FALSE
  BY DEF Verification!Fenced
<1>3. Verification!RequestHolds(c)
  BY DEF Verification!VerificationInv
<1> QED BY <1>2, <1>3 DEF Verification!RequestHolds, Verification!Decides

\* A command runs under a row of its own, and a completed review is one whose every
\* command ran and exited with zero (verification_reviews.py).
THEOREM EvidenceHolds ==
    ASSUME Verification!PlanNames
    PROVE  Verification!Spec => [](Verification!TypeOK /\ Verification!EvidenceIsReal)
<1>1. Verification!VerificationInv => Verification!TypeOK /\ Verification!EvidenceIsReal
  BY VerificationRowsAreEvidence
<1> QED BY <1>1, VerificationInitInv, VerificationNextStep, PTL DEF Verification!Spec

-----------------------------------------------------------------------------
(* PatchApply: any number of files and of writes *)

LEMMA PatchToldFacts ==
    /\ Patch!Told["unchanged"] = {"none"} /\ Patch!Told["applied"] = {"replaced"}
    /\ Patch!Told["preserved"] = {"replaced"} /\ Patch!Told["rolled_back"] = {"restored"}
    /\ Patch!Told["unknown"] = {"replaced", "restored"} /\ Patch!Told["pending"] = {"none"}
BY DEF Patch!Told

LEMMA PatchCallFields ==
    ASSUME NEW c \in Patch!CallStates
    PROVE  /\ c.pc \in Patch!Works \cup {"prepare", "check", "fail", "end", "lost"}
           /\ c.at \in 1..(NFiles + 1) /\ c.seen \in [Patch!Files -> Nat] /\ c.cmp \in Nat
           /\ c.mine \in [Patch!Files -> Nat] /\ c.replaced \in Seq(Patch!Files)
           /\ c.outcome \in [Patch!Files -> Patch!Outcomes] /\ c.temps \in SUBSET Patch!Files
              /\ c.raised \in BOOLEAN
BY DEF Patch!CallStates

\* The worker at another point, its evidence as it was.
LEMMA PatchMovedCall ==
    ASSUME NEW c \in Patch!CallStates, NEW p \in Patch!Works \cup {"prepare", "check", "fail",
           "end", "lost"},
           NEW a \in 1..(NFiles + 1), NEW e \in BOOLEAN, NEW m \in Nat,
               NEW t \in SUBSET Patch!Files,
           NEW s \in [Patch!Files -> Nat], NEW d,
           d = [c EXCEPT !.pc = p, !.at = a, !.raised = e, !.cmp = m, !.temps = t, !.seen = s]
    PROVE  /\ d \in Patch!CallStates /\ d.pc = p /\ d.at = a /\ d.raised = e /\ d.cmp = m
              /\ d.seen = s
           /\ d.mine = c.mine /\ d.replaced = c.replaced /\ d.outcome = c.outcome
BY DEF Patch!CallStates

\* A step of the worker that changes nothing else.
LEMMA PatchWorkerMoves ==
    ASSUME Patch!PatchInv, NEW c \in Patch!CallStates, call' = c,
           UNCHANGED <<file, round, proposal, row, receipt, effect, lost>>,
           Patch!ProposalSound', Patch!RowSound', Patch!LoopSound', Patch!UndoSound',
               Patch!ComparedSound'
    PROVE  Patch!PatchInv'
<1>1. Patch!PatchTypes'
  BY DEF Patch!PatchInv, Patch!PatchTypes
<1>2. Patch!ReceiptTruthful' /\ Patch!PreimageBeforeEffect' /\ Patch!OnlyRacingWriteLost'
  BY DEF Patch!PatchInv, Patch!ReceiptTruthful, Patch!PreimageBeforeEffect,
     Patch!OnlyRacingWriteLost
<1> QED BY <1>1, <1>2 DEF Patch!PatchInv

LEMMA PatchTypes ==
    ASSUME Patch!PatchInv
    PROVE  /\ call \in Patch!CallStates /\ round \in Patch!Rounds
           /\ call.pc \in Patch!Works \cup {"prepare", "check", "fail", "end", "lost"}
           /\ call.at \in 1..(NFiles + 1) /\ call.replaced \in Seq(Patch!Files)
           /\ Patch!Latest \in Nat /\ call.outcome \in [Patch!Files -> Patch!Outcomes]
           /\ call.seen \in [Patch!Files -> Nat] /\ call.mine \in [Patch!Files -> Nat]
              /\ call.cmp \in Nat
           /\ call.raised \in BOOLEAN /\ call.temps \in SUBSET Patch!Files
<1>1. call \in Patch!CallStates /\ round \in Patch!Rounds
  BY DEF Patch!PatchInv, Patch!PatchTypes
<1> QED BY <1>1, PatchCallFields DEF Patch!Latest

\* A file that is met is one of the patch.
LEMMA PatchMet == ASSUME Patch!PatchBound, Patch!PatchInv, call.at <= NFiles
                         PROVE call.at \in Patch!Files
BY PatchTypes DEF Patch!PatchBound, Patch!Files

-----------------------------------------------------------------------------
(* Before any effect *)

LEMMA PatchPrepareFileStep == ASSUME Patch!PatchBound, Patch!PatchInv, Patch!PrepareFile
                                     PROVE Patch!PatchInv'
<1>u. /\ call.pc = "prepare" /\ call.at <= NFiles /\ call.at \in Patch!Files
      /\ UNCHANGED <<file, writes, round, row, receipt, effect, lost>>
  BY PatchMet DEF Patch!PrepareFile, Patch!At
<1>1. PICK i \in Patch!Files : i = call.at
  BY <1>u
<1>2. PICK f : f = [base |-> Patch!Here.data,
                    target |-> IF round = 1 THEN "new" ELSE proposal[1][call.at].base]
  OBVIOUS
<1>3. proposal' = [proposal EXCEPT ![round][i] = f]
  BY <1>1, <1>2 DEF Patch!PrepareFile
<1>4. Patch!Here.data \in Patch!Data
  BY <1>u DEF Patch!Here, Patch!PatchInv, Patch!PatchTypes
<1>5. round = 2 => proposal[1][call.at].base \in Patch!Data
  BY <1>u DEF Patch!PatchInv, Patch!RowSound, Patch!ProposalSound, Patch!Fixed, Patch!Rounds
<1>6. /\ f \in Patch!Changes /\ f.base \in Patch!Data /\ f.target \in Patch!Data
  BY <1>2, <1>4, <1>5, PatchTypes DEF Patch!Changes, Patch!Data, Patch!Rounds
<1>7. proposal \in [Patch!Rounds -> [Patch!Files -> Patch!Changes]] /\ round \in Patch!Rounds
  BY DEF Patch!PatchInv, Patch!PatchTypes
<1>8. proposal' \in [Patch!Rounds -> [Patch!Files -> Patch!Changes]]
  BY <1>3, <1>6, <1>7
<1>9. PICK c : c = [call EXCEPT !.at = call.at + 1]
  OBVIOUS
<1>10. call.at + 1 \in 1..(NFiles + 1)
  BY <1>u, PatchTypes DEF Patch!PatchBound
<1>11. /\ c \in Patch!CallStates /\ c.at = call.at + 1 /\ c.pc = "prepare"
          /\ c.replaced = call.replaced
       /\ c.outcome = call.outcome /\ c.raised = call.raised
  BY <1>u, <1>9, <1>10, PatchTypes DEF Patch!CallStates
<1>12. call' = c
  BY <1>9, PatchTypes DEF Patch!PrepareFile, Patch!CallStates
<1>13. Patch!PatchTypes'
  BY <1>u, <1>8, <1>11, <1>12 DEF Patch!PatchInv, Patch!PatchTypes
<1>14. Patch!ProposalSound'
  <2>1. row[round] = "none"
    BY <1>u DEF Patch!PatchInv, Patch!RowSound, Patch!At
  <2>2. \A r \in Patch!Rounds, j \in Patch!Files : r # round => proposal'[r][j] = proposal[r][j]
    BY <1>3, <1>7
  <2>3. proposal'[round][i] = f /\ \A j \in Patch!Files : j # i
        => proposal'[round][j] = proposal[round][j]
    BY <1>3, <1>7
  <2>4. ASSUME NEW j \in 1..(c.at - 1) PROVE Patch!Fixed(round, j)'
    <3>1. j \in Patch!Files
      BY <1>u, <1>11, PatchTypes DEF Patch!Files, Patch!PatchBound
    <3>2. CASE j = i
      BY <1>u, <1>6, <2>3, <3>2 DEF Patch!Fixed
    <3>3. CASE j # i
      <4>1. j \in 1..(call.at - 1)
        BY <1>1, <1>11, <3>3, PatchTypes
      <4>2. Patch!Fixed(round, j)
        BY <1>u, <4>1 DEF Patch!PatchInv, Patch!ProposalSound, Patch!At
      <4> QED BY <1>u, <2>3, <3>1, <3>3, <4>2 DEF Patch!Fixed
    <3> QED BY <3>2, <3>3
  <2>5. ASSUME NEW r \in Patch!Rounds, row[r] # "none", NEW j \in Patch!Files PROVE Patch!Fixed(r,
               j)'
    BY <2>1, <2>2, <2>5 DEF Patch!PatchInv, Patch!ProposalSound, Patch!Fixed
  <2> QED BY <1>u, <1>12, <2>4, <2>5 DEF Patch!ProposalSound
<1>15. Patch!RowSound'
  BY <1>u, <1>11, <1>12 DEF Patch!PatchInv, Patch!RowSound, Patch!At, Patch!Untried
<1>16. Patch!LoopSound' /\ Patch!UndoSound' /\ Patch!ComparedSound'
  BY <1>u, <1>11, <1>12 DEF Patch!PatchInv, Patch!LoopSound, Patch!UndoSound, Patch!ComparedSound,
     Patch!At, Patch!Latest, Patch!Works, Patch!Undoes
<1>17. Patch!ReceiptTruthful' /\ Patch!PreimageBeforeEffect' /\ Patch!OnlyRacingWriteLost'
  BY <1>u DEF Patch!PatchInv, Patch!ReceiptTruthful, Patch!PreimageBeforeEffect,
     Patch!OnlyRacingWriteLost
<1> QED BY <1>13, <1>14, <1>15, <1>16, <1>17 DEF Patch!PatchInv

\* The worker goes on before any effect, or stops having done nothing.
LEMMA PatchBeforeEffects ==
    ASSUME Patch!PatchInv, NEW c \in Patch!CallStates, call' = c,
           UNCHANGED <<file, round, proposal, row, receipt, effect, lost>>,
           call.pc \in {"prepare", "check"}, c.pc \in {"end", "check", "fail"},
           call.pc = "prepare" => c.pc = "end", call.pc = "check" => c.pc # "end",
           c.replaced = call.replaced, c.outcome = call.outcome
    PROVE  Patch!PatchInv'
<1>1. Patch!ProposalSound'
  BY DEF Patch!PatchInv, Patch!ProposalSound, Patch!Fixed, Patch!At
<1>2. Patch!RowSound'
  BY DEF Patch!PatchInv, Patch!RowSound, Patch!Untried, Patch!At, Patch!Works, Patch!Undoes
<1>3. Patch!LoopSound'
  BY DEF Patch!PatchInv, Patch!LoopSound, Patch!Latest, Patch!At
<1>4. Patch!UndoSound' /\ Patch!ComparedSound'
  BY DEF Patch!UndoSound, Patch!ComparedSound, Patch!Undoes, Patch!At
<1> QED BY <1>1, <1>2, <1>3, <1>4, PatchWorkerMoves

LEMMA PatchPrepareRefusedStep == ASSUME Patch!PatchInv, Patch!PrepareRefused PROVE Patch!PatchInv'
<1>1. PICK c : c = [call EXCEPT !.pc = "end"]
  OBVIOUS
<1>2. c \in Patch!CallStates /\ c.pc = "end" /\ c.replaced = call.replaced
      /\ c.outcome = call.outcome
  BY <1>1, PatchTypes DEF Patch!CallStates
<1>3. /\ call' = c /\ call.pc = "prepare"
      /\ UNCHANGED <<file, round, proposal, row, receipt, effect, lost>>
  BY <1>1 DEF Patch!PrepareRefused, Patch!At
<1> QED BY <1>2, <1>3, PatchBeforeEffects

LEMMA PatchCheckStep == ASSUME Patch!PatchBound, Patch!PatchInv, Patch!Check PROVE Patch!PatchInv'
<1>u. /\ call.pc = "check" /\ call.at <= NFiles /\ call.at \in Patch!Files
      /\ UNCHANGED <<file, round, proposal, row, receipt, effect, lost>>
  BY PatchMet DEF Patch!Check, Patch!At, Patch!Unmoved
<1>1. CASE Patch!Here.data = Patch!Change.base
  <2>1. PICK s : s = [call.seen EXCEPT ![call.at] = Patch!Here.id]
    OBVIOUS
  <2>2. s \in [Patch!Files -> Nat]
    BY <1>u, <2>1, PatchTypes DEF Patch!Here, Patch!PatchInv, Patch!PatchTypes
  <2>3. PICK c : c = [call EXCEPT !.seen = s, !.at = call.at + 1]
    OBVIOUS
  <2>4. call.at + 1 \in 1..(NFiles + 1)
    BY <1>u, PatchTypes DEF Patch!PatchBound
  <2>5. c \in Patch!CallStates /\ c.pc = "check" /\ c.replaced = call.replaced
        /\ c.outcome = call.outcome
    BY <1>u, <2>2, <2>3, <2>4, PatchTypes DEF Patch!CallStates
  <2>6. call' = c
    BY <1>1, <2>1, <2>3, PatchTypes DEF Patch!Check, Patch!CallStates
  <2> QED BY <1>u, <2>5, <2>6, PatchBeforeEffects
<1>2. CASE Patch!Here.data # Patch!Change.base
  <2>1. PICK c : c = [call EXCEPT !.pc = "fail"]
    OBVIOUS
  <2>2. c \in Patch!CallStates /\ c.pc = "fail" /\ c.replaced = call.replaced
        /\ c.outcome = call.outcome
    BY <2>1, PatchTypes DEF Patch!CallStates
  <2>3. call' = c
    BY <1>2, <2>1 DEF Patch!Check
  <2> QED BY <1>u, <2>2, <2>3, PatchBeforeEffects
<1> QED BY <1>1, <1>2

LEMMA PatchReserveStep == ASSUME Patch!PatchBound, Patch!PatchInv, Patch!Reserve
                                 PROVE Patch!PatchInv'
<1>u. /\ call.pc = "prepare" /\ call.at = NFiles + 1 /\ row' = [row EXCEPT ![round] = "running"]
      /\ UNCHANGED <<file, round, proposal, receipt, effect, lost>>
  BY DEF Patch!Reserve, Patch!At, Patch!Unmoved
<1>1. PICK c : c = [call EXCEPT !.pc = "check", !.at = 1]
  OBVIOUS
<1>2. 1 \in 1..(NFiles + 1)
  BY DEF Patch!PatchBound
<1>3. /\ c \in Patch!CallStates /\ c.pc = "check" /\ c.replaced = call.replaced
         /\ c.outcome = call.outcome
  BY <1>1, <1>2, PatchTypes DEF Patch!CallStates, Patch!Works
<1>4. call' = c
  BY <1>1 DEF Patch!Reserve
<1>5. row \in [Patch!Rounds -> {"none", "running", "completed", "failed"}] /\ round \in Patch!Rounds
  BY DEF Patch!PatchInv, Patch!PatchTypes
<1>6. Patch!PatchTypes'
  BY <1>u, <1>3, <1>4, <1>5 DEF Patch!PatchInv, Patch!PatchTypes
<1>7. Patch!ProposalSound'
  <2>1. \A i \in Patch!Files : Patch!Fixed(round, i)
    BY <1>u DEF Patch!PatchInv, Patch!ProposalSound, Patch!At, Patch!Files, Patch!PatchBound
  <2>2. \A r \in Patch!Rounds : row'[r] # "none" => r = round \/ row[r] # "none"
    BY <1>u, <1>5
  <2> QED BY <1>u, <1>3, <1>4, <2>1, <2>2 DEF Patch!PatchInv, Patch!ProposalSound, Patch!At,
      Patch!Fixed
<1>8. Patch!RowSound'
  <2>1. Patch!Untried(round) /\ call.replaced = <<>>
        /\ \A i \in Patch!Files : call.outcome[i] = "unchanged"
    BY <1>u DEF Patch!PatchInv, Patch!RowSound
  <2>2. (round = 1 => row[2] = "none" /\ Patch!Untried(2)) /\ (round = 2 => row[1] # "none")
    BY DEF Patch!PatchInv, Patch!RowSound
  <2>3. row'[round] = "running" /\ \A r \in Patch!Rounds : r # round => row'[r] = row[r]
    BY <1>u, <1>5
  <2> QED BY <1>u, <1>3, <1>4, <1>5, <2>1, <2>2, <2>3 DEF Patch!RowSound, Patch!Untried, Patch!At,
      Patch!Works, Patch!Undoes, Patch!Rounds
<1>9. Patch!LoopSound' /\ Patch!UndoSound' /\ Patch!ComparedSound'
  BY <1>u, <1>3, <1>4 DEF Patch!PatchInv, Patch!LoopSound, Patch!UndoSound, Patch!ComparedSound,
     Patch!At, Patch!Latest, Patch!Works, Patch!Undoes
<1>10. Patch!ReceiptTruthful' /\ Patch!PreimageBeforeEffect' /\ Patch!OnlyRacingWriteLost'
  BY <1>u, <1>5 DEF Patch!PatchInv, Patch!ReceiptTruthful, Patch!PreimageBeforeEffect,
     Patch!OnlyRacingWriteLost
<1> QED BY <1>6, <1>7, <1>8, <1>9, <1>10 DEF Patch!PatchInv

\* An error before the effects: the row fails, nothing was touched.
LEMMA PatchSealFailedStep == ASSUME Patch!PatchInv, Patch!SealFailed PROVE Patch!PatchInv'
<1>u. /\ call.pc = "fail" /\ row' = [row EXCEPT ![round] = "failed"]
      /\ UNCHANGED <<file, round, proposal, receipt, effect, lost>>
  BY DEF Patch!SealFailed, Patch!At, Patch!Unmoved
<1>1. PICK c : c = [call EXCEPT !.pc = "end"]
  OBVIOUS
<1>2. c \in Patch!CallStates /\ c.pc = "end" /\ c.replaced = call.replaced
      /\ c.outcome = call.outcome
  BY <1>1, PatchTypes DEF Patch!CallStates
<1>3. call' = c
  BY <1>1 DEF Patch!SealFailed
<1>4. row \in [Patch!Rounds -> {"none", "running", "completed", "failed"}] /\ round \in Patch!Rounds
  BY DEF Patch!PatchInv, Patch!PatchTypes
<1>5. Patch!PatchTypes'
  BY <1>u, <1>2, <1>3, <1>4 DEF Patch!PatchInv, Patch!PatchTypes
<1>6. row[round] = "running" /\ Patch!Untried(round) /\ (round = 1 => row[2] = "none"
      /\ Patch!Untried(2))
      /\ (round = 2 => row[1] # "none")
  BY <1>u DEF Patch!PatchInv, Patch!RowSound
<1>7. row'[round] = "failed" /\ \A r \in Patch!Rounds : r # round => row'[r] = row[r]
  BY <1>u, <1>4
<1>8. Patch!ProposalSound'
  BY <1>u, <1>2, <1>3, <1>6, <1>7 DEF Patch!PatchInv, Patch!ProposalSound, Patch!At, Patch!Fixed
<1>9. Patch!RowSound'
  BY <1>u, <1>2, <1>3, <1>4, <1>6, <1>7 DEF Patch!RowSound, Patch!Untried, Patch!At, Patch!Works,
     Patch!Undoes, Patch!Rounds
<1>10. Patch!LoopSound'
  BY <1>u, <1>2, <1>3 DEF Patch!PatchInv, Patch!LoopSound, Patch!At, Patch!Latest
<1>11. Patch!UndoSound' /\ Patch!ComparedSound'
  BY <1>2, <1>3 DEF Patch!UndoSound, Patch!ComparedSound, Patch!At, Patch!Undoes
<1>12. Patch!ReceiptTruthful'
  BY <1>u, <1>4, <1>6, <1>7, PatchToldFacts DEF Patch!PatchInv, Patch!ReceiptTruthful,
     Patch!Untried
<1>13. Patch!PreimageBeforeEffect' /\ Patch!OnlyRacingWriteLost'
  BY <1>u, <1>4, <1>7 DEF Patch!PatchInv, Patch!PreimageBeforeEffect, Patch!OnlyRacingWriteLost
<1> QED BY <1>5, <1>8, <1>9, <1>10, <1>11, <1>12, <1>13 DEF Patch!PatchInv

LEMMA PatchRecordIntentStep == ASSUME Patch!PatchBound, Patch!PatchInv, Patch!RecordIntent
                                      PROVE Patch!PatchInv'
<1>u. /\ call.pc = "check" /\ UNCHANGED <<file, round, proposal, row, effect, lost>>
  BY DEF Patch!RecordIntent, Patch!At, Patch!Unmoved
<1>1. CASE call' = [call EXCEPT !.pc = "fail"] /\ UNCHANGED receipt
  <2>1. PICK c : c = [call EXCEPT !.pc = "fail"]
    OBVIOUS
  <2>2. c \in Patch!CallStates /\ c.pc = "fail" /\ c.replaced = call.replaced
        /\ c.outcome = call.outcome
    BY <2>1, PatchTypes DEF Patch!CallStates
  <2> QED BY <1>u, <1>1, <2>1, <2>2, PatchBeforeEffects
<1>2. CASE /\ receipt' = [receipt EXCEPT ![round].status = "prepared"]
           /\ \E pc \in {"temporary", "fail"} : call' = [call EXCEPT !.pc = pc, !.at = 1]
  <2>1. PICK p \in {"temporary", "fail"} : call' = [call EXCEPT !.pc = p, !.at = 1]
    BY <1>2
  <2>2. PICK c : c = [call EXCEPT !.pc = p, !.at = 1]
    OBVIOUS
  <2>3. 1 \in 1..(NFiles + 1) /\ p \in Patch!Works \cup {"prepare", "check", "fail", "end", "lost"}
    BY DEF Patch!PatchBound, Patch!Works
  <2>4. /\ c \in Patch!CallStates /\ c.pc = p /\ c.at = 1 /\ c.replaced = call.replaced
           /\ c.outcome = call.outcome
        /\ call' = c
    BY <2>1, <2>2, <2>3, PatchTypes DEF Patch!CallStates
  <2>5. /\ receipt \in [Patch!Rounds -> [status : {"none", "prepared", "applied", "failed"},
                                   outcome : [Patch!Files -> Patch!Outcomes \cup {"pending"}]]]
        /\ round \in Patch!Rounds
    BY DEF Patch!PatchInv, Patch!PatchTypes
  <2>6. /\ receipt' \in [Patch!Rounds -> [status : {"none", "prepared", "applied", "failed"},
                                    outcome : [Patch!Files -> Patch!Outcomes \cup {"pending"}]]]
        /\ receipt'[round].status = "prepared" /\ receipt'[round].outcome = receipt[round].outcome
        /\ \A r \in Patch!Rounds : r # round => receipt'[r] = receipt[r]
    BY <1>2, <2>5
  <2>7. Patch!PatchTypes'
    BY <1>u, <2>4, <2>6 DEF Patch!PatchInv, Patch!PatchTypes
  <2>8. Patch!ProposalSound'
    BY <1>u, <2>4 DEF Patch!PatchInv, Patch!ProposalSound, Patch!At, Patch!Fixed
  <2>9. row[round] = "running" /\ Patch!Untried(round) /\ (round = 1 => row[2] = "none"
        /\ Patch!Untried(2))
        /\ (round = 2 => row[1] # "none") /\ call.replaced = <<>>
        /\ \A i \in Patch!Files : call.outcome[i] = "unchanged"
    BY <1>u DEF Patch!PatchInv, Patch!RowSound
  <2>10. Patch!RowSound'
    BY <1>u, <2>4, <2>5, <2>6, <2>9 DEF Patch!RowSound, Patch!Untried, Patch!At, Patch!Works,
       Patch!Undoes, Patch!Rounds
  <2>11. Patch!LoopSound' /\ Patch!UndoSound' /\ Patch!ComparedSound'
    BY <1>u, <2>4 DEF Patch!PatchInv, Patch!LoopSound, Patch!UndoSound, Patch!ComparedSound,
       Patch!At, Patch!Latest, Patch!Undoes
  <2>12. Patch!ReceiptTruthful'
    BY <1>u, <2>6, <2>9 DEF Patch!PatchInv, Patch!ReceiptTruthful
  <2>13. Patch!PreimageBeforeEffect' /\ Patch!OnlyRacingWriteLost'
    BY <1>u, <2>5, <2>6 DEF Patch!PatchInv, Patch!PreimageBeforeEffect, Patch!OnlyRacingWriteLost
  <2> QED BY <2>7, <2>8, <2>10, <2>11, <2>12, <2>13 DEF Patch!PatchInv
<1> QED BY <1>1, <1>2 DEF Patch!RecordIntent

-----------------------------------------------------------------------------
(* The loop over the files *)

LEMMA PatchPushed ==
    ASSUME NEW S, NEW s \in Seq(S), NEW e \in S, NEW z, z = <<e>> \o s
    PROVE  z \in Seq(S) /\ Len(z) = Len(s) + 1 /\ z[1] = e /\ \A k \in 1..Len(s) : z[k + 1] = s[k]
OBVIOUS

LEMMA PatchPopped ==
    ASSUME NEW S, NEW s \in Seq(S), s # <<>>
    PROVE  /\ Tail(s) \in Seq(S) /\ Len(s) >= 1 /\ Len(Tail(s)) = Len(s) - 1
           /\ \A k \in 1..(Len(s) - 1) : Tail(s)[k] = s[k + 1]
           /\ Head(s) = s[1] /\ Head(s) \in S
OBVIOUS

LEMMA PatchLatestFacts ==
    ASSUME Patch!PatchBound, Patch!PatchInv
    PROVE  /\ Patch!Latest \in 0..NFiles /\ (Patch!Latest = 0 <=> call.replaced = <<>>)
           /\ \A k \in 1..Patch!Latest : call.replaced[k] = Patch!Latest + 1 - k
<1>1. call.replaced \in Seq(Patch!Files) /\ Patch!Latest \in Nat
  BY PatchTypes
<1>2. \A k \in 1..Patch!Latest : call.replaced[k] = Patch!Latest + 1 - k
  BY DEF Patch!PatchInv, Patch!LoopSound
<1>3. Patch!Latest = 0 <=> call.replaced = <<>>
  BY <1>1 DEF Patch!Latest
<1>4. ASSUME Patch!Latest >= 1 PROVE Patch!Latest <= NFiles
  <2>1. 1 \in 1..Patch!Latest /\ call.replaced[1] \in Patch!Files
    BY <1>1, <1>4 DEF Patch!Latest
  <2>2. call.replaced[1] = Patch!Latest
    BY <1>1, <1>2, <2>1
  <2> QED BY <2>1, <2>2 DEF Patch!Files, Patch!PatchBound
<1> QED BY <1>1, <1>2, <1>3, <1>4 DEF Patch!PatchBound

\* A step between two effects: only where the worker is, and what it has compared.
LEMMA PatchBetweenEffects ==
    ASSUME Patch!PatchInv, NEW c \in Patch!CallStates, call' = c,
           UNCHANGED <<file, round, proposal, row, receipt, effect, lost>>,
           call.pc \in Patch!Works, c.pc \in Patch!Works,
           c.pc # "temporary", c.replaced = call.replaced,
           Patch!LoopSound', Patch!UndoSound', Patch!ComparedSound'
    PROVE  Patch!PatchInv'
<1>1. Patch!ProposalSound'
  BY DEF Patch!PatchInv, Patch!ProposalSound, Patch!Fixed, Patch!At, Patch!Works, Patch!Undoes
<1>2. Patch!RowSound'
  BY DEF Patch!PatchInv, Patch!RowSound, Patch!Untried, Patch!At, Patch!Works, Patch!Undoes
<1> QED BY <1>1, <1>2, PatchWorkerMoves

\* The effects the handler has to undo, when the worker leaves the loop.
LEMMA PatchRaiseStep ==
    ASSUME Patch!PatchBound, Patch!PatchInv, NEW c \in Patch!CallStates, call' = c,
           UNCHANGED <<file, round, proposal, row, receipt, effect, lost>>,
           call.pc \in {"temporary", "compare", "replace", "observe"},
           c.pc = "rollback", c.raised = TRUE, c.replaced = call.replaced,
           \A i \in Patch!Files : c.outcome[i] = call.outcome[i] \/ i <= Patch!Latest
    PROVE  Patch!PatchInv'
<1>1. Patch!Latest' = Patch!Latest /\ Patch!Latest \in 0..NFiles
  BY PatchLatestFacts DEF Patch!Latest
<1>2. Patch!LoopSound'
  BY <1>1, PatchLatestFacts DEF Patch!LoopSound, Patch!At
<1>3. ASSUME NEW i \in Patch!Files
      PROVE  IF i <= Patch!Latest THEN effect[round][i] = "replaced"
                            ELSE effect[round][i] \in Patch!Told[c.outcome[i]]
  <2>1. CASE call.pc = "temporary"
    <3>1. effect[round][i] = "none" /\ call.outcome[i] = "unchanged" /\ Patch!Latest = 0
      BY <2>1 DEF Patch!PatchInv, Patch!RowSound, Patch!Untried, Patch!Latest
    <3> QED BY <3>1, PatchToldFacts DEF Patch!Files
  <2>2. CASE call.pc \in {"compare", "replace", "observe"}
    <3>1. /\ call.outcome[i] = IF i < call.at THEN "applied" ELSE "unchanged"
          /\ effect[round][i] = IF i <= Patch!Latest THEN "replaced" ELSE "none"
      BY <2>2 DEF Patch!PatchInv, Patch!LoopSound
    <3>2. i > Patch!Latest => i >= call.at
      BY <1>1, <2>2, PatchTypes DEF Patch!PatchInv, Patch!LoopSound, Patch!At, Patch!Files
    <3>3. CASE i <= Patch!Latest
      BY <3>1, <3>3
    <3>4. CASE ~(i <= Patch!Latest)
      <4>1. i > Patch!Latest /\ ~(i < call.at)
        BY <1>1, <3>2, <3>4, PatchTypes DEF Patch!Files, Patch!PatchBound
      <4>2. call.outcome[i] = "unchanged" /\ effect[round][i] = "none"
        BY <3>1, <3>4, <4>1
      <4>3. c.outcome[i] = "unchanged"
        BY <3>4, <4>2
      <4> QED BY <3>4, <4>2, <4>3, PatchToldFacts
    <3> QED BY <3>3, <3>4
  <2> QED BY <2>1, <2>2
<1>4. Patch!UndoSound'
  BY <1>1, <1>3 DEF Patch!UndoSound, Patch!Undoes
<1>5. Patch!ComparedSound'
  BY DEF Patch!ComparedSound, Patch!At
<1> QED BY <1>2, <1>4, <1>5, PatchBetweenEffects DEF Patch!Works, Patch!Undoes

LEMMA PatchRaisedFacts ==
    ASSUME Patch!PatchInv, NEW c, c = Patch!Raise(call)
    PROVE  /\ c \in Patch!CallStates /\ c.pc = "rollback" /\ c.raised = TRUE
           /\ c.replaced = call.replaced /\ c.outcome = call.outcome
BY PatchTypes DEF Patch!Raise, Patch!CallStates, Patch!Works, Patch!Undoes

LEMMA PatchLoopRaisesStep == ASSUME Patch!PatchBound, Patch!PatchInv, Patch!LoopRaises
                                    PROVE Patch!PatchInv'
<1>1. PICK c : c = Patch!Raise(call)
  OBVIOUS
<1> QED BY <1>1, PatchRaisedFacts, PatchRaiseStep DEF Patch!LoopRaises, Patch!Unmoved

LEMMA PatchTemporaryStep == ASSUME Patch!PatchBound, Patch!PatchInv, Patch!Temporary
                                   PROVE Patch!PatchInv'
<1>u. /\ call.pc = "temporary" /\ UNCHANGED <<file, round, proposal, row, receipt, effect, lost>>
  BY DEF Patch!Temporary, Patch!At, Patch!Unmoved
<1>1. CASE call' = Patch!Raise(call)
  <2>1. PICK c : c = Patch!Raise(call)
    OBVIOUS
  <2> QED BY <1>u, <1>1, <2>1, PatchRaisedFacts, PatchRaiseStep
<1>2. CASE call' = [call EXCEPT !.temps = {i \in Patch!Files : proposal[round][i].target # "missing"},
                                !.pc = "compare"]
  <2>1. PICK t \in SUBSET Patch!Files : t = {i \in Patch!Files : proposal[round][i].target # "missing"}
    OBVIOUS
  <2>2. PICK c : c = [call EXCEPT !.temps = t, !.pc = "compare"]
    OBVIOUS
  <2>3. /\ c \in Patch!CallStates /\ c.pc = "compare" /\ c.at = call.at
           /\ c.replaced = call.replaced
        /\ c.outcome = call.outcome /\ call' = c
    BY <1>2, <2>1, <2>2, PatchTypes DEF Patch!CallStates, Patch!Works
  <2>4. call.replaced = <<>> /\ \A i \in Patch!Files : call.outcome[i] = "unchanged"
        /\ effect[round][i] = "none"
    BY <1>u DEF Patch!PatchInv, Patch!RowSound, Patch!Untried
  <2>5. call.at = 1
    BY <1>u DEF Patch!PatchInv, Patch!LoopSound, Patch!At
  <2>6. Patch!Latest' = 0 /\ c.replaced = <<>>
    BY <2>3, <2>4 DEF Patch!Latest
  <2>7. Patch!LoopSound'
    BY <1>u, <2>3, <2>4, <2>5, <2>6 DEF Patch!LoopSound, Patch!At, Patch!Files
  <2>8. Patch!UndoSound' /\ Patch!ComparedSound'
    BY <2>3 DEF Patch!UndoSound, Patch!ComparedSound, Patch!Undoes, Patch!At
  <2> QED BY <1>u, <2>3, <2>7, <2>8, PatchBetweenEffects DEF Patch!Works
<1> QED BY <1>1, <1>2 DEF Patch!Temporary

LEMMA PatchCompareStep == ASSUME Patch!PatchBound, Patch!PatchInv, Patch!Compare
                                 PROVE Patch!PatchInv'
<1>u. /\ call.pc = "compare" /\ call.at <= NFiles /\ call.at \in Patch!Files
      /\ UNCHANGED <<file, round, proposal, row, receipt, effect, lost>>
  BY PatchMet DEF Patch!Compare, Patch!At, Patch!Unmoved
<1>1. CASE call' = Patch!Raise(call)
  <2>1. PICK c : c = Patch!Raise(call)
    OBVIOUS
  <2> QED BY <1>u, <1>1, <2>1, PatchRaisedFacts, PatchRaiseStep
<1>2. CASE /\ Patch!Here.data = Patch!Change.base /\ Patch!Here.id = call.seen[call.at]
           /\ call' = [call EXCEPT !.cmp = Patch!Here.id, !.pc = "replace"]
  <2>1. PICK m \in Nat : m = Patch!Here.id
    BY <1>u DEF Patch!Here, Patch!PatchInv, Patch!PatchTypes
  <2>2. PICK c : c = [call EXCEPT !.cmp = m, !.pc = "replace"]
    OBVIOUS
  <2>3. /\ c \in Patch!CallStates /\ c.pc = "replace" /\ c.at = call.at
           /\ c.replaced = call.replaced
        /\ c.outcome = call.outcome /\ c.cmp = m /\ c.seen = call.seen /\ call' = c
    BY <1>2, <2>1, <2>2, PatchTypes DEF Patch!CallStates, Patch!Works
  <2>4. Patch!LoopSound'
    BY <1>u, <2>3 DEF Patch!PatchInv, Patch!LoopSound, Patch!At, Patch!Latest
  <2>5. Patch!UndoSound' /\ Patch!ComparedSound'
    BY <1>2, <2>1, <2>3 DEF Patch!UndoSound, Patch!ComparedSound, Patch!Undoes, Patch!At
  <2> QED BY <1>u, <2>3, <2>4, <2>5, PatchBetweenEffects DEF Patch!Works
<1> QED BY <1>1, <1>2 DEF Patch!Compare

LEMMA PatchAppliedStep == ASSUME Patch!PatchBound, Patch!PatchInv, Patch!Applied
                                 PROVE Patch!PatchInv'
<1>u. /\ call.pc = "compare" /\ call.at = NFiles + 1
      /\ UNCHANGED <<file, round, proposal, row, receipt, effect, lost>>
  BY DEF Patch!Applied, Patch!At, Patch!Unmoved
<1>1. PICK c : c = [call EXCEPT !.pc = "cleanup", !.at = 1]
  OBVIOUS
<1>2. 1 \in 1..(NFiles + 1)
  BY DEF Patch!PatchBound
<1>3. /\ c \in Patch!CallStates /\ c.pc = "cleanup" /\ c.replaced = call.replaced
      /\ c.outcome = call.outcome /\ call' = c
  BY <1>1, <1>2, PatchTypes DEF Patch!Applied, Patch!CallStates, Patch!Works
<1>4. \A i \in Patch!Files : call.outcome[i] = "applied" /\ effect[round][i] = "replaced"
  BY <1>u DEF Patch!PatchInv, Patch!LoopSound, Patch!Files, Patch!PatchBound
<1>5. Patch!LoopSound'
  BY <1>3 DEF Patch!PatchInv, Patch!LoopSound, Patch!At, Patch!Latest
<1>6. Patch!UndoSound'
  BY <1>u, <1>3, <1>4, PatchToldFacts DEF Patch!UndoSound, Patch!AllApplied, Patch!Undoes
<1>7. Patch!ComparedSound'
  BY <1>3 DEF Patch!ComparedSound, Patch!At
<1> QED BY <1>u, <1>3, <1>5, <1>6, <1>7, PatchBetweenEffects DEF Patch!Works

LEMMA PatchObserveStep == ASSUME Patch!PatchBound, Patch!PatchInv, Patch!Observe
                                 PROVE Patch!PatchInv'
<1>u. /\ call.pc = "observe" /\ call.at <= NFiles /\ call.at \in Patch!Files
      /\ UNCHANGED <<file, round, proposal, row, receipt, effect, lost>>
  BY PatchMet DEF Patch!PatchInv, Patch!LoopSound, Patch!Observe, Patch!At, Patch!Unmoved
<1>1. Patch!Latest = call.at /\ \A i \in Patch!Files :
              /\ call.outcome[i] = IF i < call.at THEN "applied" ELSE "unchanged"
              /\ effect[round][i] = IF i <= Patch!Latest THEN "replaced" ELSE "none"
  BY <1>u DEF Patch!PatchInv, Patch!LoopSound, Patch!At
<1>2. CASE call' = [call EXCEPT !.mine[call.at] = Patch!Here.id, !.outcome[call.at] = "applied",
                                !.at = @ + 1, !.pc = "compare"]
  <2>1. PICK m \in [Patch!Files -> Nat] : m = [call.mine EXCEPT ![call.at] = Patch!Here.id]
    BY <1>u, PatchTypes DEF Patch!Here, Patch!PatchInv, Patch!PatchTypes
  <2>2. PICK o \in [Patch!Files -> Patch!Outcomes] : o = [call.outcome EXCEPT ![call.at] = "applied"]
    BY <1>u, PatchTypes DEF Patch!Outcomes
  <2>3. PICK a \in 1..(NFiles + 1) : a = call.at + 1
    BY <1>u, PatchTypes DEF Patch!PatchBound
  <2>4. PICK c : c = [call EXCEPT !.mine = m, !.outcome = o, !.at = a, !.pc = "compare"]
    OBVIOUS
  <2>5. /\ c \in Patch!CallStates /\ c.pc = "compare" /\ c.at = a /\ c.replaced = call.replaced
        /\ c.outcome = o
    BY <2>4, PatchTypes DEF Patch!CallStates, Patch!Works
  <2>6. call' = c
    BY <1>2, <2>1, <2>2, <2>3, <2>4, PatchTypes DEF Patch!CallStates
  <2>7. Patch!Latest' = Patch!Latest
    BY <2>5, <2>6 DEF Patch!Latest
  <2>8. \A i \in Patch!Files : c.outcome[i] = IF i < a THEN "applied" ELSE "unchanged"
    <3>1. \A i \in Patch!Files : o[i] = IF i = call.at THEN "applied" ELSE call.outcome[i]
      BY <1>u, <2>2, PatchTypes
    <3>2. \A i \in Patch!Files : i < a <=> (i < call.at \/ i = call.at)
      <4>1. a = call.at + 1 /\ call.at \in Nat /\ \A i \in Patch!Files : i \in Nat
        BY <2>3, PatchTypes DEF Patch!Files, Patch!PatchBound
      <4>2. \A i \in Nat : i < call.at + 1 <=> (i < call.at \/ i = call.at)
        BY <4>1
      <4> QED BY <4>1, <4>2
    <3> QED BY <1>1, <2>5, <3>1, <3>2
  <2>9. Patch!LoopSound'
    BY <1>u, <1>1, <2>3, <2>5, <2>6, <2>7, <2>8, PatchLatestFacts DEF Patch!LoopSound, Patch!At,
       Patch!PatchBound
  <2>10. Patch!UndoSound' /\ Patch!ComparedSound'
    BY <2>5, <2>6 DEF Patch!UndoSound, Patch!ComparedSound, Patch!Undoes, Patch!At
  <2> QED BY <1>u, <2>5, <2>6, <2>9, <2>10, PatchBetweenEffects DEF Patch!Works
<1>3. CASE call' = Patch!Raise([call EXCEPT !.outcome[call.at] = "preserved"])
  <2>1. PICK o \in [Patch!Files -> Patch!Outcomes] : o = [call.outcome EXCEPT ![call.at] = "preserved"]
    BY <1>u, PatchTypes DEF Patch!Outcomes
  <2>2. PICK c : c = [call EXCEPT !.outcome = o, !.raised = TRUE, !.pc = "rollback"]
    OBVIOUS
  <2>3. /\ c \in Patch!CallStates /\ c.pc = "rollback" /\ c.raised = TRUE
           /\ c.replaced = call.replaced
        /\ c.outcome = o
    BY <2>2, PatchTypes DEF Patch!CallStates, Patch!Works, Patch!Undoes
  <2>4. call' = c
    BY <1>3, <2>1, <2>2, PatchTypes DEF Patch!CallStates, Patch!Raise
  <2>5. \A i \in Patch!Files : c.outcome[i] = call.outcome[i] \/ i <= Patch!Latest
    BY <1>u, <1>1, <2>1, <2>3, PatchTypes DEF Patch!Files, Patch!PatchBound
  <2> QED BY <1>u, <2>3, <2>4, <2>5, PatchRaiseStep
<1> QED BY <1>2, <1>3 DEF Patch!Observe

-----------------------------------------------------------------------------
(* The worker's own writes *)

LEMMA PatchPlaced ==
    ASSUME Patch!PatchInv, call.at \in Patch!Files, NEW d \in Patch!Data,
           file' = [file EXCEPT ![call.at] = [data |-> d, id |-> @.id + 1, by |-> "tool"]]
    PROVE  file' \in [Patch!Files -> [data : Patch!Data, id : Nat, by : {"user", "tool"}]]
<1>1. file \in [Patch!Files -> [data : Patch!Data, id : Nat, by : {"user", "tool"}]]
  BY DEF Patch!PatchInv, Patch!PatchTypes
<1>2. PICK n \in Nat : n = file[call.at].id + 1
  BY <1>1
<1>3. file' = [file EXCEPT ![call.at] = [data |-> d, id |-> n, by |-> "tool"]]
  BY <1>2
<1> QED BY <1>1, <1>3

\* The effect on one file of this round; the rest is as it was.
LEMMA PatchEffected ==
    ASSUME Patch!PatchInv, call.at \in Patch!Files, NEW e \in {"replaced", "restored"},
           effect' = [effect EXCEPT ![round][call.at] = e]
    PROVE  /\ effect' \in [Patch!Rounds -> [Patch!Files -> {"none", "replaced", "restored"}]]
           /\ \A r \in Patch!Rounds : r # round => effect'[r] = effect[r]
           /\ \A i \in Patch!Files : effect'[round][i] = IF i = call.at THEN e ELSE effect[round][i]
BY DEF Patch!PatchInv, Patch!PatchTypes

\* A write of the worker, where the row runs under a receipt of the intent.
LEMMA PatchEffectMoves ==
    ASSUME Patch!PatchInv, call.at \in Patch!Files, NEW e \in {"replaced", "restored"},
           effect' = [effect EXCEPT ![round][call.at] = e],
           NEW d \in Patch!Data,
           file' = [file EXCEPT ![call.at] = [data |-> d, id |-> @.id + 1, by |-> "tool"]],
           NEW c \in Patch!CallStates, call' = c, UNCHANGED <<round, proposal, row, receipt>>,
           \A l \in lost' : l \in lost \/ l.how \in {"window", "twin"},
           call.pc \in Patch!Works \ {"temporary"}, c.pc \in Patch!Works \ {"temporary"},
           Patch!LoopSound', Patch!UndoSound', Patch!ComparedSound'
    PROVE  Patch!PatchInv'
<1>1. Patch!PatchTypes'
  BY PatchPlaced, PatchEffected DEF Patch!PatchInv, Patch!PatchTypes
<1>2. Patch!ProposalSound'
  BY DEF Patch!PatchInv, Patch!ProposalSound, Patch!Fixed, Patch!At, Patch!Works, Patch!Undoes
<1>3. row[round] = "running" /\ receipt[round].status = "prepared"
      /\ (round = 1 => row[2] = "none" /\ Patch!Untried(2)) /\ (round = 2 => row[1] # "none")
  BY DEF Patch!PatchInv, Patch!RowSound
<1>4. \A r \in Patch!Rounds : r # round => effect'[r] = effect[r]
  BY PatchEffected
<1>5. Patch!RowSound'
  BY <1>3, <1>4 DEF Patch!RowSound, Patch!Untried, Patch!At, Patch!Works, Patch!Undoes,
     Patch!Rounds
<1>6. Patch!ReceiptTruthful'
  <2>1. ASSUME NEW r \in Patch!Rounds, row[r] \in {"completed", "failed"}
               PROVE effect'[r] = effect[r]
    BY <1>3, <1>4, <2>1
  <2> QED BY <2>1 DEF Patch!PatchInv, Patch!ReceiptTruthful
<1>7. Patch!PreimageBeforeEffect'
  <2>1. ASSUME NEW r \in Patch!Rounds, NEW i \in Patch!Files, effect'[r][i] # "none"
        PROVE  receipt[r].status # "none" /\ row[r] # "none"
    <3>1. CASE r = round
      BY <1>3, <3>1
    <3>2. CASE r # round
      BY <1>4, <2>1, <3>2 DEF Patch!PatchInv, Patch!PreimageBeforeEffect
    <3> QED BY <3>1, <3>2
  <2> QED BY <2>1 DEF Patch!PreimageBeforeEffect
<1>8. Patch!OnlyRacingWriteLost'
  BY DEF Patch!PatchInv, Patch!OnlyRacingWriteLost
<1> QED BY <1>1, <1>2, <1>5, <1>6, <1>7, <1>8 DEF Patch!PatchInv

LEMMA PatchFixedNow == ASSUME Patch!PatchInv, call.pc \in Patch!Works, call.at \in Patch!Files
                  PROVE  Patch!Change.base \in Patch!Data /\ Patch!Change.target \in Patch!Data
BY PatchTypes DEF Patch!PatchInv, Patch!RowSound, Patch!ProposalSound, Patch!Fixed, Patch!Change

LEMMA PatchReplaceStep == ASSUME Patch!PatchBound, Patch!PatchInv, Patch!Replace
                                 PROVE Patch!PatchInv'
<1>u. /\ call.pc = "replace" /\ call.at <= NFiles /\ call.at \in Patch!Files
      /\ UNCHANGED <<round, proposal, row, receipt>>
      /\ Patch!Write(Patch!Change.target)
         /\ effect' = [effect EXCEPT ![round][call.at] = "replaced"]
      /\ lost' = lost \cup Patch!Destroys(call.seen[call.at])
  BY PatchMet DEF Patch!PatchInv, Patch!LoopSound, Patch!Replace, Patch!At, Patch!Unmoved
<1>1. Patch!Latest = call.at - 1 /\ \A i \in Patch!Files :
              /\ call.outcome[i] = IF i < call.at THEN "applied" ELSE "unchanged"
              /\ effect[round][i] = IF i <= Patch!Latest THEN "replaced" ELSE "none"
  BY <1>u DEF Patch!PatchInv, Patch!LoopSound, Patch!At
<1>2. PICK z \in Seq(Patch!Files) :
          /\ z = <<call.at>> \o call.replaced /\ Len(z) = Patch!Latest + 1 /\ z[1] = call.at
          /\ \A k \in 1..Patch!Latest : z[k + 1] = call.replaced[k]
  <2>1. call.replaced \in Seq(Patch!Files) /\ Patch!Latest = Len(call.replaced)
        /\ call.at \in Patch!Files
    BY <1>u, PatchTypes DEF Patch!Latest
  <2>2. PICK z : z = <<call.at>> \o call.replaced
    OBVIOUS
  <2>3. z \in Seq(Patch!Files) /\ Len(z) = Patch!Latest + 1 /\ z[1] = call.at
        /\ \A k \in 1..Patch!Latest : z[k + 1] = call.replaced[k]
    BY <2>1, <2>2, PatchPushed
  <2> QED BY <2>2, <2>3
<1>3. PICK t \in SUBSET Patch!Files : t = call.temps \ {call.at}
  BY PatchTypes
<1>4. PICK c : c = [call EXCEPT !.pc = "observe", !.replaced = z, !.temps = t]
  OBVIOUS
<1>5. /\ c \in Patch!CallStates /\ c.pc = "observe" /\ c.at = call.at /\ c.replaced = z
      /\ c.outcome = call.outcome
  BY <1>4, PatchTypes DEF Patch!CallStates, Patch!Works
<1>6. call' = c
  BY <1>2, <1>3, <1>4, PatchTypes DEF Patch!Replace, Patch!CallStates
<1>7. Patch!Latest' = call.at /\ Patch!Latest' = Patch!Latest + 1
  BY <1>1, <1>2, <1>5, <1>6, PatchTypes DEF Patch!Latest
<1>8. \A k \in 1..Patch!Latest' : z[k] = Patch!Latest' + 1 - k
  <2>1. ASSUME NEW k \in 1..(Patch!Latest + 1) PROVE z[k] = Patch!Latest + 2 - k
    <3>1. CASE k = 1
      BY <1>1, <1>2, <3>1, PatchTypes
    <3>2. CASE k # 1
      <4>1. k - 1 \in 1..Patch!Latest /\ (k - 1) + 1 = k
        BY <3>2, PatchTypes
      <4>2. z[k] = call.replaced[k - 1] /\ call.replaced[k - 1] = Patch!Latest + 1 - (k - 1)
        BY <1>2, <4>1, PatchLatestFacts
      <4> QED BY <4>2, PatchTypes
    <3> QED BY <3>1, <3>2
  <2> QED BY <1>7, <2>1, PatchTypes
<1>9. \A i \in Patch!Files : effect'[round][i] = IF i <= Patch!Latest' THEN "replaced" ELSE "none"
  <2>1. \A i \in Patch!Files : effect'[round][i] = IF i = call.at THEN "replaced" ELSE effect[round][i]
    BY <1>u, PatchEffected
  <2>2. \A i \in Patch!Files : i <= Patch!Latest' <=> (i <= Patch!Latest \/ i = call.at)
    BY <1>u, <1>1, <1>7, PatchTypes DEF Patch!Files, Patch!PatchBound
  <2> QED BY <1>1, <2>1, <2>2
<1>10. Patch!LoopSound'
  BY <1>u, <1>1, <1>5, <1>6, <1>7, <1>8, <1>9 DEF Patch!LoopSound, Patch!At
<1>11. Patch!UndoSound' /\ Patch!ComparedSound'
  BY <1>5, <1>6 DEF Patch!UndoSound, Patch!ComparedSound, Patch!Undoes, Patch!At
<1>12. \A l \in Patch!Destroys(call.seen[call.at]) : l.how \in {"window", "twin"}
  <2>1. call.cmp = call.seen[call.at]
    BY <1>u DEF Patch!PatchInv, Patch!ComparedSound, Patch!At
  <2>2. CASE Patch!Here.id = call.cmp
    BY <1>u, <2>1, <2>2 DEF Patch!Destroys, Patch!At
  <2>3. CASE Patch!Here.id # call.cmp
    BY <2>3 DEF Patch!Destroys
  <2> QED BY <2>2, <2>3
<1>13. PICK d \in Patch!Data : d = Patch!Change.target
  BY <1>u, PatchFixedNow DEF Patch!Works
<1> QED BY <1>u, <1>5, <1>6, <1>10, <1>11, <1>12, <1>13, PatchEffectMoves DEF Patch!Write,
    Patch!Works

-----------------------------------------------------------------------------
(* The handler *)

\* One file less is left to undo, its outcome told.
LEMMA PatchUndoneStep ==
    ASSUME Patch!PatchBound, Patch!PatchInv, call.pc \in {"rollback_compare", "restore"},
           NEW o \in {"preserved", "rolled_back", "unknown"}, NEW c, c = Patch!Undone(o), call' = c,
           UNCHANGED <<round, proposal>>,
           \A i \in Patch!Files : i # call.at => effect'[round][i] = effect[round][i],
           effect'[round][call.at] \in Patch!Told[o]
    PROVE  /\ c \in Patch!CallStates /\ c.pc = "rollback" /\ c.replaced = Tail(call.replaced)
           /\ Patch!LoopSound' /\ Patch!UndoSound' /\ Patch!ComparedSound'
<1>1. /\ Patch!Latest >= 1 /\ call.at = Patch!Latest /\ call.raised /\ Patch!Latest \in 0..NFiles
      /\ \A i \in Patch!Files : IF i <= Patch!Latest THEN effect[round][i] = "replaced"
                                         ELSE effect[round][i] \in Patch!Told[call.outcome[i]]
  BY PatchLatestFacts DEF Patch!PatchInv, Patch!UndoSound, Patch!Undoes
<1>2. call.at \in Patch!Files
  BY <1>1 DEF Patch!Files, Patch!PatchBound
<1>3. call.replaced # <<>>
  BY <1>1 DEF Patch!Latest
<1>4. PICK z \in Seq(Patch!Files) : /\ z = Tail(call.replaced) /\ Len(z) = Patch!Latest - 1
                                    /\ \A k \in 1..(Patch!Latest - 1) : z[k] = call.replaced[k + 1]
  <2>1. call.replaced \in Seq(Patch!Files) /\ Patch!Latest = Len(call.replaced)
    BY PatchTypes DEF Patch!Latest
  <2>2. /\ Tail(call.replaced) \in Seq(Patch!Files) /\ Len(Tail(call.replaced)) = Patch!Latest - 1
        /\ \A k \in 1..(Patch!Latest - 1) : Tail(call.replaced)[k] = call.replaced[k + 1]
    BY <1>3, <2>1, PatchPopped
  <2> QED BY <2>2
<1>5. PICK u \in [Patch!Files -> Patch!Outcomes] : u = [call.outcome EXCEPT ![call.at] = o]
  BY <1>2, PatchTypes DEF Patch!Outcomes
<1>6. c = [call EXCEPT !.pc = "rollback", !.outcome = u, !.replaced = z]
  BY <1>4, <1>5, PatchTypes DEF Patch!Undone, Patch!CallStates
<1>7. /\ c \in Patch!CallStates /\ c.pc = "rollback" /\ c.replaced = z /\ c.outcome = u
      /\ c.raised = call.raised
  BY <1>6, PatchTypes DEF Patch!CallStates, Patch!Works, Patch!Undoes
<1>8. Patch!Latest' = Patch!Latest - 1
  BY <1>4, <1>7 DEF Patch!Latest
<1>9. Patch!LoopSound'
  <2>1. ASSUME NEW k \in 1..(Patch!Latest - 1) PROVE z[k] = Patch!Latest - k
    <3>1. k + 1 \in 1..Patch!Latest
      BY <1>1
    <3>2. call.replaced[k + 1] = Patch!Latest + 1 - (k + 1)
      BY <3>1, PatchLatestFacts
    <3> QED BY <1>1, <1>4, <3>2
  <2>2. \A k \in 1..Patch!Latest' : z[k] = Patch!Latest' + 1 - k
    BY <1>1, <1>8, <2>1
  <2> QED BY <1>7, <2>2 DEF Patch!LoopSound, Patch!At
<1>10. Patch!UndoSound'
  <2>1. ASSUME NEW i \in Patch!Files
        PROVE  IF i <= Patch!Latest' THEN effect'[round][i] = "replaced"
                               ELSE effect'[round][i] \in Patch!Told[u[i]]
    <3>1. CASE i = call.at
      <4>1. ~(i <= Patch!Latest') /\ u[i] = o
        BY <1>1, <1>2, <1>5, <1>8, <3>1, PatchTypes
      <4> QED BY <3>1, <4>1
    <3>2. CASE i # call.at
      <4>1. (i <= Patch!Latest' <=> i <= Patch!Latest) /\ u[i] = call.outcome[i]
        BY <1>1, <1>5, <1>8, <3>2, PatchTypes DEF Patch!Files, Patch!PatchBound
      <4> QED BY <1>1, <3>2, <4>1
    <3> QED BY <3>1, <3>2
  <2> QED BY <1>1, <1>7, <2>1 DEF Patch!UndoSound, Patch!Undoes
<1>11. Patch!ComparedSound'
  BY <1>7 DEF Patch!ComparedSound, Patch!At
<1> QED BY <1>4, <1>7, <1>9, <1>10, <1>11

\* An undo that changes no file.
LEMMA PatchUndoneAlone ==
    ASSUME Patch!PatchBound, Patch!PatchInv, call.pc \in {"rollback_compare", "restore"},
           NEW o \in {"preserved", "unknown"}, call' = Patch!Undone(o),
           UNCHANGED <<file, round, proposal, row, receipt, effect, lost>>
    PROVE  Patch!PatchInv'
<1>1. call.at \in Patch!Files /\ effect[round][call.at] = "replaced"
  <2>1. /\ Patch!Latest >= 1 /\ call.at = Patch!Latest /\ Patch!Latest \in 0..NFiles
        /\ \A i \in Patch!Files : i <= Patch!Latest => effect[round][i] = "replaced"
    BY PatchLatestFacts DEF Patch!PatchInv, Patch!UndoSound, Patch!Undoes
  <2> QED BY <2>1 DEF Patch!Files, Patch!PatchBound
<1>2. PICK c : c = Patch!Undone(o)
  OBVIOUS
<1>3. /\ c \in Patch!CallStates /\ c.pc = "rollback" /\ c.replaced = Tail(call.replaced)
      /\ Patch!LoopSound' /\ Patch!UndoSound' /\ Patch!ComparedSound'
  BY <1>1, <1>2, PatchUndoneStep, PatchToldFacts
<1>4. Patch!ProposalSound'
  BY <1>2, <1>3 DEF Patch!PatchInv, Patch!ProposalSound, Patch!Fixed, Patch!At
<1>5. Patch!RowSound'
  BY <1>2, <1>3 DEF Patch!PatchInv, Patch!RowSound, Patch!Untried, Patch!At, Patch!Works,
     Patch!Undoes
<1> QED BY <1>2, <1>3, <1>4, <1>5, PatchWorkerMoves

LEMMA PatchRollbackRaisesStep == ASSUME Patch!PatchBound, Patch!PatchInv,
    Patch!RollbackRaises PROVE Patch!PatchInv'
BY PatchUndoneAlone DEF Patch!RollbackRaises, Patch!Unmoved

LEMMA PatchRollbackNextStep == ASSUME Patch!PatchBound, Patch!PatchInv, Patch!RollbackNext
                                      PROVE Patch!PatchInv'
<1>u. /\ call.pc = "rollback" /\ UNCHANGED <<file, round, proposal, row, receipt, effect, lost>>
  BY DEF Patch!RollbackNext, Patch!At, Patch!Unmoved
<1>0. /\ call.raised /\ Patch!Latest \in 0..NFiles
      /\ \A i \in Patch!Files : IF i <= Patch!Latest THEN effect[round][i] = "replaced"
                                         ELSE effect[round][i] \in Patch!Told[call.outcome[i]]
  BY <1>u, PatchLatestFacts DEF Patch!PatchInv, Patch!UndoSound, Patch!Undoes
<1>1. CASE call.replaced = <<>>
  <2>1. PICK c : c = [call EXCEPT !.pc = "cleanup", !.at = 1]
    OBVIOUS
  <2>2. 1 \in 1..(NFiles + 1)
    BY DEF Patch!PatchBound
  <2>3. /\ c \in Patch!CallStates /\ c.pc = "cleanup" /\ c.replaced = call.replaced
        /\ c.outcome = call.outcome /\ c.raised = call.raised /\ call' = c
    BY <1>1, <2>1, <2>2, PatchTypes DEF Patch!RollbackNext, Patch!CallStates, Patch!Works
  <2>4. \A i \in Patch!Files : effect[round][i] \in Patch!Told[call.outcome[i]]
    <3>1. Patch!Latest = 0
      BY <1>1, PatchLatestFacts
    <3> QED BY <1>0, <3>1 DEF Patch!Files, Patch!PatchBound
  <2>5. Patch!LoopSound'
    BY <2>3 DEF Patch!PatchInv, Patch!LoopSound, Patch!At, Patch!Latest
  <2>6. Patch!UndoSound'
    BY <1>u, <1>0, <2>3, <2>4 DEF Patch!UndoSound, Patch!Undoes
  <2>7. Patch!ComparedSound'
    BY <2>3 DEF Patch!ComparedSound, Patch!At
  <2> QED BY <1>u, <2>3, <2>5, <2>6, <2>7, PatchBetweenEffects DEF Patch!Works, Patch!Undoes
<1>2. CASE call.replaced # <<>>
  <2>1. Patch!Undoing = Patch!Latest /\ Patch!Latest >= 1
    <3>1. Patch!Undoing = call.replaced[1] /\ Patch!Latest >= 1
      BY <1>2, PatchPopped, PatchTypes DEF Patch!Undoing, Patch!Latest
    <3> QED BY <1>0, <3>1, PatchLatestFacts
  <2>2. PICK a \in 1..(NFiles + 1) : a = Patch!Undoing
    BY <1>0, <2>1 DEF Patch!PatchBound
  <2>3. PICK c : c = [call EXCEPT !.pc = "rollback_compare", !.at = a]
    OBVIOUS
  <2>4. /\ c \in Patch!CallStates /\ c.pc = "rollback_compare" /\ c.at = a
           /\ c.replaced = call.replaced
        /\ c.outcome = call.outcome /\ c.raised = call.raised /\ call' = c
    BY <1>2, <2>2, <2>3, PatchTypes DEF Patch!RollbackNext, Patch!CallStates, Patch!Works,
       Patch!Undoes
  <2>5. Patch!LoopSound' /\ Patch!Latest' = Patch!Latest
    BY <2>4 DEF Patch!PatchInv, Patch!LoopSound, Patch!At, Patch!Latest
  <2>6. Patch!UndoSound'
    BY <1>u, <1>0, <2>1, <2>2, <2>4, <2>5 DEF Patch!UndoSound, Patch!Undoes
  <2>7. Patch!ComparedSound'
    BY <2>4 DEF Patch!ComparedSound, Patch!At
  <2> QED BY <1>u, <2>4, <2>5, <2>6, <2>7, PatchBetweenEffects DEF Patch!Works, Patch!Undoes
<1> QED BY <1>1, <1>2

LEMMA PatchRollbackCompareStep == ASSUME Patch!PatchBound, Patch!PatchInv,
    Patch!RollbackCompare PROVE Patch!PatchInv'
<1>u. /\ call.pc = "rollback_compare" /\ UNCHANGED <<file, round, proposal, row, receipt, effect,
                                                     lost>>
  BY DEF Patch!RollbackCompare, Patch!At, Patch!Unmoved
<1>1. CASE ~Patch!StillMine
  BY <1>u, <1>1, PatchUndoneAlone DEF Patch!RollbackCompare
<1>2. CASE Patch!StillMine
  <2>0. /\ call.raised /\ Patch!Latest >= 1 /\ call.at = Patch!Latest /\ Patch!Latest \in 0..NFiles
        /\ \A i \in Patch!Files : IF i <= Patch!Latest THEN effect[round][i] = "replaced"
                                           ELSE effect[round][i] \in Patch!Told[call.outcome[i]]
    BY <1>u, PatchLatestFacts DEF Patch!PatchInv, Patch!UndoSound, Patch!Undoes
  <2>1. call.at \in Patch!Files
    BY <2>0 DEF Patch!Files, Patch!PatchBound
  <2>2. PICK m \in Nat : m = Patch!Here.id
    BY <2>1 DEF Patch!Here, Patch!PatchInv, Patch!PatchTypes
  <2>3. PICK c : c = [call EXCEPT !.cmp = m, !.pc = "restore"]
    OBVIOUS
  <2>4. /\ c \in Patch!CallStates /\ c.pc = "restore" /\ c.at = call.at
           /\ c.replaced = call.replaced
        /\ c.outcome = call.outcome /\ c.raised = call.raised /\ c.cmp = m /\ c.mine = call.mine
        /\ call' = c
    BY <1>2, <2>2, <2>3, PatchTypes DEF Patch!RollbackCompare, Patch!CallStates, Patch!Works,
       Patch!Undoes
  <2>5. Patch!LoopSound' /\ Patch!Latest' = Patch!Latest
    BY <2>4 DEF Patch!PatchInv, Patch!LoopSound, Patch!At, Patch!Latest
  <2>6. Patch!UndoSound'
    BY <1>u, <2>0, <2>4, <2>5 DEF Patch!UndoSound, Patch!Undoes
  <2>7. Patch!ComparedSound'
    BY <1>u, <1>2, <2>2, <2>4 DEF Patch!ComparedSound, Patch!At, Patch!StillMine, Patch!Here,
       Patch!Change
  <2> QED BY <1>u, <2>4, <2>5, <2>6, <2>7, PatchBetweenEffects DEF Patch!Works, Patch!Undoes
<1> QED BY <1>1, <1>2

LEMMA PatchRestoreStep == ASSUME Patch!PatchBound, Patch!PatchInv, Patch!Restore
                                 PROVE Patch!PatchInv'
<1>u. /\ call.pc = "restore" /\ UNCHANGED <<round, proposal, row, receipt>>
      /\ Patch!Write(Patch!Change.base) /\ effect' = [effect EXCEPT ![round][call.at] = "restored"]
      /\ lost' = lost \cup Patch!Destroys(call.mine[call.at])
  BY DEF Patch!Restore, Patch!At, Patch!Unmoved
<1>1. call.at \in Patch!Files
  <2>1. Patch!Latest >= 1 /\ call.at = Patch!Latest /\ Patch!Latest \in 0..NFiles
    BY <1>u, PatchLatestFacts DEF Patch!PatchInv, Patch!UndoSound
  <2> QED BY <2>1 DEF Patch!Files, Patch!PatchBound
<1>2. PICK o \in {"rolled_back", "unknown"} : call' = Patch!Undone(o)
  BY DEF Patch!Restore
<1>3. PICK c : c = Patch!Undone(o)
  OBVIOUS
<1>4. \A i \in Patch!Files : effect'[round][i] = IF i = call.at THEN "restored" ELSE effect[round][i]
  BY <1>u, <1>1, PatchEffected
<1>5. effect'[round][call.at] \in Patch!Told[o]
  BY <1>1, <1>4, PatchToldFacts
<1>6. /\ c \in Patch!CallStates /\ c.pc = "rollback"
      /\ Patch!LoopSound' /\ Patch!UndoSound' /\ Patch!ComparedSound'
  BY <1>u, <1>2, <1>3, <1>4, <1>5, PatchUndoneStep
<1>7. \A l \in Patch!Destroys(call.mine[call.at]) : l.how \in {"window", "twin"}
  <2>1. call.cmp = call.mine[call.at] /\ (Patch!Here.id = call.cmp
        => Patch!Here.data = Patch!Change.target)
    BY <1>u DEF Patch!PatchInv, Patch!ComparedSound, Patch!At
  <2>2. CASE Patch!Here.id = call.cmp
    BY <2>1, <2>2 DEF Patch!Destroys
  <2>3. CASE Patch!Here.id # call.cmp
    BY <2>1, <2>3 DEF Patch!Destroys
  <2> QED BY <2>2, <2>3
<1>8. PICK d \in Patch!Data : d = Patch!Change.base
  BY <1>u, <1>1, PatchFixedNow DEF Patch!Works, Patch!Undoes
<1> QED BY <1>u, <1>1, <1>2, <1>3, <1>6, <1>7, <1>8, PatchEffectMoves DEF Patch!Write,
    Patch!Works, Patch!Undoes

-----------------------------------------------------------------------------
(* The end *)

LEMMA PatchCleanupStep == ASSUME Patch!PatchBound, Patch!PatchInv, Patch!Cleanup
                                 PROVE Patch!PatchInv'
<1>u. /\ call.pc = "cleanup" /\ UNCHANGED <<file, round, proposal, row, receipt, effect, lost>>
  BY DEF Patch!Cleanup, Patch!At, Patch!Unmoved
<1>1. PICK c \in Patch!CallStates : /\ call' = c /\ c.pc = "seal" /\ c.replaced = call.replaced
                                    /\ c.outcome = call.outcome /\ (call.raised => c.raised)
  <2>1. CASE call' = [call EXCEPT !.pc = "seal", !.temps = {}]
    <3>1. PICK c : c = [call EXCEPT !.pc = "seal", !.temps = {}]
      OBVIOUS
    <3>2. c \in Patch!CallStates /\ c.pc = "seal" /\ c.replaced = call.replaced
          /\ c.outcome = call.outcome /\ c.raised = call.raised
      BY <3>1, PatchTypes DEF Patch!CallStates, Patch!Works
    <3> QED BY <2>1, <3>1, <3>2
  <2>2. CASE call' = [call EXCEPT !.pc = "seal", !.raised = TRUE]
    <3>1. PICK c : c = [call EXCEPT !.pc = "seal", !.raised = TRUE]
      OBVIOUS
    <3>2. c \in Patch!CallStates /\ c.pc = "seal" /\ c.replaced = call.replaced
          /\ c.outcome = call.outcome /\ c.raised = TRUE
      BY <3>1, PatchTypes DEF Patch!CallStates, Patch!Works
    <3> QED BY <2>2, <3>1, <3>2
  <2> QED BY <2>1, <2>2 DEF Patch!Cleanup
<1>2. Patch!LoopSound'
  BY <1>1 DEF Patch!PatchInv, Patch!LoopSound, Patch!At, Patch!Latest
<1>3. Patch!UndoSound'
  BY <1>u, <1>1 DEF Patch!PatchInv, Patch!UndoSound, Patch!Undoes, Patch!AllApplied
<1>4. Patch!ComparedSound'
  BY <1>1 DEF Patch!ComparedSound, Patch!At
<1> QED BY <1>u, <1>1, <1>2, <1>3, <1>4, PatchBetweenEffects DEF Patch!Works

LEMMA PatchSealStep == ASSUME Patch!PatchInv, Patch!Seal PROVE Patch!PatchInv'
<1>u. /\ call.pc = "seal" /\ UNCHANGED <<file, round, proposal, effect, lost>>
      /\ receipt' = [receipt EXCEPT ![round] = Patch!Completed]
      /\ row' = [row EXCEPT ![round] = IF call.raised THEN "failed" ELSE "completed"]
  BY DEF Patch!Seal, Patch!At, Patch!Unmoved
<1>1. PICK c : c = [call EXCEPT !.pc = "end"]
  OBVIOUS
<1>2. c \in Patch!CallStates /\ c.pc = "end" /\ c.replaced = call.replaced
      /\ c.outcome = call.outcome
      /\ call' = c
  BY <1>1, PatchTypes DEF Patch!CallStates, Patch!Seal
<1>3. /\ row \in [Patch!Rounds -> {"none", "running", "completed", "failed"}]
         /\ round \in Patch!Rounds
      /\ receipt \in [Patch!Rounds -> [status : {"none", "prepared", "applied", "failed"},
                                 outcome : [Patch!Files -> Patch!Outcomes \cup {"pending"}]]]
  BY DEF Patch!PatchInv, Patch!PatchTypes
<1>4. PICK s \in {"applied", "failed"} : s = IF Patch!AllApplied THEN "applied" ELSE "failed"
  OBVIOUS
<1>5. PICK v : v = [status |-> s, outcome |-> call.outcome]
  OBVIOUS
<1>6. /\ v \in [status : {"none", "prepared", "applied", "failed"},
                outcome : [Patch!Files -> Patch!Outcomes \cup {"pending"}]]
      /\ v.status = s /\ v.outcome = call.outcome
  BY <1>5, PatchTypes
<1>7. receipt' = [receipt EXCEPT ![round] = v]
  BY <1>u, <1>4, <1>5 DEF Patch!Completed
<1>8. /\ receipt' \in [Patch!Rounds -> [status : {"none", "prepared", "applied", "failed"},
                                  outcome : [Patch!Files -> Patch!Outcomes \cup {"pending"}]]]
      /\ receipt'[round] = v /\ \A r \in Patch!Rounds : r # round => receipt'[r] = receipt[r]
  BY <1>3, <1>6, <1>7
<1>9. PICK w \in {"failed", "completed"} : w = IF call.raised THEN "failed" ELSE "completed"
  OBVIOUS
<1>10. /\ row' \in [Patch!Rounds -> {"none", "running", "completed", "failed"}]
       /\ row'[round] = w /\ \A r \in Patch!Rounds : r # round => row'[r] = row[r]
  BY <1>u, <1>3, <1>9
<1>11. Patch!PatchTypes'
  BY <1>u, <1>2, <1>8, <1>10 DEF Patch!PatchInv, Patch!PatchTypes
<1>12. /\ row[round] = "running" /\ (round = 1 => row[2] = "none" /\ Patch!Untried(2))
       /\ (round = 2 => row[1] # "none")
  BY <1>u DEF Patch!PatchInv, Patch!RowSound, Patch!Works
<1>13. Patch!ProposalSound'
  BY <1>u, <1>2, <1>10, <1>12 DEF Patch!PatchInv, Patch!ProposalSound, Patch!At, Patch!Fixed
<1>14. Patch!RowSound'
  BY <1>u, <1>2, <1>3, <1>8, <1>10, <1>12 DEF Patch!RowSound, Patch!Untried, Patch!At,
     Patch!Works, Patch!Undoes, Patch!Rounds
<1>15. Patch!LoopSound'
  BY <1>2 DEF Patch!PatchInv, Patch!LoopSound, Patch!At, Patch!Latest
<1>16. Patch!UndoSound' /\ Patch!ComparedSound'
  BY <1>2 DEF Patch!UndoSound, Patch!ComparedSound, Patch!At, Patch!Undoes
<1>17. /\ \A i \in Patch!Files : effect[round][i] \in Patch!Told[call.outcome[i]]
       /\ call.raised \/ Patch!AllApplied
  BY <1>u DEF Patch!PatchInv, Patch!UndoSound
<1>18. Patch!ReceiptTruthful'
  <2>1. ASSUME NEW r \in Patch!Rounds, row'[r] \in {"completed", "failed"}
        PROVE  /\ \A i \in Patch!Files : effect'[r][i] \in Patch!Told[receipt'[r].outcome[i]]
               /\ row'[r] = "completed" => receipt'[r].status = "applied"
               /\ receipt'[r].status = "applied"
                  => \A i \in Patch!Files : effect'[r][i] = "replaced"
    <3>1. CASE r = round
      <4>1. w = "completed" => s = "applied"
        BY <1>4, <1>9, <1>17
      <4>2. s = "applied" => \A i \in Patch!Files : effect[round][i] = "replaced"
        BY <1>4, <1>17, PatchToldFacts DEF Patch!AllApplied
      <4> QED BY <1>u, <1>6, <1>8, <1>10, <1>17, <3>1, <4>1, <4>2
    <3>2. CASE r # round
      BY <1>u, <1>8, <1>10, <2>1, <3>2 DEF Patch!PatchInv, Patch!ReceiptTruthful
    <3> QED BY <3>1, <3>2
  <2> QED BY <2>1 DEF Patch!ReceiptTruthful
<1>19. Patch!PreimageBeforeEffect'
  BY <1>u, <1>6, <1>8, <1>10 DEF Patch!PatchInv, Patch!PreimageBeforeEffect
<1>20. Patch!OnlyRacingWriteLost'
  BY <1>u DEF Patch!PatchInv, Patch!OnlyRacingWriteLost
<1> QED BY <1>11, <1>13, <1>14, <1>15, <1>16, <1>18, <1>19, <1>20 DEF Patch!PatchInv

LEMMA PatchUnsealedStep == ASSUME Patch!PatchInv, Patch!Unsealed PROVE Patch!PatchInv'
<1>1. PICK c : c = [call EXCEPT !.pc = "lost"]
  OBVIOUS
<1>2. c \in Patch!CallStates /\ c.pc = "lost" /\ c.replaced = call.replaced
      /\ c.outcome = call.outcome
  BY <1>1, PatchTypes DEF Patch!CallStates
<1>3. /\ call' = c /\ call.pc \notin {"prepare", "end", "lost"}
      /\ UNCHANGED <<file, round, proposal, row, receipt, effect, lost>>
  BY <1>1 DEF Patch!Unsealed, Patch!Unmoved
<1>4. Patch!ProposalSound'
  BY <1>2, <1>3 DEF Patch!PatchInv, Patch!ProposalSound, Patch!Fixed, Patch!At
<1>5. Patch!RowSound'
  BY <1>2, <1>3, PatchTypes DEF Patch!PatchInv, Patch!RowSound, Patch!Untried, Patch!At,
     Patch!Works, Patch!Undoes
<1>6. Patch!LoopSound'
  BY <1>2, <1>3 DEF Patch!PatchInv, Patch!LoopSound, Patch!At, Patch!Latest
<1>7. Patch!UndoSound' /\ Patch!ComparedSound'
  BY <1>2, <1>3 DEF Patch!UndoSound, Patch!ComparedSound, Patch!At, Patch!Undoes
<1> QED BY <1>2, <1>3, <1>4, <1>5, <1>6, <1>7, PatchWorkerMoves

LEMMA PatchFreshCall ==
    ASSUME Patch!PatchBound
    PROVE  /\ Patch!NoCall \in Patch!CallStates /\ Patch!NoCall.pc = "prepare"
              /\ Patch!NoCall.at = 1
           /\ Patch!NoCall.replaced = <<>>
              /\ \A i \in Patch!Files : Patch!NoCall.outcome[i] = "unchanged"
<1>1. 1 \in 1..(NFiles + 1)
  BY DEF Patch!PatchBound
<1>2. PICK s \in Seq(Patch!Files) : s = <<>>
  <2>1. <<>> \in Seq(Patch!Files)
    OBVIOUS
  <2> QED BY <2>1
<1>3. Patch!NoCall = [pc |-> "prepare", at |-> 1, seen |-> [i \in Patch!Files |-> 0],
                cmp |-> 0, mine |-> [i \in Patch!Files |-> 0], replaced |-> s,
                outcome |-> [i \in Patch!Files |-> "unchanged"], temps |-> {}, raised |-> FALSE]
  BY <1>2 DEF Patch!NoCall
<1>4. Patch!NoCall \in Patch!CallStates
  BY <1>1, <1>3 DEF Patch!CallStates, Patch!Works, Patch!Outcomes
<1> QED BY <1>2, <1>3, <1>4

LEMMA PatchPrepareInverseStep == ASSUME Patch!PatchBound, Patch!PatchInv,
    Patch!PrepareInverse PROVE Patch!PatchInv'
<1>u. /\ call.pc = "end" /\ round = 1 /\ Patch!Confirmed /\ round' = 2 /\ call' = Patch!NoCall
      /\ UNCHANGED <<file, writes, proposal, row, receipt, effect, lost>>
  BY DEF Patch!PrepareInverse, Patch!At
<1>1. Patch!PatchTypes'
  BY <1>u, PatchFreshCall DEF Patch!PatchInv, Patch!PatchTypes, Patch!Rounds
<1>2. Patch!ProposalSound'
  BY <1>u, PatchFreshCall DEF Patch!PatchInv, Patch!ProposalSound, Patch!At, Patch!Fixed
<1>3. Patch!RowSound'
  <2>1. row[2] = "none" /\ Patch!Untried(2) /\ row[1] = "completed"
    BY <1>u DEF Patch!PatchInv, Patch!RowSound, Patch!Confirmed
  <2> QED BY <1>u, <2>1, PatchFreshCall DEF Patch!RowSound, Patch!Untried, Patch!At, Patch!Works,
      Patch!Undoes
<1>4. Patch!LoopSound' /\ Patch!UndoSound' /\ Patch!ComparedSound'
  BY <1>u, PatchFreshCall DEF Patch!LoopSound, Patch!UndoSound, Patch!ComparedSound, Patch!At,
     Patch!Undoes, Patch!Latest
<1>5. Patch!ReceiptTruthful' /\ Patch!PreimageBeforeEffect' /\ Patch!OnlyRacingWriteLost'
  BY <1>u DEF Patch!PatchInv, Patch!ReceiptTruthful, Patch!PreimageBeforeEffect,
     Patch!OnlyRacingWriteLost
<1> QED BY <1>1, <1>2, <1>3, <1>4, <1>5 DEF Patch!PatchInv

\* Another program's write gives the file an identity the worker has not compared.
LEMMA PatchUserWriteStep ==
    ASSUME Patch!PatchInv, NEW i \in Patch!Files, NEW d \in {"user", "new"}, Patch!UserWrite(i, d)
    PROVE  Patch!PatchInv'
<1>u. UNCHANGED <<round, proposal, row, receipt, call, effect, lost>>
  BY DEF Patch!UserWrite
<1>1. file \in [Patch!Files -> [data : Patch!Data, id : Nat, by : {"user", "tool"}]]
  BY DEF Patch!PatchInv, Patch!PatchTypes
<1>2. PICK n \in Nat : n = file[i].id + 1 /\ n > file[i].id
  BY <1>1
<1>3. file' = [file EXCEPT ![i] = [data |-> d, id |-> n, by |-> "user"]]
  BY <1>2 DEF Patch!UserWrite
<1>4. file' \in [Patch!Files -> [data : Patch!Data, id : Nat, by : {"user", "tool"}]]
  BY <1>1, <1>3 DEF Patch!Data
<1>5. Patch!PatchTypes'
  BY <1>u, <1>4 DEF Patch!PatchInv, Patch!PatchTypes
<1>6. Patch!ProposalSound' /\ Patch!RowSound'
  BY <1>u DEF Patch!PatchInv, Patch!ProposalSound, Patch!RowSound, Patch!Untried, Patch!Fixed,
     Patch!At
<1>7. Patch!LoopSound' /\ Patch!UndoSound'
  BY <1>u DEF Patch!PatchInv, Patch!LoopSound, Patch!UndoSound, Patch!At, Patch!Latest,
     Patch!AllApplied
<1>8. Patch!ComparedSound'
  <2>1. CASE call.at = i /\ Patch!At("restore")
    <3>1. call.cmp <= file[i].id /\ call.cmp = call.mine[call.at]
      BY <2>1 DEF Patch!PatchInv, Patch!ComparedSound, Patch!Here
    <3>2. file'[i].id = n /\ call.cmp \in Nat /\ file[i].id \in Nat
      BY <1>1, <1>3, PatchTypes
    <3>3. call.cmp < n
      BY <1>2, <3>1, <3>2
    <3> QED BY <1>u, <2>1, <3>1, <3>2, <3>3 DEF Patch!ComparedSound, Patch!Here, Patch!At
  <2>2. CASE call.at # i \/ ~Patch!At("restore")
    <3>1. call.at # i => file'[call.at] = file[call.at]
      BY <1>1, <1>3
    <3> QED BY <1>u, <2>2, <3>1 DEF Patch!PatchInv, Patch!ComparedSound, Patch!Here, Patch!At,
        Patch!Change
  <2> QED BY <2>1, <2>2
<1>9. Patch!ReceiptTruthful' /\ Patch!PreimageBeforeEffect' /\ Patch!OnlyRacingWriteLost'
  BY <1>u DEF Patch!PatchInv, Patch!ReceiptTruthful, Patch!PreimageBeforeEffect,
     Patch!OnlyRacingWriteLost
<1> QED BY <1>5, <1>6, <1>7, <1>8, <1>9 DEF Patch!PatchInv

-----------------------------------------------------------------------------
(* The whole *)

LEMMA PatchInitInv == ASSUME Patch!PatchBound, Patch!Init PROVE Patch!PatchInv
<1>1. file \in [Patch!Files -> [data : Patch!Data, id : Nat, by : {"user", "tool"}]]
  <2>1. file \in [Patch!Files -> {[data |-> d, id |-> 1, by |-> "user"] : d \in {"missing", "old"}}]
    BY DEF Patch!Init
  <2>2. {[data |-> d, id |-> 1, by |-> "user"] : d \in {"missing", "old"}}
            \subseteq [data : Patch!Data, id : Nat, by : {"user", "tool"}]
    BY DEF Patch!Data
  <2> QED BY <2>1, <2>2
<1>2. /\ round = 1 /\ call = Patch!NoCall /\ lost = {}
      /\ \A r \in Patch!Rounds : row[r] = "none" /\ receipt[r] = Patch!NoReceipt
                           /\ \A i \in Patch!Files : effect[r][i] = "none"
  BY DEF Patch!Init
<1>3. Patch!NoReceipt \in [status : {"none", "prepared", "applied", "failed"},
                     outcome : [Patch!Files -> Patch!Outcomes \cup {"pending"}]]
      /\ Patch!NoReceipt.status = "none"
         /\ \A i \in Patch!Files : Patch!NoReceipt.outcome[i] = "pending"
  BY DEF Patch!NoReceipt
<1>4. Patch!PatchTypes
  BY <1>1, <1>3, PatchFreshCall DEF Patch!Init, Patch!PatchTypes, Patch!Rounds, Patch!Changes
<1>5. Patch!ProposalSound
  BY <1>2, PatchFreshCall DEF Patch!ProposalSound
<1>6. Patch!RowSound
  BY <1>2, <1>3, PatchFreshCall DEF Patch!RowSound, Patch!Untried, Patch!Rounds, Patch!Works,
     Patch!Undoes, Patch!At
<1>7. Patch!LoopSound /\ Patch!UndoSound /\ Patch!ComparedSound
  BY <1>2, PatchFreshCall DEF Patch!LoopSound, Patch!UndoSound, Patch!ComparedSound, Patch!At,
     Patch!Undoes, Patch!Latest
<1>8. Patch!ReceiptTruthful /\ Patch!PreimageBeforeEffect /\ Patch!OnlyRacingWriteLost
  BY <1>2 DEF Patch!ReceiptTruthful, Patch!PreimageBeforeEffect, Patch!OnlyRacingWriteLost
<1> QED BY <1>4, <1>5, <1>6, <1>7, <1>8 DEF Patch!PatchInv

LEMMA PatchNextStep == ASSUME Patch!PatchBound, Patch!PatchInv, [Patch!Next]_(Patch!vars)
                              PROVE Patch!PatchInv'
<1>1. CASE Patch!PrepareFile \/ Patch!PrepareRefused \/ Patch!Reserve \/ Patch!Check
           \/ Patch!RecordIntent \/ Patch!Temporary
  BY <1>1, PatchPrepareFileStep, PatchPrepareRefusedStep, PatchReserveStep, PatchCheckStep,
     PatchRecordIntentStep, PatchTemporaryStep
<1>2. CASE Patch!Compare \/ Patch!Replace \/ Patch!Observe \/ Patch!LoopRaises \/ Patch!Applied
  BY <1>2, PatchCompareStep, PatchReplaceStep, PatchObserveStep, PatchLoopRaisesStep,
     PatchAppliedStep
<1>3. CASE Patch!RollbackNext \/ Patch!RollbackCompare \/ Patch!Restore \/ Patch!RollbackRaises
  BY <1>3, PatchRollbackNextStep, PatchRollbackCompareStep, PatchRestoreStep,
     PatchRollbackRaisesStep
<1>4. CASE Patch!Cleanup \/ Patch!Seal \/ Patch!SealFailed \/ Patch!Unsealed \/ Patch!PrepareInverse
  BY <1>4, PatchCleanupStep, PatchSealStep, PatchSealFailedStep, PatchUnsealedStep,
     PatchPrepareInverseStep
<1>5. ASSUME NEW i \in Patch!Files, NEW d \in {"user", "new"}, Patch!UserWrite(i, d)
             PROVE Patch!PatchInv'
  BY <1>5, PatchUserWriteStep
<1>6. CASE UNCHANGED Patch!vars
  <2>1. UNCHANGED <<file, round, proposal, row, receipt, call, effect, lost>>
    BY <1>6 DEF Patch!vars
  <2>2. Patch!PatchTypes'
    BY <2>1 DEF Patch!PatchInv, Patch!PatchTypes
  <2>3. Patch!ProposalSound' /\ Patch!RowSound'
    BY <2>1 DEF Patch!PatchInv, Patch!ProposalSound, Patch!RowSound, Patch!Untried, Patch!Fixed,
       Patch!At
  <2>4. Patch!LoopSound' /\ Patch!UndoSound' /\ Patch!ComparedSound'
    BY <2>1 DEF Patch!PatchInv, Patch!LoopSound, Patch!UndoSound, Patch!ComparedSound, Patch!At,
       Patch!Latest, Patch!AllApplied, Patch!Here, Patch!Change
  <2>5. Patch!ReceiptTruthful' /\ Patch!PreimageBeforeEffect' /\ Patch!OnlyRacingWriteLost'
    BY <2>1 DEF Patch!PatchInv, Patch!ReceiptTruthful, Patch!PreimageBeforeEffect,
       Patch!OnlyRacingWriteLost
  <2> QED BY <2>2, <2>3, <2>4, <2>5 DEF Patch!PatchInv
<1> QED BY <1>1, <1>2, <1>3, <1>4, <1>5, <1>6 DEF Patch!Next

LEMMA PatchReceiptsAreTrue ==
    ASSUME Patch!PatchInv
    PROVE  Patch!TypeOK /\ Patch!ReceiptTruthful /\ Patch!PreimageBeforeEffect
        /\ Patch!OnlyRacingWriteLost
<1>1. Patch!TypeOK
  BY PatchTypes DEF Patch!PatchInv, Patch!PatchTypes, Patch!TypeOK, Patch!Outcomes
<1> QED BY <1>1 DEF Patch!PatchInv

\* The receipt of a patch says of every file what was done to it, no file is touched
\* before its preimage is durable, and a write of another program is destroyed only
\* in the windows between comparison, replacement and observation (patching.py).
THEOREM PatchesTellTheTruth ==
    ASSUME Patch!PatchBound
    PROVE  Patch!Spec => [](Patch!TypeOK /\ Patch!ReceiptTruthful /\ Patch!PreimageBeforeEffect
        /\ Patch!OnlyRacingWriteLost)
<1>1. Patch!PatchInv => Patch!TypeOK /\ Patch!ReceiptTruthful /\ Patch!PreimageBeforeEffect
      /\ Patch!OnlyRacingWriteLost
  BY PatchReceiptsAreTrue
<1> QED BY <1>1, PatchInitInv, PatchNextStep, PTL DEF Patch!Spec

-----------------------------------------------------------------------------
(* ConversationContext: any conversations, turns and crashes *)

-----------------------------------------------------------------------------
(* The completed turns of a sequence.  The provers do not instantiate the     *)
(* library's induction, so each induction is the least counterexample.        *)

LEMMA ContextLeast ==
    ASSUME NEW T \in SUBSET Nat, T # {}
    PROVE  \E n \in T : \A m \in T : ~(m < n)
<1>1. IsWellFoundedOn(OpToRel(<, Nat), Nat)
  BY NatLessThanWellFounded
<1>2. PICK n \in T : \A m \in T : ~(<<m, n>> \in OpToRel(<, Nat))
  BY <1>1, WFMin
<1>3. \A m \in T : <<m, n>> \in OpToRel(<, Nat) <=> m < n
  BY DEF OpToRel
<1> QED BY <1>2, <1>3

\* One step of the recursion, and its solution.
ContextRule(s, st, f, n) ==
    IF n = 0 THEN <<>>
    ELSE IF st[s[n]] = "completed" THEN Append(f[n - 1], s[n]) ELSE f[n - 1]
ContextSolves(s, st, f, k) == f = [n \in 0..k |-> ContextRule(s, st, f, n)]

LEMMA ContextCompletedIs ==
    ASSUME NEW s, NEW st
    PROVE  Turns!Completed(s, st) = (CHOOSE f : ContextSolves(s, st, f, Len(s)))[Len(s)]
BY DEF Turns!Completed, ContextSolves, ContextRule

LEMMA ContextSolvesAt ==
    ASSUME NEW s, NEW st, NEW f, NEW k \in Nat, ContextSolves(s, st, f, k)
    PROVE  /\ f = [n \in 0..k |-> f[n]] /\ f[0] = <<>>
           /\ \A n \in 1..k : f[n] = IF st[s[n]] = "completed" THEN Append(f[n - 1], s[n])
              ELSE f[n - 1]
<1>1. \A n \in 0..k : f[n] = ContextRule(s, st, f, n)
  BY DEF ContextSolves
<1>2. f = [n \in 0..k |-> f[n]]
  <2> DEFINE g == [n \in 0..k |-> ContextRule(s, st, f, n)]
  <2>1. f = g /\ g = [n \in 0..k |-> g[n]]
    BY DEF ContextSolves
  <2> HIDE DEF g
  <2> QED BY <2>1
<1>3. f[0] = <<>>
  <2>1. ContextRule(s, st, f, 0) = <<>> /\ 0 \in 0..k
    BY DEF ContextRule
  <2> QED BY <1>1, <2>1
<1>4. ASSUME NEW n \in 1..k
      PROVE  f[n] = IF st[s[n]] = "completed" THEN Append(f[n - 1], s[n]) ELSE f[n - 1]
  <2>1. n \in 0..k /\ n # 0
    OBVIOUS
  <2>2. f[n] = ContextRule(s, st, f, n)
    BY <1>1, <2>1
  <2> QED BY <2>1, <2>2 DEF ContextRule
<1> QED BY <1>2, <1>3, <1>4

LEMMA ContextSolvesBy ==
    ASSUME NEW s, NEW st, NEW k \in Nat, NEW f, f = [n \in 0..k |-> f[n]], f[0] = <<>>,
           \A n \in 1..k : f[n] = IF st[s[n]] = "completed" THEN Append(f[n - 1], s[n])
               ELSE f[n - 1]
    PROVE  ContextSolves(s, st, f, k)
<1>1. \A n \in 0..k : f[n] = ContextRule(s, st, f, n)
  BY DEF ContextRule
<1> QED BY <1>1 DEF ContextSolves

\* A solution goes one further.
LEMMA ContextSolvesMore ==
    ASSUME NEW s, NEW st, NEW f, NEW k \in Nat, ContextSolves(s, st, f, k)
    PROVE  \E g : ContextSolves(s, st, g, k + 1) /\ \A n \in 0..k : g[n] = f[n]
<1> DEFINE more == IF st[s[k + 1]] = "completed" THEN Append(f[k], s[k + 1]) ELSE f[k]
           g == [n \in 0..(k + 1) |-> IF n = k + 1 THEN more ELSE f[n]]
<1>1. /\ f[0] = <<>>
      /\ \A n \in 1..k : f[n] = IF st[s[n]] = "completed" THEN Append(f[n - 1], s[n]) ELSE f[n - 1]
  BY ContextSolvesAt
<1>2. g[k + 1] = more /\ \A n \in 0..k : g[n] = f[n]
  OBVIOUS
<1>3. \A n \in 1..(k + 1) : g[n] = IF st[s[n]] = "completed" THEN Append(g[n - 1], s[n])
      ELSE g[n - 1]
  <2> TAKE n \in 1..(k + 1)
  <2>1. CASE n = k + 1
    <3>1. g[n - 1] = f[k] /\ g[n] = more
      BY <1>2, <2>1
    <3> QED BY <2>1, <3>1
  <2>2. CASE n # k + 1
    <3>1. n \in 1..k /\ n - 1 \in 0..k /\ n \in 0..k
      BY <2>2
    <3>2. g[n] = f[n] /\ g[n - 1] = f[n - 1]
      BY <1>2, <3>1
    <3> QED BY <1>1, <3>1, <3>2
  <2> QED BY <2>1, <2>2
<1>4. g[0] = <<>> /\ g = [n \in 0..(k + 1) |-> g[n]] /\ k + 1 \in Nat
  BY <1>1, <1>2
<1> HIDE DEF g
<1>5. ContextSolves(s, st, g, k + 1)
  BY <1>3, <1>4, ContextSolvesBy
<1> QED BY <1>2, <1>5

LEMMA ContextSolvesSome ==
    ASSUME NEW s, NEW st
    PROVE  \A k \in Nat : \E f : ContextSolves(s, st, f, k)
<1> DEFINE T == {k \in Nat : ~\E f : ContextSolves(s, st, f, k)}
<1> SUFFICES ASSUME T # {} PROVE FALSE
  OBVIOUS
<1>1. PICK k \in T : \A m \in T : ~(m < k)
  BY ContextLeast
<1>2. k # 0
  <2> DEFINE f == [n \in 0..0 |-> <<>>]
  <2>1. f = [n \in 0..0 |-> f[n]] /\ f[0] = <<>>
    OBVIOUS
  <2> HIDE DEF f
  <2>2. \A n \in 1..0 : f[n] = IF st[s[n]] = "completed" THEN Append(f[n - 1], s[n]) ELSE f[n - 1]
    OBVIOUS
  <2>3. ContextSolves(s, st, f, 0)
    BY <2>1, <2>2, ContextSolvesBy
  <2> QED BY <2>3
<1>3. k - 1 \in Nat /\ k - 1 \notin T /\ k = (k - 1) + 1
  BY <1>1, <1>2
<1>4. PICK f : ContextSolves(s, st, f, k - 1)
  BY <1>3
<1>5. \E g : ContextSolves(s, st, g, (k - 1) + 1)
  BY <1>3, <1>4, ContextSolvesMore
<1> QED BY <1>3, <1>5

LEMMA ContextSolvesOne ==
    ASSUME NEW s, NEW st, NEW st2, NEW f, NEW g, NEW k \in Nat, NEW j \in 0..k, NEW i \in 0..k,
           ContextSolves(s, st, f, k), ContextSolves(s, st2, g, j), i <= j,
           \A n \in 1..i : st[s[n]] = "completed" <=> st2[s[n]] = "completed"
    PROVE  f[i] = g[i]
<1> DEFINE T == {n \in Nat : n <= i /\ f[n] # g[n]}
<1> SUFFICES ASSUME T # {} PROVE FALSE
  OBVIOUS
<1>1. PICK n \in T : \A m \in T : ~(m < n)
  BY ContextLeast
<1>2. /\ f[0] = <<>> /\ g[0] = <<>>
      /\ \A m \in 1..k : f[m] = IF st[s[m]] = "completed" THEN Append(f[m - 1], s[m]) ELSE f[m - 1]
      /\ \A m \in 1..j : g[m] = IF st2[s[m]] = "completed" THEN Append(g[m - 1], s[m]) ELSE g[m - 1]
  BY ContextSolvesAt
<1>3. n # 0
  BY <1>2
<1>4. n \in 1..i /\ n \in 1..j /\ n \in 1..k /\ n - 1 \in Nat /\ n - 1 <= i /\ n - 1 \notin T
  BY <1>1, <1>3
<1>5. f[n - 1] = g[n - 1]
  BY <1>4
<1>6. f[n] = g[n]
  BY <1>2, <1>4, <1>5
<1> QED BY <1>6

\* What is selected is what any solution selects.
LEMMA ContextCompletedSolved ==
    ASSUME NEW S, NEW s \in Seq(S), NEW st, NEW f, ContextSolves(s, st, f, Len(s))
    PROVE  Turns!Completed(s, st) = f[Len(s)]
<1> DEFINE g == CHOOSE h : ContextSolves(s, st, h, Len(s))
<1>1. ContextSolves(s, st, g, Len(s))
  OBVIOUS
<1>2. Turns!Completed(s, st) = g[Len(s)]
  BY ContextCompletedIs
<1> HIDE DEF g
<1>3. Len(s) \in Nat /\ Len(s) \in 0..Len(s)
  BY LenProperties
<1>4. g[Len(s)] = f[Len(s)]
  BY <1>1, <1>3, ContextSolvesOne
<1> QED BY <1>2, <1>4

LEMMA ContextCompletedEmpty ==
    ASSUME NEW st
    PROVE  Turns!Completed(<<>>, st) = <<>>
<1>1. <<>> \in Seq({}) /\ Len(<<>>) = 0
  BY EmptySeq
<1>2. PICK f : ContextSolves(<<>>, st, f, 0)
  BY ContextSolvesSome
<1>3. f[0] = <<>>
  BY <1>2, ContextSolvesAt
<1> QED BY <1>1, <1>2, <1>3, ContextCompletedSolved

\* The first k turns that completed are the same.
ContextAgree(s, k, st, st2) == \A n \in 1..k : st[s[n]] = "completed" <=> st2[s[n]] = "completed"

\* Only which turns completed counts.
LEMMA ContextCompletedSame ==
    ASSUME NEW S, NEW s \in Seq(S), NEW st, NEW st2, ContextAgree(s, Len(s), st, st2)
    PROVE  Turns!Completed(s, st) = Turns!Completed(s, st2)
<1>1. Len(s) \in Nat /\ Len(s) \in 0..Len(s)
  BY LenProperties
<1>2. PICK f : ContextSolves(s, st, f, Len(s))
  BY <1>1, ContextSolvesSome
<1>3. PICK g : ContextSolves(s, st2, g, Len(s))
  BY <1>1, ContextSolvesSome
<1>4. f[Len(s)] = g[Len(s)]
  BY <1>1, <1>2, <1>3, ContextSolvesOne DEF ContextAgree
<1> QED BY <1>2, <1>3, <1>4, ContextCompletedSolved

LEMMA ContextCompletedAppend ==
    ASSUME NEW S, NEW s \in Seq(S), NEW t \in S, NEW st
    PROVE  Turns!Completed(Append(s, t), st)
             = IF st[t] = "completed" THEN Append(Turns!Completed(s, st), t)
                 ELSE Turns!Completed(s, st)
<1> DEFINE k == Len(s)
           r == Append(s, t)
<1>1. k \in Nat /\ r \in Seq(S) /\ Len(r) = k + 1 /\ r[k + 1] = t /\ \A n \in 1..k : r[n] = s[n]
  BY LenProperties, AppendProperties
<1>2. PICK f : ContextSolves(s, st, f, k)
  BY <1>1, ContextSolvesSome
<1> HIDE DEF k, r
<1>3. PICK g : ContextSolves(r, st, g, k + 1)
  <2>1. k + 1 \in Nat
    BY <1>1
  <2>2. \A j \in Nat : \E g : ContextSolves(r, st, g, j)
    BY ContextSolvesSome
  <2> QED BY <2>1, <2>2
<1>4. g[k + 1] = IF st[t] = "completed" THEN Append(g[k], t) ELSE g[k]
  <2>1. k + 1 \in 1..(k + 1) /\ (k + 1) - 1 = k /\ k + 1 \in Nat
    BY <1>1
  <2>2. \A n \in 1..(k + 1) :
            g[n] = IF st[r[n]] = "completed" THEN Append(g[n - 1], r[n]) ELSE g[n - 1]
    BY <1>3, <2>1, ContextSolvesAt
  <2> QED BY <1>1, <2>1, <2>2
<1>5. ContextSolves(r, st, f, k)
  <2>1. /\ f = [n \in 0..k |-> f[n]] /\ f[0] = <<>>
        /\ \A n \in 1..k : f[n] = IF st[s[n]] = "completed" THEN Append(f[n - 1], s[n])
           ELSE f[n - 1]
    BY <1>1, <1>2, ContextSolvesAt
  <2>2. \A n \in 1..k : f[n] = IF st[r[n]] = "completed" THEN Append(f[n - 1], r[n]) ELSE f[n - 1]
    BY <1>1, <2>1
  <2> QED BY <1>1, <2>1, <2>2, ContextSolvesBy
<1>6. g[k] = f[k]
  BY <1>1, <1>3, <1>5, ContextSolvesOne
<1>7. Turns!Completed(s, st) = f[k] /\ Turns!Completed(r, st) = g[k + 1]
  BY <1>1, <1>2, <1>3, ContextCompletedSolved DEF k
<1> QED BY <1>4, <1>6, <1>7 DEF r

LEMMA ContextCompletedType ==
    ASSUME NEW S, NEW s \in Seq(S), NEW st
    PROVE  Turns!Completed(s, st) \in Seq(S)
<1> DEFINE k == Len(s)
<1>1. k \in Nat /\ \A n \in 1..k : s[n] \in S
  BY LenProperties, ElementOfSeq
<1>2. PICK f : ContextSolves(s, st, f, k)
  BY <1>1, ContextSolvesSome
<1>3. Turns!Completed(s, st) = f[k]
  BY <1>2, ContextCompletedSolved
<1> HIDE DEF k
<1> DEFINE T == {n \in Nat : n <= k /\ f[n] \notin Seq(S)}
<1> SUFFICES ASSUME T # {} PROVE FALSE
  BY <1>1, <1>3
<1>4. PICK n \in T : \A m \in T : ~(m < n)
  BY ContextLeast
<1>5. /\ f[0] = <<>>
      /\ \A m \in 1..k : f[m] = IF st[s[m]] = "completed" THEN Append(f[m - 1], s[m]) ELSE f[m - 1]
  BY <1>1, <1>2, ContextSolvesAt
<1>6. n # 0
  <2>1. f[0] \in Seq(S)
    BY <1>5, EmptySeq
  <2> QED BY <2>1
<1>7. n \in 1..k /\ n - 1 \in Nat /\ n - 1 <= k /\ n - 1 \notin T
  BY <1>1, <1>4, <1>6
<1>8. f[n - 1] \in Seq(S) /\ s[n] \in S
  BY <1>1, <1>7
<1>9. f[n] \in Seq(S)
  <2>1. Append(f[n - 1], s[n]) \in Seq(S)
    BY <1>8
  <2> QED BY <1>5, <1>7, <1>8, <2>1
<1> QED BY <1>9

-----------------------------------------------------------------------------
(* Sequences of turns *)

LEMMA ContextPrefixShape ==
    ASSUME NEW S, NEW s \in Seq(S), NEW n \in 1..Len(s)
    PROVE  /\ SubSeq(s, 1, n - 1) \in Seq(S) /\ Len(SubSeq(s, 1, n - 1)) = n - 1
           /\ \A i \in 1..(n - 1) : SubSeq(s, 1, n - 1)[i] = s[i] /\ i \in 1..Len(s)
<1>1. Len(s) \in Nat /\ \A i \in 1..Len(s) : s[i] \in S
  BY LenProperties, ElementOfSeq
<1> QED BY <1>1

LEMMA ContextLastShape ==
    ASSUME NEW S, NEW s \in Seq(S), s # <<>>
    PROVE  /\ Len(s) \in Nat \ {0} /\ Len(s) \in 1..Len(s) /\ Turns!Last(s) = s[Len(s)]
              /\ Turns!Last(s) \in S
           /\ s = Append(SubSeq(s, 1, Len(s) - 1), Turns!Last(s))
<1>1. Len(s) \in Nat /\ Len(s) # 0
  BY LenProperties, EmptySeq
<1>2. Len(s) \in 1..Len(s) /\ Turns!Last(s) = s[Len(s)] /\ Turns!Last(s) \in S
  BY <1>1, ElementOfSeq DEF Turns!Last
<1>3. s = Append(SubSeq(s, 1, Len(s) - 1), s[Len(s)])
  BY <1>1
<1> QED BY <1>1, <1>2, <1>3

LEMMA ContextPrefixSame ==
    ASSUME NEW s \in Seq(Turns!Turns), NEW n \in 1..Len(s), NEW st, NEW st2,
           ContextAgree(s, n - 1, st, st2)
    PROVE  Turns!Completed(SubSeq(s, 1, n - 1), st) = Turns!Completed(SubSeq(s, 1, n - 1), st2)
<1> DEFINE p == SubSeq(s, 1, n - 1)
<1>1. p \in Seq(Turns!Turns) /\ Len(p) = n - 1 /\ \A i \in 1..(n - 1) : p[i] = s[i]
  BY ContextPrefixShape
<1> HIDE DEF p
<1>2. ContextAgree(p, Len(p), st, st2)
  BY <1>1 DEF ContextAgree
<1>3. Turns!Completed(p, st) = Turns!Completed(p, st2)
  BY <1>1, <1>2, ContextCompletedSame
<1> QED BY <1>3 DEF p

LEMMA ContextPrefixOfAppend ==
    ASSUME NEW S, NEW s \in Seq(S), NEW t \in S, NEW n \in 1..Len(s)
    PROVE  SubSeq(Append(s, t), 1, n - 1) = SubSeq(s, 1, n - 1)
<1>1. Len(s) \in Nat
  BY LenProperties
<1> QED BY <1>1

\* The last turn adds itself, once it completed.
LEMMA ContextCompletedLast ==
    ASSUME NEW S, NEW s \in Seq(S), s # <<>>, NEW st
    PROVE  LET p == Turns!Completed(SubSeq(s, 1, Len(s) - 1), st) IN
           Turns!Completed(s, st) =
               IF st[Turns!Last(s)] = "completed" THEN Append(p, Turns!Last(s)) ELSE p
<1> DEFINE r == SubSeq(s, 1, Len(s) - 1)
           l == Turns!Last(s)
<1>1. s = Append(r, l) /\ l \in S /\ r \in Seq(S)
  BY ContextLastShape, ContextPrefixShape
<1> HIDE DEF r, l
<1>2. Turns!Completed(Append(r, l), st) =
          IF st[l] = "completed" THEN Append(Turns!Completed(r, st), l) ELSE Turns!Completed(r, st)
  BY <1>1, ContextCompletedAppend
<1> QED BY <1>1, <1>2 DEF r, l

ContextIncreasing(s) == \A m, n \in 1..Len(s) : m < n => s[m] < s[n]
\* All that is in the sequence is one of the first n of s.
ContextAmong(r, s, n) == \A i \in 1..Len(r) : \E m \in 1..n : r[i] = s[m]

LEMMA ContextOrderedAppend ==
    ASSUME NEW r \in Seq(Turns!Turns), NEW t \in Turns!Turns, MaxTurns \in Nat,
           ContextIncreasing(r),
           \A i \in 1..Len(r) : r[i] < t
    PROVE  ContextIncreasing(Append(r, t))
<1> DEFINE q == Append(r, t)
<1>1. Len(r) \in Nat /\ Len(q) = Len(r) + 1 /\ q[Len(r) + 1] = t /\ \A i \in 1..Len(r) : q[i] = r[i]
  BY LenProperties, AppendProperties
<1> HIDE DEF q
<1> SUFFICES ASSUME NEW m \in 1..Len(q), NEW n \in 1..Len(q), m < n PROVE q[m] < q[n]
  BY DEF ContextIncreasing, q
<1>2. m \in 1..Len(r) /\ (n = Len(r) + 1 \/ n \in 1..Len(r))
  BY <1>1
<1>3. CASE n = Len(r) + 1
  BY <1>1, <1>2, <1>3
<1>4. CASE n \in 1..Len(r)
  BY <1>1, <1>2, <1>4 DEF ContextIncreasing
<1> QED BY <1>2, <1>3, <1>4

LEMMA ContextCompletedOrdered ==
    ASSUME NEW s \in Seq(Turns!Turns), ContextIncreasing(s), MaxTurns \in Nat, NEW st
    PROVE  ContextIncreasing(Turns!Completed(s, st))
        /\ ContextAmong(Turns!Completed(s, st), s, Len(s))
<1> DEFINE k == Len(s)
           Good(f, n) == f[n] \in Seq(Turns!Turns) /\ ContextIncreasing(f[n])
               /\ ContextAmong(f[n], s, n)
<1>1. k \in Nat /\ \A n \in 1..k : s[n] \in Turns!Turns
  BY LenProperties, ElementOfSeq
<1>2. PICK f : ContextSolves(s, st, f, k)
  BY <1>1, ContextSolvesSome
<1>3. Turns!Completed(s, st) = f[k]
  BY <1>2, ContextCompletedSolved
<1> HIDE DEF k
<1> DEFINE T == {n \in Nat : n <= k /\ ~Good(f, n)}
<1> SUFFICES ASSUME T # {} PROVE FALSE
  BY <1>1, <1>3 DEF k
<1>4. PICK n \in T : \A m \in T : ~(m < n)
  BY ContextLeast
<1>5. /\ f[0] = <<>>
      /\ \A m \in 1..k : f[m] = IF st[s[m]] = "completed" THEN Append(f[m - 1], s[m]) ELSE f[m - 1]
  BY <1>1, <1>2, ContextSolvesAt
<1>6. n # 0
  <2>1. f[0] \in Seq(Turns!Turns) /\ Len(f[0]) = 0
    BY <1>5, EmptySeq
  <2>2. Good(f, 0)
    BY <2>1 DEF ContextIncreasing, ContextAmong
  <2> QED BY <2>2
<1>7. n \in 1..k /\ n - 1 \in Nat /\ n - 1 <= k /\ n - 1 \notin T
  BY <1>1, <1>4, <1>6
<1>8. PICK r \in Seq(Turns!Turns) : r = f[n - 1] /\ ContextIncreasing(r)
      /\ ContextAmong(r, s, n - 1)
  BY <1>7
<1>9. PICK t \in Turns!Turns : t = s[n]
  BY <1>1, <1>7
<1>10. \A i \in 1..Len(r) : r[i] < t
  <2> TAKE i \in 1..Len(r)
  <2>1. PICK m \in 1..(n - 1) : r[i] = s[m]
    BY <1>8 DEF ContextAmong
  <2>2. m \in 1..k /\ m < n
    BY <1>1, <1>7, <2>1
  <2> QED BY <1>7, <1>9, <2>1, <2>2 DEF ContextIncreasing, k
<1>11. CASE f[n] = r
  <2>1. ContextAmong(r, s, n)
    BY <1>7, <1>8 DEF ContextAmong
  <2>2. Good(f, n)
    BY <1>8, <1>11, <2>1
  <2> QED BY <1>4, <2>2
<1>12. CASE f[n] = Append(r, t)
  <2>1. /\ Append(r, t) \in Seq(Turns!Turns) /\ Len(r) \in Nat /\ Len(Append(r, t)) = Len(r) + 1
        /\ Append(r, t)[Len(r) + 1] = t /\ \A i \in 1..Len(r) : Append(r, t)[i] = r[i]
    BY LenProperties, AppendProperties
  <2>2. ContextIncreasing(Append(r, t))
    BY <1>8, <1>10, ContextOrderedAppend
  <2>3. ContextAmong(Append(r, t), s, n)
    <3> SUFFICES ASSUME NEW i \in 1..(Len(r) + 1) PROVE \E m \in 1..n : Append(r, t)[i] = s[m]
      BY <2>1 DEF ContextAmong
    <3>1. CASE i = Len(r) + 1
      BY <1>7, <1>9, <2>1, <3>1
    <3>2. CASE i # Len(r) + 1
      <4>1. i \in 1..Len(r)
        BY <2>1, <3>2
      <4> QED BY <1>7, <1>8, <2>1, <4>1 DEF ContextAmong
    <3> QED BY <3>1, <3>2
  <2>4. Good(f, n)
    BY <1>12, <2>1, <2>2, <2>3
  <2> QED BY <1>4, <2>4
<1> QED BY <1>5, <1>7, <1>8, <1>9, <1>11, <1>12

-----------------------------------------------------------------------------
(* Lists of messages *)

LEMMA ContextEntriesAre ==
    ASSUME MaxTurns \in Nat
    PROVE  /\ Turns!Turns \subseteq Nat /\ Turns!Turns \subseteq Turns!Entries
              /\ Turns!Tool \in Turns!Entries /\ Turns!Note \in Turns!Entries
           /\ Turns!Tool \notin Turns!Turns /\ Turns!Note \notin Turns!Turns
              /\ Turns!Tool # Turns!Note
BY DEF Turns!Turns, Turns!Entries, Turns!Tool, Turns!Note

LEMMA ContextTurnsAreEntries ==
    ASSUME MaxTurns \in Nat
    PROVE  Seq(Turns!Turns) \subseteq Seq(Turns!Entries)
BY ContextEntriesAre, SeqMonotonic

LEMMA ContextAppendIs ==
    ASSUME NEW S, NEW list \in Seq(S), NEW x \in S, list # <<>>
    PROVE  /\ Len(list) \in Nat \ {0} /\ Append(list, x) \in Seq(S) /\ Append(list, x) # <<>>
           /\ Len(Append(list, x)) = Len(list) + 1 /\ Append(list, x)[Len(list) + 1] = x
           /\ \A i \in 1..Len(list) : Append(list, x)[i] = list[i]
           /\ Head(Append(list, x)) = Head(list)
<1>1. Len(list) \in Nat /\ Len(list) # 0
  BY LenProperties, EmptySeq
<1>2. /\ Append(list, x) \in Seq(S) /\ Len(Append(list, x)) = Len(list) + 1
      /\ Append(list, x)[Len(list) + 1] = x /\ \A i \in 1..Len(list) : Append(list, x)[i] = list[i]
  BY AppendProperties
<1>3. Append(list, x) # <<>> /\ Head(Append(list, x)) = Head(list)
  BY <1>1, <1>2
<1> QED BY <1>1, <1>2, <1>3

\* One entry more.
LEMMA ContextRequestsAppend ==
    ASSUME NEW S, NEW list \in Seq(S), NEW x \in S, list # <<>>
    PROVE  /\ Turns!LaterRequests(Append(list, x))
              = Turns!LaterRequests(list) \cup ({x} \cap Turns!Turns)
           /\ Turns!Noted(Append(list, x)) <=> Turns!Noted(list) \/ x = Turns!Note
<1> DEFINE q == Append(list, x)
<1>1. /\ Len(list) \in Nat \ {0} /\ q \in Seq(S) /\ Len(q) = Len(list) + 1 /\ q[Len(list) + 1] = x
      /\ \A i \in 1..Len(list) : q[i] = list[i]
      /\ DOMAIN q = 1..(Len(list) + 1) /\ DOMAIN list = 1..Len(list)
  BY ContextAppendIs, LenProperties
<1> HIDE DEF q
<1>2. 2..Len(q) = (2..Len(list)) \cup {Len(list) + 1} /\ \A i \in 2..Len(list) : i \in 1..Len(list)
  BY <1>1
<1>3. {q[i] : i \in 2..Len(q)} = {list[i] : i \in 2..Len(list)} \cup {x}
  BY <1>1, <1>2
<1>4. Turns!LaterRequests(q) = Turns!LaterRequests(list) \cup ({x} \cap Turns!Turns)
  BY <1>3 DEF Turns!LaterRequests
<1>5. Turns!Noted(q) <=> Turns!Noted(list) \/ x = Turns!Note
  <2>1. ASSUME Turns!Noted(q) PROVE Turns!Noted(list) \/ x = Turns!Note
    BY <1>1, <2>1 DEF Turns!Noted
  <2>2. ASSUME Turns!Noted(list) PROVE Turns!Noted(q)
    BY <1>1, <2>2 DEF Turns!Noted
  <2>3. ASSUME x = Turns!Note PROVE Turns!Noted(q)
    BY <1>1, <2>3 DEF Turns!Noted
  <2> QED BY <2>1, <2>2, <2>3
<1> QED BY <1>4, <1>5 DEF q

LEMMA ContextKeepsAll ==
    ASSUME NEW w \in Seq(Turns!Turns), w # <<>>, ContextIncreasing(w), MaxTurns \in Nat
    PROVE  Turns!Keeps(w, w)
<1>1. Len(w) \in Nat
  BY LenProperties
<1>2. \A i, j \in 2..Len(w) : i < j => w[i] < w[j]
  BY <1>1 DEF ContextIncreasing
<1> QED BY <1>2 DEF Turns!Keeps

LEMMA ContextKeepsTurn ==
    ASSUME NEW list \in Seq(Turns!Entries), NEW w \in Seq(Turns!Turns), NEW t \in Turns!Turns,
           MaxTurns \in Nat,
           Turns!Keeps(list, w), \A n \in 1..Len(w) : w[n] < t
    PROVE  Turns!Keeps(Append(list, t), Append(w, t))
<1> DEFINE q == Append(list, t)
           x == Append(w, t)
<1>1. list # <<>> /\ w # <<>> /\ Head(list) = Head(w) /\ t \in Nat /\ t # Turns!Note
      /\ t \in Turns!Entries
  BY ContextEntriesAre DEF Turns!Keeps
<1>2. /\ Len(list) \in Nat \ {0} /\ q # <<>> /\ Len(q) = Len(list) + 1 /\ q[Len(list) + 1] = t
      /\ \A i \in 1..Len(list) : q[i] = list[i]
      /\ Head(q) = Head(list)
  BY <1>1, ContextAppendIs
<1>3. x # <<>> /\ Head(x) = Head(w)
  BY <1>1, ContextAppendIs
<1>4. /\ Turns!LaterRequests(q) = Turns!LaterRequests(list) \cup {t}
         /\ (Turns!Noted(q) <=> Turns!Noted(list))
  BY <1>1, ContextRequestsAppend
<1>5. Turns!LaterRequests(x) = Turns!LaterRequests(w) \cup {t}
  BY <1>1, ContextRequestsAppend
<1> HIDE DEF q, x
<1>6. \A u \in Turns!LaterRequests(w) : u \in Nat /\ u < t
  <2>1. Len(w) \in Nat
    BY LenProperties
  <2>2. \A i \in 2..Len(w) : i \in 1..Len(w)
    BY <2>1
  <2> QED BY <2>2, ContextEntriesAre DEF Turns!LaterRequests
<1>7. ASSUME NEW i \in 2..Len(q), NEW j \in 2..Len(q), i < j, q[i] \in Turns!Turns,
             q[j] \in Turns!Turns
      PROVE  q[i] < q[j]
  <2>1. i \in 2..Len(list) /\ q[i] = list[i]
        /\ (j = Len(list) + 1 \/ (j \in 2..Len(list) /\ q[j] = list[j]))
    BY <1>2, <1>7
  <2>2. CASE j = Len(list) + 1
    <3>1. list[i] \in Turns!LaterRequests(list)
      BY <1>7, <2>1 DEF Turns!LaterRequests
    <3>2. list[i] \in Turns!LaterRequests(w)
      BY <3>1 DEF Turns!Keeps
    <3> QED BY <1>2, <1>6, <2>1, <2>2, <3>2
  <2>3. CASE j \in 2..Len(list) /\ q[j] = list[j]
    BY <1>7, <2>1, <2>3 DEF Turns!Keeps
  <2> QED BY <2>1, <2>2, <2>3
<1>8. ASSUME NEW u \in Turns!LaterRequests(x), ~Turns!Noted(q)
             \/ \E v \in Turns!LaterRequests(q) : v <= u
      PROVE  u \in Turns!LaterRequests(q)
  <2>1. CASE u = t
    BY <1>4, <2>1
  <2>2. CASE u # t
    <3>1. u \in Turns!LaterRequests(w) /\ u \in Nat /\ u < t
      BY <1>5, <1>6, <2>2
    <3>2. ~Turns!Noted(list) \/ \E v \in Turns!LaterRequests(list) : v <= u
      <4>1. ~(t <= u)
        BY <1>1, <3>1
      <4> QED BY <1>4, <1>8, <4>1
    <3>3. u \in Turns!LaterRequests(list)
      BY <3>1, <3>2 DEF Turns!Keeps
    <3> QED BY <1>4, <3>3
  <2> QED BY <2>1, <2>2
<1>9. Turns!LaterRequests(q) \subseteq Turns!LaterRequests(x)
  BY <1>4, <1>5 DEF Turns!Keeps
<1>10. Turns!Keeps(q, x)
  BY <1>1, <1>2, <1>3, <1>7, <1>8, <1>9 DEF Turns!Keeps
<1> QED BY <1>10 DEF q, x

LEMMA ContextKeepsTool ==
    ASSUME NEW list \in Seq(Turns!Entries), NEW w, MaxTurns \in Nat, Turns!Keeps(list, w)
    PROVE  Turns!Keeps(Append(list, Turns!Tool), w)
<1> DEFINE q == Append(list, Turns!Tool)
<1>1. list # <<>> /\ Turns!Tool \in Turns!Entries /\ Turns!Tool \notin Turns!Turns
      /\ Turns!Tool # Turns!Note
  BY ContextEntriesAre DEF Turns!Keeps
<1>2. /\ Len(list) \in Nat \ {0} /\ q # <<>> /\ Len(q) = Len(list) + 1
         /\ q[Len(list) + 1] = Turns!Tool
      /\ \A i \in 1..Len(list) : q[i] = list[i]
      /\ Head(q) = Head(list)
  BY <1>1, ContextAppendIs
<1>3. Turns!LaterRequests(q) = Turns!LaterRequests(list) /\ (Turns!Noted(q) <=> Turns!Noted(list))
  <2>1. Turns!LaterRequests(q) = Turns!LaterRequests(list) \cup ({Turns!Tool} \cap Turns!Turns)
        /\ (Turns!Noted(q) <=> Turns!Noted(list) \/ Turns!Tool = Turns!Note)
    BY <1>1, ContextRequestsAppend
  <2> QED BY <1>1, <2>1
<1> HIDE DEF q
<1>4. ASSUME NEW i \in 2..Len(q), NEW j \in 2..Len(q), i < j, q[i] \in Turns!Turns,
             q[j] \in Turns!Turns
      PROVE  q[i] < q[j]
  <2>1. i \in 2..Len(list) /\ q[i] = list[i] /\ j \in 2..Len(list) /\ q[j] = list[j]
    BY <1>1, <1>2, <1>4
  <2> QED BY <1>4, <2>1 DEF Turns!Keeps
<1>5. Turns!Keeps(q, w)
  BY <1>2, <1>3, <1>4 DEF Turns!Keeps
<1> QED BY <1>5 DEF q

\* What a compaction leaves.
LEMMA ContextCompactedIs ==
    ASSUME NEW list \in Seq(Turns!Entries), MaxTurns \in Nat, NEW k \in 3..(Len(list) - 1)
    PROVE  LET q == <<Head(list), Turns!Note>> \o SubSeq(list, k, Len(list)) IN
           /\ Len(list) \in Nat /\ q \in Seq(Turns!Entries) /\ q # <<>> /\ Head(q) = Head(list)
              /\ q[2] = Turns!Note
           /\ Len(q) = Len(list) - k + 3 /\ DOMAIN q = 1..Len(q)
           /\ \A i \in 3..Len(q) : q[i] = list[i + k - 3] /\ i + k - 3 \in k..Len(list)
           /\ \A i \in k..Len(list) : list[i] = q[i - k + 3] /\ i - k + 3 \in 3..Len(q)
<1> DEFINE a == <<Head(list), Turns!Note>>
           b == SubSeq(list, k, Len(list))
           q == a \o b
<1>1. Len(list) \in Nat /\ \A i \in 1..Len(list) : list[i] \in Turns!Entries
  BY LenProperties, ElementOfSeq
<1>2. k \in Nat /\ 3 <= k /\ k <= Len(list) - 1
  BY <1>1
<1>3. Head(list) \in Turns!Entries /\ Turns!Note \in Turns!Entries
  BY <1>1, <1>2, ContextEntriesAre
<1>4. a \in Seq(Turns!Entries) /\ Len(a) = 2 /\ a[1] = Head(list) /\ a[2] = Turns!Note
  BY <1>3
<1>5. /\ b \in Seq(Turns!Entries) /\ Len(b) = Len(list) - k + 1
      /\ \A i \in 1..(Len(list) - k + 1) : b[i] = list[k + i - 1]
  BY <1>1, <1>2
<1> HIDE DEF a, b
<1>6. q \in Seq(Turns!Entries) /\ Len(q) = Len(a) + Len(b)
      /\ \A i \in 1..(Len(a) + Len(b)) : q[i] = IF i <= Len(a) THEN a[i] ELSE b[i - Len(a)]
  BY <1>4, <1>5, ConcatProperties, Zenon
<1>7. Len(q) = 2 + Len(b) /\ \A i \in 1..Len(q) : q[i] = IF i <= 2 THEN a[i] ELSE b[i - 2]
  <2> HIDE DEF q
  <2> QED BY <1>4, <1>6
<1> HIDE DEF q
<1>8. Len(q) = Len(list) - k + 3 /\ Len(q) \in Nat /\ DOMAIN q = 1..Len(q) /\ Len(q) >= 4
  BY <1>1, <1>2, <1>5, <1>6, <1>7, LenProperties
<1>9. q[1] = Head(list) /\ q[2] = Turns!Note /\ q # <<>> /\ Head(q) = q[1]
  BY <1>4, <1>6, <1>7, <1>8
<1>10. ASSUME NEW i \in 3..Len(q) PROVE q[i] = list[i + k - 3] /\ i + k - 3 \in k..Len(list)
  <2>1. i - 2 \in 1..(Len(list) - k + 1) /\ i \in 1..Len(q) /\ ~(i <= 2)
        /\ k + (i - 2) - 1 = i + k - 3
        /\ i + k - 3 \in k..Len(list)
    BY <1>1, <1>2, <1>8
  <2>2. q[i] = b[i - 2] /\ b[i - 2] = list[k + (i - 2) - 1]
    BY <1>5, <1>7, <2>1
  <2> QED BY <2>1, <2>2
<1>11. ASSUME NEW i \in k..Len(list) PROVE list[i] = q[i - k + 3] /\ i - k + 3 \in 3..Len(q)
  <2>1. i - k + 3 \in 3..Len(q) /\ (i - k + 3) + k - 3 = i
    BY <1>1, <1>2, <1>8
  <2>2. q[i - k + 3] = list[(i - k + 3) + k - 3]
    BY <1>10, <2>1
  <2> QED BY <2>1, <2>2
<1> QED BY <1>1, <1>6, <1>8, <1>9, <1>10, <1>11 DEF q, a, b

LEMMA ContextKeepsCompacted ==
    ASSUME NEW list \in Seq(Turns!Entries), MaxTurns \in Nat, NEW w \in Seq(Turns!Turns),
           Turns!Keeps(list, w),
           NEW q \in Turns!Compacted(list)
    PROVE  q \in Seq(Turns!Entries) /\ Turns!Keeps(q, w)
<1>1. PICK k \in 3..(Len(list) - 1) : q = <<Head(list), Turns!Note>> \o SubSeq(list, k, Len(list))
  BY DEF Turns!Compacted
<1>2. /\ Len(list) \in Nat /\ q \in Seq(Turns!Entries) /\ q # <<>> /\ Head(q) = Head(list)
         /\ q[2] = Turns!Note
      /\ Len(q) = Len(list) - k + 3 /\ DOMAIN q = 1..Len(q)
      /\ \A i \in 3..Len(q) : q[i] = list[i + k - 3] /\ i + k - 3 \in k..Len(list)
      /\ \A i \in k..Len(list) : list[i] = q[i - k + 3] /\ i - k + 3 \in 3..Len(q)
  BY <1>1, ContextCompactedIs
<1>3. k \in Nat /\ 3 <= k /\ k <= Len(list) - 1 /\ Len(q) \in Nat /\ 4 <= Len(q)
  BY <1>2
<1>4. Turns!Note \notin Turns!Turns /\ Turns!Turns \subseteq Nat
  BY ContextEntriesAre
<1>5. Turns!Noted(q)
  <2>1. 2 \in DOMAIN q /\ q[2] = Turns!Note
    BY <1>2, <1>3
  <2> QED BY <2>1 DEF Turns!Noted
\* every request of what is left is one of the list, from k on
<1>6. ASSUME NEW i \in 2..Len(q), q[i] \in Turns!Turns
      PROVE  i \in 3..Len(q) /\ i + k - 3 \in k..Len(list) /\ i + k - 3 \in 2..Len(list)
             /\ q[i] = list[i + k - 3]
  <2>1. i # 2
    BY <1>2, <1>4, <1>6
  <2>2. i \in 3..Len(q)
    BY <1>3, <2>1
  <2>3. i + k - 3 \in k..Len(list) /\ q[i] = list[i + k - 3]
    BY <1>2, <2>2
  <2>4. i + k - 3 \in 2..Len(list)
    BY <1>2, <1>3, <2>2, <2>3
  <2> QED BY <2>2, <2>3, <2>4
<1>7. Turns!LaterRequests(q) \subseteq Turns!LaterRequests(list)
  BY <1>6 DEF Turns!LaterRequests
<1>8. ASSUME NEW i \in 2..Len(q), NEW j \in 2..Len(q), i < j, q[i] \in Turns!Turns,
             q[j] \in Turns!Turns
      PROVE  q[i] < q[j]
  <2>1. PICK m \in 2..Len(list) : m = i + k - 3 /\ q[i] = list[m]
    BY <1>6, <1>8
  <2>2. PICK n \in 2..Len(list) : n = j + k - 3 /\ q[j] = list[n]
    BY <1>6, <1>8
  <2>3. m < n
    BY <1>3, <1>8, <2>1, <2>2
  <2> QED BY <1>8, <2>1, <2>2, <2>3 DEF Turns!Keeps
<1>9. ASSUME NEW u \in Turns!LaterRequests(w), NEW v \in Turns!LaterRequests(q), v <= u
      PROVE  u \in Turns!LaterRequests(q)
  <2>1. v \in Turns!LaterRequests(list) /\ u \in Turns!Turns /\ v \in Turns!Turns
    BY <1>7, <1>9 DEF Turns!LaterRequests
  <2>2. u \in Turns!LaterRequests(list)
    BY <1>9, <2>1 DEF Turns!Keeps
  <2>3. PICK j \in 2..Len(list) : list[j] = u
    BY <2>2 DEF Turns!LaterRequests
  <2>4. PICK i \in 2..Len(q) : q[i] = v
    BY <1>9 DEF Turns!LaterRequests
  <2>5. PICK m \in k..Len(list) : m \in 2..Len(list) /\ list[m] = v
    BY <1>6, <2>1, <2>4
  <2>6. ~(j < m)
    <3>1. ASSUME j < m PROVE u < v
      BY <2>1, <2>3, <2>5, <3>1 DEF Turns!Keeps
    <3> QED BY <1>4, <1>9, <2>1, <3>1
  <2>7. j \in k..Len(list)
    BY <1>2, <1>3, <2>3, <2>5, <2>6
  <2>8. PICK n \in 3..Len(q) : q[n] = u
    BY <1>2, <2>3, <2>7
  <2>9. n \in 2..Len(q)
    BY <1>3, <2>8
  <2> QED BY <2>1, <2>8, <2>9 DEF Turns!LaterRequests
<1>10. w # <<>> /\ Head(list) = Head(w)
       /\ Turns!LaterRequests(list) \subseteq Turns!LaterRequests(w)
  BY DEF Turns!Keeps
<1> QED BY <1>2, <1>5, <1>7, <1>8, <1>9, <1>10 DEF Turns!Keeps

LEMMA ContextKeepsReads ==
    ASSUME NEW list \in Seq(Turns!Entries), MaxTurns \in Nat, NEW w \in Seq(Turns!Turns),
           Turns!Keeps(list, w),
           NEW f, NEW q \in Turns!Reads(f, list)
    PROVE  q \in Seq(Turns!Entries) /\ Turns!Keeps(q, w) /\ q # <<>>
<1>1. q = list \/ q \in Turns!Compacted(list)
  BY DEF Turns!Reads
<1>2. q \in Seq(Turns!Entries) /\ Turns!Keeps(q, w)
  BY <1>1, ContextKeepsCompacted
<1> QED BY <1>2 DEF Turns!Keeps

-----------------------------------------------------------------------------
(* Whose turn it is *)

LEMMA ContextShapes ==
    ASSUME Turns!ContextTypes, Turns!TurnBound
    PROVE  /\ MaxTurns \in Nat
           /\ \A c \in Conversations : /\ accepted[c] \in Seq(Turns!Turns)
                                          /\ Len(accepted[c]) \in Nat
                                       /\ DOMAIN accepted[c] = 1..Len(accepted[c])
                                       /\ \A n \in DOMAIN accepted[c] :
                                           accepted[c][n] \in Turns!Turns
                                       /\ turns_row[c] \in Turns!Rows
           /\ \A t \in Turns!Turns : /\ t \in 1..MaxTurns /\ thread[t] \in Turns!Threads
                                     /\ fallback[t] \in BOOLEAN /\ lease[t] \in BOOLEAN
                                         /\ context[t] \in Seq(Turns!Entries)
<1>1. \A c \in Conversations : accepted[c] \in Seq(Turns!Turns)
  BY DEF Turns!ContextTypes
<1>2. ASSUME NEW c \in Conversations
      PROVE  /\ Len(accepted[c]) \in Nat /\ DOMAIN accepted[c] = 1..Len(accepted[c])
             /\ \A n \in DOMAIN accepted[c] : accepted[c][n] \in Turns!Turns
  BY <1>1, LenProperties, ElementOfSeq
<1> QED BY <1>1, <1>2 DEF Turns!ContextTypes, Turns!TurnBound, Turns!Turns

LEMMA ContextLastTurn ==
    ASSUME Turns!ContextTypes, Turns!TurnBound, NEW c \in Conversations, accepted[c] # <<>>
    PROVE  /\ Len(accepted[c]) \in DOMAIN accepted[c] /\ Len(accepted[c]) \in Nat
           /\ Turns!LastOf(c) = accepted[c][Len(accepted[c])] /\ Turns!LastOf(c) \in Turns!Turns
           /\ Turns!LastOf(c) = Turns!Last(accepted[c])
<1>1. accepted[c] \in Seq(Turns!Turns) /\ DOMAIN accepted[c] = 1..Len(accepted[c])
  BY ContextShapes
<1> QED BY <1>1, ContextLastShape DEF Turns!LastOf

ContextMoves(t) == turns_at[t] # "off" \/ status[t] = "interrupted"

LEMMA ContextConversationIs ==
    ASSUME Turns!ContextTypes, Turns!TurnBound, Turns!Numbered, NEW c \in Conversations,
           NEW n \in DOMAIN accepted[c],
           NEW t, accepted[c][n] = t
    PROVE  Turns!Conversation(t) = c
<1>1. \A d \in Conversations : Turns!Contains(accepted[d], t)
      <=> \E m \in DOMAIN accepted[d] : accepted[d][m] = t
  BY ContextShapes DEF Turns!Contains
<1>2. \A d \in Conversations : Turns!Contains(accepted[d], t) <=> d = c
  BY <1>1 DEF Turns!Numbered
<1> QED BY <1>2 DEF Turns!Conversation

\* The turn is the last of this conversation, and bound to its thread.
ContextOwns(c, t) ==
    /\ Turns!Conversation(t) = c /\ accepted[c] # <<>> /\ Turns!LastOf(c) = t
    /\ thread[t] = turns_row[c].thread /\ turns_row[c].thread \in Turns!Threads
    /\ Turns!Mode(t) = turns_row[c].mode /\ turns_row[c].mode \in Turns!Modes

\* A turn that still moves is the last of its conversation.
LEMMA ContextMovesLast ==
    ASSUME Turns!ContextInv, Turns!TurnBound, NEW t \in Turns!Turns, ContextMoves(t)
    PROVE  \E c \in Conversations : ContextOwns(c, t)
<1>1. status[t] # "none" /\ lease[t]
  BY DEF Turns!ContextInv, Turns!StageSound, Turns!Entered, ContextMoves
<1>2. PICK c \in Conversations : \E n \in DOMAIN accepted[c] : accepted[c][n] = t
  BY <1>1 DEF Turns!ContextInv, Turns!Numbered
<1>3. /\ Len(accepted[c]) \in DOMAIN accepted[c] /\ accepted[c] # <<>>
      /\ accepted[c][Len(accepted[c])] = t
  <2> PICK n \in DOMAIN accepted[c] : accepted[c][n] = t
    BY <1>2
  <2>1. n \in 1..Len(accepted[c]) /\ Len(accepted[c]) \in Nat
    BY ContextShapes DEF Turns!ContextInv
  <2>2. ~(n < Len(accepted[c]))
    BY <1>1 DEF Turns!ContextInv, Turns!OnlyLastMoves, Turns!Settled
  <2> QED BY <2>1, <2>2
<1>4. Turns!LastOf(c) = t
  BY <1>3, ContextLastTurn DEF Turns!ContextInv
<1>5. Turns!Conversation(t) = c
  BY <1>3, ContextConversationIs DEF Turns!ContextInv
<1>6. turns_row[c] \in Turns!Rows
  BY ContextShapes DEF Turns!ContextInv
<1>7. Turns!ThreadSound(c)
  BY DEF Turns!ContextInv
<1>8. turns_row[c].thread \in Turns!Threads /\ turns_row[c].mode \in Turns!Modes \cup {"none"}
  BY <1>6 DEF Turns!Rows
<1> QED BY <1>3, <1>4, <1>5, <1>7, <1>8 DEF Turns!ThreadSound, Turns!Mode, ContextOwns

\* What is read before a turn that has not completed is read after it.
LEMMA ContextBeforeLast ==
    ASSUME Turns!ContextTypes, Turns!TurnBound, NEW c \in Conversations, accepted[c] # <<>>
    PROVE  Turns!Completed(accepted[c], status)
             = IF status[Turns!LastOf(c)] = "completed"
               THEN Append(Turns!Completed(Turns!Earlier(c, Len(accepted[c])), status),
                   Turns!LastOf(c))
               ELSE Turns!Completed(Turns!Earlier(c, Len(accepted[c])), status)
<1>1. accepted[c] \in Seq(Turns!Turns) /\ Turns!LastOf(c) = Turns!Last(accepted[c])
  BY ContextShapes, ContextLastTurn
<1> QED BY <1>1, ContextCompletedLast DEF Turns!Earlier

-----------------------------------------------------------------------------
(* A step of one operation *)

\* All but turn t, conversation c and its present thread is as it was.
ContextTouches(t, c) ==
    /\ turns_row' = turns_row /\ accepted' = accepted /\ thread' = thread
    /\ \A u \in Turns!Turns \ {t} : /\ status'[u] = status[u] /\ lease'[u] = lease[u]
                                       /\ turns_at'[u] = turns_at[u]
                                    /\ fallback'[u] = fallback[u] /\ outcome'[u] = outcome[u]
                                    /\ context'[u] = context[u]
    /\ \A f \in Turns!Files, d \in Conversations, n \in Turns!Threads :
            d # c \/ n # turns_row[c].thread => checkpoint'[f][d][n] = checkpoint[f][d][n]

\* What a step must see to of its own turn.
ContextOwnTurn(t, c) ==
    /\ status'[t] # "none" /\ Turns!StageSound(t)'
    /\ context'[t] # <<>> =>
            Turns!Keeps(context'[t],
                Append(Turns!Completed(Turns!Earlier(c, Len(accepted[c])), status), t))
    /\ Turns!MayContinue(t)' =>
         /\ \A f \in Turns!Files \ {turns_row[c].mode} : Turns!Fresh(f, c, turns_row[c].thread)'
         /\ turns_row[c].mode \in Turns!Files =>
                Turns!Reached(t, checkpoint[turns_row[c].mode][c][turns_row[c].thread],
                    Turns!Completed(accepted[c], status))'

LEMMA ContextThreadStays ==
    ASSUME Turns!ContextInv, Turns!TurnBound, NEW d \in Conversations,
           turns_row'[d] = turns_row[d], accepted'[d] = accepted[d],
           \A n \in DOMAIN accepted[d] :
              LET u == accepted[d][n] IN
              /\ thread'[u] = thread[u] /\ status'[u] = status[u] /\ turns_at'[u] = turns_at[u]
                 /\ fallback'[u] = fallback[u]
              /\ outcome'[u] = outcome[u] /\ context'[u] = context[u],
           \A f \in Turns!Files, n \in Turns!Threads : checkpoint'[f][d][n] = checkpoint[f][d][n]
    PROVE  Turns!ThreadSound(d)'
<1>1. Turns!ThreadSound(d) /\ turns_row[d] \in Turns!Rows /\ turns_row[d].thread \in Turns!Threads
  BY ContextShapes DEF Turns!ContextInv, Turns!Rows
<1>2. \A f \in Turns!Files, n \in Turns!Threads : Turns!Fresh(f, d, n)' <=> Turns!Fresh(f, d, n)
  BY DEF Turns!Fresh
<1>3. CASE accepted[d] = <<>>
  BY <1>1, <1>2, <1>3 DEF Turns!ThreadSound
<1>4. CASE accepted[d] # <<>>
  <2>1. Turns!LastOf(d)' = Turns!LastOf(d) /\ Turns!LastOf(d) \in Turns!Turns
        /\ \E n \in DOMAIN accepted[d] : Turns!LastOf(d) = accepted[d][n]
    BY <1>4, ContextLastTurn DEF Turns!ContextInv, Turns!LastOf
  <2>2. PICK l \in Turns!Turns : l = Turns!LastOf(d)
    BY <2>1
  <2>3. /\ thread'[l] = thread[l] /\ status'[l] = status[l] /\ turns_at'[l] = turns_at[l]
           /\ fallback'[l] = fallback[l]
        /\ outcome'[l] = outcome[l] /\ context'[l] = context[l]
    BY <2>1, <2>2
  <2>4. Turns!MayContinue(l)' <=> Turns!MayContinue(l)
    BY <2>3 DEF Turns!MayContinue, Turns!Continues
  <2>5. Turns!Completed(accepted[d], status') = Turns!Completed(accepted[d], status)
    <3>1. accepted[d] \in Seq(Turns!Turns) /\ DOMAIN accepted[d] = 1..Len(accepted[d])
      BY ContextShapes DEF Turns!ContextInv
    <3>2. \A n \in 1..Len(accepted[d]) :
             status[accepted[d][n]] = "completed" <=> status'[accepted[d][n]] = "completed"
      BY <3>1
    <3> PICK st, st2 : st = status /\ st2 = status'
      OBVIOUS
    <3>3. PICK s \in Seq(Turns!Turns) : s = accepted[d]
      BY <3>1
    <3>4. ContextAgree(s, Len(s), st, st2)
      BY <3>2, <3>3 DEF ContextAgree
    <3>5. Turns!Completed(s, st) = Turns!Completed(s, st2)
      BY <3>4, ContextCompletedSame
    <3> QED BY <3>3, <3>5
  <2>6. ASSUME turns_row[d].mode \in Turns!Files
        PROVE  Turns!Reached(l, checkpoint[turns_row[d].mode][d][turns_row[d].thread],
            Turns!Completed(accepted[d], status))'
               <=> Turns!Reached(l, checkpoint[turns_row[d].mode][d][turns_row[d].thread],
                   Turns!Completed(accepted[d], status))
    <3>1. checkpoint'[turns_row[d].mode][d][turns_row[d].thread]
          = checkpoint[turns_row[d].mode][d][turns_row[d].thread]
      BY <1>1, <2>6
    <3> QED BY <2>3, <2>5, <3>1 DEF Turns!Reached, Turns!Answered
  <2> QED BY <1>1, <1>2, <1>4, <2>1, <2>2, <2>3, <2>4, <2>6 DEF Turns!ThreadSound
<1> QED BY <1>3, <1>4

LEMMA ContextTurnStep ==
    ASSUME Turns!ContextInv, Turns!ContextTypes', Turns!TurnBound, NEW t \in Turns!Turns,
           NEW c \in Conversations,
           accepted[c] # <<>>, Turns!LastOf(c) = t, status[t] # "none",
           ContextTouches(t, c), ContextOwnTurn(t, c)
    PROVE  Turns!ContextInv'
<1>1. /\ accepted[c] \in Seq(Turns!Turns) /\ DOMAIN accepted[c] = 1..Len(accepted[c])
      /\ Len(accepted[c]) \in DOMAIN accepted[c] /\ accepted[c][Len(accepted[c])] = t
      /\ Len(accepted[c]) \in Nat /\ Turns!LastOf(c)' = t
  BY ContextShapes, ContextLastTurn DEF Turns!ContextInv, ContextTouches, Turns!LastOf
<1>2. \A u \in Turns!Turns : status'[u] # "none" <=> status[u] # "none"
  BY DEF ContextTouches, ContextOwnTurn
<1>3. Turns!Numbered'
  <2>1. turns_row' = turns_row /\ accepted' = accepted
    BY DEF ContextTouches
  <2> QED BY <1>2, <2>1 DEF Turns!ContextInv, Turns!Numbered
<1>4. \A d \in Conversations : \A n \in DOMAIN accepted[d] :
         (d # c \/ n # Len(accepted[c])) => accepted[d][n] \in Turns!Turns \ {t}
  <2> TAKE d \in Conversations
  <2> TAKE n \in DOMAIN accepted[d]
  <2> HAVE d # c \/ n # Len(accepted[c])
  <2>1. accepted[d][n] \in Turns!Turns /\ DOMAIN accepted[d] = 1..Len(accepted[d])
        /\ Len(accepted[d]) \in Nat
    BY ContextShapes DEF Turns!ContextInv
  <2>2. CASE d # c
    BY <1>1, <2>1, <2>2 DEF Turns!ContextInv, Turns!Numbered
  <2>3. CASE d = c
    <3>1. n < Len(accepted[c])
      BY <2>1, <2>3
    <3>2. accepted[c][n] < t
      BY <1>1, <2>3, <3>1 DEF Turns!ContextInv, Turns!Numbered
    <3> QED BY <2>1, <2>3, <3>2 DEF Turns!Turns
  <2> QED BY <2>2, <2>3
<1>5. Turns!OnlyLastMoves'
  <2> SUFFICES ASSUME NEW d \in Conversations, NEW n \in DOMAIN accepted[d], n < Len(accepted[d])
               PROVE  Turns!Settled(accepted[d][n])'
    BY DEF Turns!OnlyLastMoves, ContextTouches
  <2>1. accepted[d][n] \in Turns!Turns \ {t}
    BY <1>4
  <2>2. PICK u \in Turns!Turns \ {t} : u = accepted[d][n]
    BY <2>1
  <2>3. Turns!Settled(u)
    BY <2>2 DEF Turns!ContextInv, Turns!OnlyLastMoves
  <2>4. Turns!Settled(u)'
    BY <2>3 DEF Turns!Settled, ContextTouches
  <2>5. accepted' = accepted
    BY DEF ContextTouches
  <2> QED BY <2>2, <2>4, <2>5
<1>6. Turns!ContextIsHistory'
  <2> SUFFICES ASSUME NEW d \in Conversations, NEW n \in DOMAIN accepted[d]
               PROVE  LET u == accepted[d][n] IN
                      context'[u] # <<>>
                          => Turns!Keeps(context'[u],
                              Append(Turns!Completed(Turns!Earlier(d, n), status'), u))
    BY DEF Turns!ContextIsHistory, ContextTouches, Turns!Earlier
  <2>1. /\ accepted[d] \in Seq(Turns!Turns) /\ DOMAIN accepted[d] = 1..Len(accepted[d])
        /\ Len(accepted[d]) \in Nat
    BY ContextShapes DEF Turns!ContextInv
  <2>2. \A i \in 1..(n - 1) : accepted[d][i] \in Turns!Turns \ {t}
    BY <1>4, <2>1
  <2>3. Turns!Completed(Turns!Earlier(d, n), status') = Turns!Completed(Turns!Earlier(d, n), status)
    <3> PICK st, st2 : st = status /\ st2 = status'
      OBVIOUS
    <3>1. PICK r \in Seq(Turns!Turns) : r = accepted[d] /\ n \in 1..Len(r)
      BY <2>1
    <3>2. ContextAgree(r, n - 1, st, st2)
      BY <2>2, <3>1 DEF ContextTouches, ContextAgree
    <3>3. Turns!Completed(SubSeq(r, 1, n - 1), st) = Turns!Completed(SubSeq(r, 1, n - 1), st2)
      BY <3>1, <3>2, ContextPrefixSame
    <3> QED BY <3>1, <3>3 DEF Turns!Earlier
  <2>4. CASE d = c /\ n = Len(accepted[c])
    BY <1>1, <2>3, <2>4 DEF ContextOwnTurn
  <2>5. CASE d # c \/ n # Len(accepted[c])
    BY <1>4, <2>3, <2>5 DEF Turns!ContextInv, Turns!ContextIsHistory, ContextTouches
  <2> QED BY <2>4, <2>5
<1>7. \A u \in Turns!Turns : Turns!StageSound(u)'
  <2> TAKE u \in Turns!Turns
  <2>1. CASE u = t
    BY <2>1 DEF ContextOwnTurn
  <2>2. CASE u # t
    BY <2>2 DEF Turns!ContextInv, Turns!StageSound, Turns!Entered, ContextTouches
  <2> QED BY <2>1, <2>2
<1>8. ASSUME NEW d \in Conversations PROVE Turns!ThreadSound(d)'
  <2>1. CASE d # c
    BY <1>4, <2>1, ContextThreadStays DEF ContextTouches
  <2>2. CASE d = c
    <3>1. Turns!ThreadSound(c) /\ turns_row[c].thread \in Turns!Threads
      BY ContextShapes DEF Turns!ContextInv, Turns!Rows
    <3>2. \A f \in Turns!Files, n \in Turns!Threads : turns_row[c].thread < n
          => (Turns!Fresh(f, c, n) => Turns!Fresh(f, c, n)')
      <4> TAKE f \in Turns!Files, n \in Turns!Threads
      <4> HAVE turns_row[c].thread < n
      <4>1. n # turns_row[c].thread
        BY <3>1, Turns!TurnBound DEF Turns!Threads, Turns!TurnBound
      <4> QED BY <4>1 DEF Turns!Fresh, ContextTouches
    <3>3. turns_row' = turns_row /\ accepted' = accepted /\ thread' = thread
      BY DEF ContextTouches
    <3> QED BY <1>1, <2>2, <3>1, <3>2, <3>3 DEF Turns!ThreadSound, ContextOwnTurn
  <2> QED BY <2>1, <2>2
<1> QED BY <1>3, <1>5, <1>6, <1>7, <1>8 DEF Turns!ContextInv

LEMMA ContextOwnFacts ==
    ASSUME Turns!ContextInv, Turns!TurnBound, NEW t \in Turns!Turns, NEW c \in Conversations,
           ContextOwns(c, t)
    PROVE  /\ Turns!StageSound(t) /\ accepted[c] \in Seq(Turns!Turns)
              /\ Turns!Completed(accepted[c], status) \in Seq(Turns!Turns)
           /\ context[t] # <<>> =>
                  Turns!Keeps(context[t],
                      Append(Turns!Completed(Turns!Earlier(c, Len(accepted[c])), status), t))
           /\ status[t] # "completed" =>
                  Turns!Completed(Turns!Earlier(c, Len(accepted[c])), status)
                      = Turns!Completed(accepted[c], status)
           /\ Turns!MayContinue(t) =>
                /\ \A f \in Turns!Files \ {turns_row[c].mode} :
                   Turns!Fresh(f, c, turns_row[c].thread)
                /\ turns_row[c].mode \in Turns!Files =>
                      Turns!Reached(t, checkpoint[turns_row[c].mode][c][turns_row[c].thread],
                          Turns!Completed(accepted[c], status))
<1>1. /\ accepted[c] \in Seq(Turns!Turns) /\ Len(accepted[c]) \in DOMAIN accepted[c]
      /\ accepted[c][Len(accepted[c])] = t
  BY ContextShapes, ContextLastTurn DEF Turns!ContextInv, ContextOwns
<1>2. Turns!Completed(accepted[c], status) \in Seq(Turns!Turns)
  BY <1>1, ContextCompletedType
<1>3. context[t] # <<>>
      => Turns!Keeps(context[t],
          Append(Turns!Completed(Turns!Earlier(c, Len(accepted[c])), status), t))
  BY <1>1 DEF Turns!ContextInv, Turns!ContextIsHistory
<1>4. status[t] # "completed" =>
          Turns!Completed(Turns!Earlier(c, Len(accepted[c])), status)
              = Turns!Completed(accepted[c], status)
  BY ContextBeforeLast DEF Turns!ContextInv, ContextOwns
<1>5. Turns!StageSound(t) /\ Turns!ThreadSound(c)
  BY DEF Turns!ContextInv
<1> QED BY <1>1, <1>2, <1>3, <1>4, <1>5 DEF Turns!ThreadSound, ContextOwns

\* The completed turns before the last one, with and without it.
LEMMA ContextWholeIs ==
    ASSUME Turns!ContextInv, Turns!TurnBound, NEW t \in Turns!Turns, NEW c \in Conversations,
           ContextOwns(c, t)
    PROVE  \E w \in Seq(Turns!Turns) :
             /\ w = Turns!Completed(Turns!Earlier(c, Len(accepted[c])), status)
             /\ \A n \in 1..Len(w) : w[n] < t
             /\ ContextIncreasing(w) /\ Append(w, t) \in Seq(Turns!Turns)
             /\ Append(w, t) # <<>> /\ Turns!Keeps(Append(w, t), Append(w, t))
<1>1. /\ MaxTurns \in Nat /\ accepted[c] \in Seq(Turns!Turns) /\ Len(accepted[c]) \in Nat
      /\ Len(accepted[c]) \in DOMAIN accepted[c] /\ DOMAIN accepted[c] = 1..Len(accepted[c])
      /\ accepted[c][Len(accepted[c])] = t
  BY ContextShapes, ContextLastTurn DEF Turns!ContextInv, ContextOwns
<1>2. \A m, n \in DOMAIN accepted[c] : m < n => accepted[c][m] < accepted[c][n]
  BY DEF Turns!ContextInv, Turns!Numbered
<1>3. PICK s \in Seq(Turns!Turns) : s = Turns!Earlier(c, Len(accepted[c]))
  BY <1>1, ContextPrefixShape DEF Turns!Earlier
<1>4. PICK k \in Nat : k = Len(s) /\ k = Len(accepted[c]) - 1
  BY <1>1, <1>3, ContextPrefixShape DEF Turns!Earlier
<1>5. \A i \in 1..k : s[i] = accepted[c][i] /\ i \in DOMAIN accepted[c] /\ i < Len(accepted[c])
  BY <1>1, <1>3, <1>4, ContextPrefixShape DEF Turns!Earlier
<1>6. ContextIncreasing(s) /\ \A i \in 1..k : s[i] < t
  <2>1. \A i \in 1..k : s[i] < t
    BY <1>1, <1>2, <1>5
  <2>2. \A i, j \in 1..k : i < j => s[i] < s[j]
    BY <1>2, <1>5
  <2> QED BY <1>4, <2>1, <2>2 DEF ContextIncreasing
<1>7. PICK w \in Seq(Turns!Turns) : w = Turns!Completed(s, status)
  BY ContextCompletedType
<1>8. ContextIncreasing(w) /\ ContextAmong(w, s, k)
  BY <1>1, <1>4, <1>6, <1>7, ContextCompletedOrdered
<1>9. \A n \in 1..Len(w) : w[n] < t
  BY <1>6, <1>8 DEF ContextAmong
<1>10. PICK q \in Seq(Turns!Turns) : q = Append(w, t) /\ q # <<>>
  BY AppendProperties
<1>11. ContextIncreasing(q)
  BY <1>1, <1>8, <1>9, <1>10, ContextOrderedAppend
<1>12. Turns!Keeps(q, q)
  BY <1>1, <1>10, <1>11, ContextKeepsAll
<1> QED BY <1>3, <1>7, <1>8, <1>9, <1>10, <1>12

LEMMA ContextOwnStep ==
    ASSUME Turns!ContextInv, Turns!ContextTypes', Turns!TurnBound, NEW t \in Turns!Turns,
           NEW c \in Conversations, ContextOwns(c, t),
           status[t] # "none", ContextTouches(t, c), ContextOwnTurn(t, c)
    PROVE  Turns!ContextInv'
BY ContextTurnStep DEF ContextOwns

\* Nothing is completed by a turn that has not and does not.
LEMMA ContextCompletedStays ==
    ASSUME Turns!ContextInv, Turns!TurnBound, NEW t \in Turns!Turns, NEW c \in Conversations,
           ContextOwns(c, t), ContextTouches(t, c),
           status[t] # "completed", status'[t] # "completed"
    PROVE  Turns!Completed(accepted[c], status') = Turns!Completed(accepted[c], status)
<1>1. /\ accepted[c] \in Seq(Turns!Turns)
      /\ \A n \in 1..Len(accepted[c]) : accepted[c][n] \in Turns!Turns
  BY ContextShapes DEF Turns!ContextInv
<1> PICK st, st2 : st = status /\ st2 = status'
  OBVIOUS
<1>2. PICK s \in Seq(Turns!Turns) : s = accepted[c]
  BY <1>1
<1>3. ContextAgree(s, Len(s), st, st2)
  BY <1>1, <1>2 DEF ContextTouches, ContextAgree
<1>4. Turns!Completed(s, st) = Turns!Completed(s, st2)
  BY <1>3, ContextCompletedSame
<1> QED BY <1>2, <1>4

ContextSaves(f, c, n, v) == checkpoint' = [checkpoint EXCEPT ![f][c][n] = v]

LEMMA ContextSaveIs ==
    ASSUME Turns!ContextTypes, NEW f \in Turns!Files, NEW c \in Conversations,
           NEW n \in Turns!Threads,
           NEW v \in Turns!Checkpoints, ContextSaves(f, c, n, v)
    PROVE  /\ checkpoint' \in [Turns!Files -> [Conversations -> [Turns!Threads -> Turns!Checkpoints]]]
           /\ checkpoint'[f][c][n] = v
           /\ \A g \in Turns!Files, d \in Conversations, m \in Turns!Threads :
                  g # f \/ d # c \/ m # n => checkpoint'[g][d][m] = checkpoint[g][d][m]
<1>1. checkpoint \in [Turns!Files -> [Conversations -> [Turns!Threads -> Turns!Checkpoints]]]
  BY DEF Turns!ContextTypes
<1> QED BY <1>1 DEF ContextSaves

LEMMA ContextSavedType ==
    ASSUME Turns!ContextTypes, NEW t \in Turns!Turns, NEW c \in Conversations, ContextOwns(c, t),
           NEW f \in Turns!Files
    PROVE  /\ Turns!Saved(t, f) \in Turns!Checkpoints
           /\ Turns!Saved(t, f) = checkpoint[f][c][turns_row[c].thread]
BY DEF Turns!ContextTypes, ContextOwns, Turns!Saved

\* A turn begins with the completed turns, from its checkpoint or from the history.
LEMMA ContextBeginningIs ==
    ASSUME Turns!ContextInv, Turns!TurnBound, NEW t \in Turns!Turns, NEW c \in Conversations,
           ContextOwns(c, t),
           NEW f \in Turns!Files,
           turns_at[t] = "begin" \/ (turns_at[t] = "model" /\ f # turns_row[c].mode)
    PROVE  \E list \in Seq(Turns!Entries) :
             /\ list = Append(Turns!Beginning(t, f), t)
             /\ Turns!Keeps(list,
                Append(Turns!Completed(Turns!Earlier(c, Len(accepted[c])), status), t))
<1>1. Turns!MayContinue(t) /\ status[t] = "running"
  BY ContextOwnFacts DEF Turns!MayContinue, Turns!StageSound, Turns!Entered
<1>2. PICK w \in Seq(Turns!Turns) :
         /\ w = Turns!Completed(Turns!Earlier(c, Len(accepted[c])), status)
            /\ w = Turns!Completed(accepted[c], status)
         /\ \A n \in 1..Len(w) : w[n] < t
         /\ Append(w, t) \in Seq(Turns!Turns) /\ Turns!Keeps(Append(w, t), Append(w, t))
  BY <1>1, ContextWholeIs, ContextOwnFacts
<1>3. Turns!Saved(t, f) = checkpoint[f][c][turns_row[c].thread]
      /\ Turns!Saved(t, f) \in Turns!Checkpoints
      /\ Turns!History(Turns!Conversation(t)) = w
  BY <1>2, ContextSavedType DEF Turns!ContextInv, ContextOwns, Turns!History
<1>4. PICK list \in Seq(Turns!Entries) : list = Turns!Saved(t, f).list
  BY <1>3 DEF Turns!Checkpoints
<1>5. list = <<>> \/ Turns!Keeps(list, w)
  <2>1. CASE f = turns_row[c].mode
    <3>1. Turns!Reached(t, checkpoint[f][c][turns_row[c].thread], w)
      BY <1>1, <1>2, <2>1, ContextOwnFacts
    <3>2. turns_at[t] = "begin"
      BY <2>1
    <3> QED BY <1>3, <1>4, <3>1, <3>2 DEF Turns!Reached
  <2>2. CASE f # turns_row[c].mode
    <3>1. Turns!Fresh(f, c, turns_row[c].thread)
      BY <1>1, <2>2, ContextOwnFacts
    <3>2. checkpoint[f][c][turns_row[c].thread].list = <<>>
      BY <3>1 DEF Turns!Fresh
    <3> QED BY <1>3, <1>4, <3>2
  <2> QED BY <2>1, <2>2
<1>6. MaxTurns \in Nat
  BY DEF Turns!TurnBound
<1>7. CASE list = <<>>
  <2>1. Turns!Beginning(t, f) = w
    BY <1>3, <1>4, <1>7 DEF Turns!Beginning
  <2>2. PICK q \in Seq(Turns!Turns) : q = Append(w, t) /\ Turns!Keeps(q, Append(w, t))
    BY <1>2
  <2>3. q \in Seq(Turns!Entries)
    <3>1. Seq(Turns!Turns) \subseteq Seq(Turns!Entries)
      BY <1>6, ContextTurnsAreEntries
    <3> QED BY <3>1
  <2> QED BY <1>2, <2>1, <2>2, <2>3
<1>8. CASE list # <<>>
  <2>1. Turns!Beginning(t, f) = list
    BY <1>4, <1>8 DEF Turns!Beginning
  <2>2. Turns!Keeps(Append(list, t), Append(w, t))
    BY <1>2, <1>5, <1>6, <1>8, ContextKeepsTurn
  <2>3. Append(list, t) \in Seq(Turns!Entries)
    BY <1>6, ContextEntriesAre, AppendProperties
  <2> QED BY <1>2, <2>1, <2>2, <2>3
<1> QED BY <1>7, <1>8

LEMMA ContextEnterIs ==
    ASSUME Turns!ContextInv, Turns!TurnBound, NEW t \in Turns!Turns, NEW c \in Conversations,
           ContextOwns(c, t),
           NEW f \in Turns!Files,
           turns_at[t] = "begin"
               \/ (turns_at[t] = "model" /\ f # turns_row[c].mode), Turns!Enter(t, f)
    PROVE  \E v \in Turns!Checkpoints :
             /\ Turns!Keeps(v.list,
                Append(Turns!Completed(Turns!Earlier(c, Len(accepted[c])), status), t))
                    /\ v.list # <<>>
             /\ Turns!Gives(t, v.list)
             /\ ContextSaves(f, c, turns_row[c].thread, v)
<1>1. PICK list \in Seq(Turns!Entries) :
         /\ list = Append(Turns!Beginning(t, f), t)
         /\ Turns!Keeps(list,
            Append(Turns!Completed(Turns!Earlier(c, Len(accepted[c])), status), t))
  BY ContextBeginningIs
<1>2. PICK q \in Turns!Reads(f, list) : Turns!Gives(t, q) /\ Turns!Save(t, f, q, TRUE)
  BY <1>1 DEF Turns!Enter
<1>3. PICK x \in Seq(Turns!Turns) :
      x = Append(Turns!Completed(Turns!Earlier(c, Len(accepted[c])), status), t)
  BY ContextWholeIs
<1>4. q \in Seq(Turns!Entries) /\ Turns!Keeps(q, x) /\ q # <<>>
  BY <1>1, <1>3, ContextKeepsReads DEF Turns!TurnBound
<1>5. PICK v \in Turns!Checkpoints : v = [list |-> q, pending |-> TRUE]
  BY <1>4 DEF Turns!Checkpoints
<1>6. ContextSaves(f, c, turns_row[c].thread, v)
  BY <1>2, <1>5 DEF Turns!Save, ContextSaves, ContextOwns
<1> QED BY <1>2, <1>3, <1>4, <1>5, <1>6

LEMMA ContextStartStep ==
    ASSUME Turns!ContextInv, Turns!TurnBound, NEW t \in Turns!Turns, Turns!Start(t)
    PROVE  Turns!ContextInv'
<1>1. PICK c \in Conversations : ContextOwns(c, t)
  BY ContextMovesLast DEF Turns!Start, ContextMoves
<1>2. Turns!StageSound(t) /\ status[t] = "queued" /\ Turns!MayContinue(t)
  BY <1>1, ContextOwnFacts DEF Turns!Start, Turns!StageSound, Turns!Entered, Turns!MayContinue
<1>3. Turns!ContextTypes'
  BY DEF Turns!ContextInv, Turns!ContextTypes, Turns!Start, Turns!To, Turns!results,
     Turns!reading, Turns!rows
<1>4. ContextTouches(t, c) /\ turns_at'[t] = "begin" /\ status'[t] = "running" /\ lease' = lease
      /\ fallback' = fallback
      /\ context' = context /\ checkpoint' = checkpoint
  BY DEF Turns!ContextInv, Turns!ContextTypes, Turns!Start, Turns!To, ContextTouches,
     Turns!results, Turns!reading, Turns!rows
<1>5. Turns!Completed(accepted[c], status') = Turns!Completed(accepted[c], status)
  BY <1>1, <1>2, <1>4, ContextCompletedStays
<1>6. Turns!StageSound(t)'
  <2>1. turns_at[t] = "queued" /\ lease'[t]
    BY <1>2, <1>4 DEF Turns!StageSound, Turns!Entered, Turns!Start
  <2> QED BY <1>4, <2>1 DEF Turns!StageSound, Turns!Entered
<1>7. turns_row[c].mode \in Turns!Files =>
         Turns!Reached(t, checkpoint[turns_row[c].mode][c][turns_row[c].thread],
             Turns!Completed(accepted[c], status))'
  BY <1>1, <1>2, <1>4, <1>5, ContextOwnFacts DEF Turns!Reached, Turns!Start, ContextTouches
<1>8. \A f \in Turns!Files \ {turns_row[c].mode} : Turns!Fresh(f, c, turns_row[c].thread)'
  BY <1>1, <1>2, <1>4, ContextOwnFacts DEF Turns!Fresh, ContextTouches
<1>9. ContextOwnTurn(t, c)
  BY <1>1, <1>4, <1>6, <1>7, <1>8, ContextOwnFacts DEF ContextOwnTurn
<1> QED BY <1>1, <1>2, <1>3, <1>4, <1>9, ContextOwnStep

LEMMA ContextEnterLegacyStep ==
    ASSUME Turns!ContextInv, Turns!TurnBound, NEW t \in Turns!Turns, Turns!EnterLegacy(t)
    PROVE  Turns!ContextInv'
<1>1. PICK c \in Conversations : ContextOwns(c, t)
  BY ContextMovesLast DEF Turns!EnterLegacy, ContextMoves
<1>2. Turns!StageSound(t) /\ status[t] = "running" /\ Turns!MayContinue(t)
      /\ turns_row[c].mode = "legacy"
      /\ turns_at[t] = "begin"
  BY <1>1, ContextOwnFacts DEF Turns!EnterLegacy, Turns!StageSound, Turns!Entered,
     Turns!MayContinue, ContextOwns
<1>3. PICK x \in Seq(Turns!Turns) :
         x = Append(Turns!Completed(Turns!Earlier(c, Len(accepted[c])), status), t)
             /\ Turns!Keeps(x, x)
  BY <1>1, ContextWholeIs
<1>4. /\ MaxTurns \in Nat /\ x = Append(Turns!History(Turns!Conversation(t)), t)
         /\ x \in Seq(Turns!Entries)
  <2>1. MaxTurns \in Nat
    BY DEF Turns!TurnBound
  <2>2. x = Append(Turns!History(Turns!Conversation(t)), t)
    BY <1>1, <1>2, <1>3, ContextOwnFacts DEF Turns!History, ContextOwns
  <2>3. Seq(Turns!Turns) \subseteq Seq(Turns!Entries)
    BY <2>1, ContextTurnsAreEntries
  <2> QED BY <2>1, <2>2, <2>3
<1>5. PICK list \in Seq(Turns!Entries) : Turns!Keeps(list, x) /\ Turns!Gives(t, list) /\ list # <<>>
  <2>1. PICK q \in Turns!Reads("legacy", x) : Turns!Gives(t, q)
    BY <1>4 DEF Turns!EnterLegacy
  <2>2. q \in Seq(Turns!Entries) /\ Turns!Keeps(q, x) /\ q # <<>>
    BY <1>3, <1>4, ContextKeepsReads
  <2> QED BY <2>1, <2>2
<1>6. Turns!ContextTypes'
  BY <1>5 DEF Turns!ContextInv, Turns!ContextTypes, Turns!EnterLegacy, Turns!Gives, Turns!To,
     Turns!results, Turns!rows
<1>7. ContextTouches(t, c) /\ turns_at'[t] = "model" /\ status' = status /\ lease' = lease
      /\ fallback' = fallback
      /\ context'[t] = list /\ checkpoint' = checkpoint
  BY <1>5 DEF Turns!ContextInv, Turns!ContextTypes, Turns!EnterLegacy, Turns!Gives, Turns!To,
     ContextTouches, Turns!results, Turns!rows
<1>9. Turns!StageSound(t)'
  BY <1>2, <1>5, <1>7 DEF Turns!StageSound, Turns!Entered
<1>10. \A f \in Turns!Files \ {turns_row[c].mode} : Turns!Fresh(f, c, turns_row[c].thread)'
  BY <1>1, <1>2, <1>7, ContextOwnFacts DEF Turns!Fresh, ContextTouches
<1>11. turns_row[c].mode \notin Turns!Files
  BY <1>2 DEF Turns!Files
<1>12. ContextOwnTurn(t, c)
  BY <1>2, <1>3, <1>5, <1>7, <1>9, <1>10, <1>11 DEF ContextOwnTurn
<1> QED BY <1>1, <1>2, <1>6, <1>7, <1>12, ContextOwnStep

LEMMA ContextEnterEngineStep ==
    ASSUME Turns!ContextInv, Turns!TurnBound, NEW t \in Turns!Turns, Turns!EnterEngine(t)
    PROVE  Turns!ContextInv'
<1>1. PICK c \in Conversations : ContextOwns(c, t)
  BY ContextMovesLast DEF Turns!EnterEngine, ContextMoves
<1>2. turns_at[t] = "begin" /\ Turns!Enter(t, Turns!Mode(t)) /\ Turns!Mode(t) # "legacy"
  BY DEF Turns!EnterEngine
<1>3. Turns!StageSound(t) /\ status[t] = "running" /\ Turns!MayContinue(t)
  <2>1. Turns!StageSound(t)
    BY <1>1, ContextOwnFacts
  <2> QED BY <1>2, <2>1 DEF Turns!StageSound, Turns!Entered, Turns!MayContinue
<1>4. PICK f \in Turns!Files : f = turns_row[c].mode /\ f = Turns!Mode(t)
  BY <1>1, <1>2 DEF ContextOwns, Turns!Modes, Turns!Files
<1>5. PICK n \in Turns!Threads : n = turns_row[c].thread
  BY <1>1 DEF ContextOwns
<1>6. PICK v \in Turns!Checkpoints :
         /\ Turns!Keeps(v.list,
            Append(Turns!Completed(Turns!Earlier(c, Len(accepted[c])), status), t)) /\ v.list # <<>>
         /\ Turns!Gives(t, v.list)
         /\ ContextSaves(f, c, n, v)
  <2>1. Turns!Enter(t, f)
    BY <1>2, <1>4
  <2> QED BY <1>1, <1>2, <1>5, <2>1, ContextEnterIs
<1>7. /\ checkpoint' \in [Turns!Files -> [Conversations -> [Turns!Threads -> Turns!Checkpoints]]]
      /\ checkpoint'[f][c][n] = v
      /\ \A g \in Turns!Files, d \in Conversations, m \in Turns!Threads :
             g # f \/ d # c \/ m # n => checkpoint'[g][d][m] = checkpoint[g][d][m]
  BY <1>6, ContextSaveIs DEF Turns!ContextInv
<1>8. v.list \in Seq(Turns!Entries)
  BY DEF Turns!Checkpoints
<1>9. Turns!ContextTypes'
  BY <1>6, <1>7, <1>8 DEF Turns!ContextInv, Turns!ContextTypes, Turns!EnterEngine, Turns!Gives,
     Turns!To, Turns!results, Turns!rows
<1>10. /\ turns_row' = turns_row /\ accepted' = accepted /\ status' = status /\ lease' = lease
          /\ fallback' = fallback
       /\ thread' = thread /\ outcome' = outcome /\ turns_at' = [turns_at EXCEPT ![t] = "model"]
          /\ turns_at'[t] = "model"
       /\ context'[t] = v.list
  BY <1>6 DEF Turns!EnterEngine, Turns!Gives, Turns!To, Turns!results, Turns!rows,
     Turns!ContextInv, Turns!ContextTypes
<1>11. ContextTouches(t, c)
  BY <1>5, <1>6, <1>7, <1>10 DEF Turns!Gives, ContextTouches, Turns!ContextInv, Turns!ContextTypes
<1>12. Turns!StageSound(t)'
  BY <1>2, <1>3, <1>6, <1>10 DEF Turns!StageSound, Turns!Entered
<1>13. \A g \in Turns!Files \ {f} : Turns!Fresh(g, c, turns_row[c].thread)'
  <2>1. \A g \in Turns!Files \ {f} : Turns!Fresh(g, c, n)
    BY <1>1, <1>3, <1>4, <1>5, ContextOwnFacts
  <2> QED BY <1>5, <1>7, <1>10, <2>1 DEF Turns!Fresh
<1>14. Turns!Reached(t, checkpoint[f][c][turns_row[c].thread],
       Turns!Completed(accepted[c], status))'
  BY <1>5, <1>6, <1>7, <1>10 DEF Turns!Reached, Turns!Answered
<1>15. ContextOwnTurn(t, c)
  BY <1>3, <1>4, <1>6, <1>10, <1>12, <1>13, <1>14 DEF ContextOwnTurn
<1> QED BY <1>1, <1>3, <1>9, <1>11, <1>15, ContextOwnStep

LEMMA ContextFallBackStep ==
    ASSUME Turns!ContextInv, Turns!TurnBound, NEW t \in Turns!Turns, Turns!FallBack(t)
    PROVE  Turns!ContextInv'
<1>1. PICK c \in Conversations : ContextOwns(c, t)
  BY ContextMovesLast DEF Turns!FallBack, ContextMoves
<1>2. Turns!StageSound(t) /\ status[t] = "running" /\ turns_at[t] \in {"begin", "model"}
  BY <1>1, ContextOwnFacts DEF Turns!FallBack
<1>3. PICK f \in Turns!Files : f = "fallback" /\ f # turns_row[c].mode
  BY <1>1 DEF ContextOwns, Turns!Modes, Turns!Files
<1>4. PICK n \in Turns!Threads : n = turns_row[c].thread
  BY <1>1 DEF ContextOwns
<1>5. PICK v \in Turns!Checkpoints :
         /\ Turns!Keeps(v.list,
            Append(Turns!Completed(Turns!Earlier(c, Len(accepted[c])), status), t)) /\ v.list # <<>>
         /\ Turns!Gives(t, v.list)
         /\ ContextSaves(f, c, n, v)
  <2>1. Turns!Enter(t, f)
    BY <1>3 DEF Turns!FallBack
  <2> QED BY <1>1, <1>2, <1>3, <1>4, <2>1, ContextEnterIs
<1>6. /\ checkpoint' \in [Turns!Files -> [Conversations -> [Turns!Threads -> Turns!Checkpoints]]]
      /\ \A g \in Turns!Files, d \in Conversations, m \in Turns!Threads :
             g # f \/ d # c \/ m # n => checkpoint'[g][d][m] = checkpoint[g][d][m]
  BY <1>5, ContextSaveIs DEF Turns!ContextInv
<1>7. v.list \in Seq(Turns!Entries)
  BY DEF Turns!Checkpoints
<1>8. Turns!ContextTypes'
  BY <1>5, <1>6, <1>7 DEF Turns!ContextInv, Turns!ContextTypes, Turns!FallBack, Turns!Gives,
     Turns!To, Turns!rows
<1>9. /\ turns_row' = turns_row /\ accepted' = accepted /\ status' = status /\ lease' = lease
      /\ fallback' = [fallback EXCEPT ![t] = TRUE] /\ fallback'[t] = TRUE
      /\ thread' = thread /\ outcome' = outcome /\ turns_at' = [turns_at EXCEPT ![t] = "fallback"]
         /\ turns_at'[t] = "fallback"
      /\ context'[t] = v.list
  BY <1>5 DEF Turns!FallBack, Turns!Gives, Turns!To, Turns!rows, Turns!ContextInv,
     Turns!ContextTypes
<1>10. ContextTouches(t, c)
  BY <1>4, <1>5, <1>6, <1>9 DEF Turns!Gives, ContextTouches, Turns!ContextInv, Turns!ContextTypes
<1>11. Turns!StageSound(t)'
  BY <1>2, <1>5, <1>9 DEF Turns!StageSound, Turns!Entered
<1>12. ~Turns!MayContinue(t)'
  BY <1>9 DEF Turns!MayContinue
<1>13. ContextOwnTurn(t, c)
  BY <1>2, <1>5, <1>9, <1>11, <1>12 DEF ContextOwnTurn
<1> QED BY <1>1, <1>2, <1>8, <1>10, <1>13, ContextOwnStep

LEMMA ContextExchangeStep ==
    ASSUME Turns!ContextInv, Turns!TurnBound, NEW t \in Turns!Turns, Turns!Exchange(t)
    PROVE  Turns!ContextInv'
<1>1. PICK c \in Conversations : ContextOwns(c, t)
  BY ContextMovesLast DEF Turns!Exchange, Turns!Running, ContextMoves
<1>2. Turns!StageSound(t) /\ status[t] = "running"
      /\ turns_at[t] \in {"model", "fallback", "resumed"}
  BY <1>1, ContextOwnFacts DEF Turns!Exchange, Turns!Running, Turns!StageSound, Turns!Entered
<1>3. PICK n \in Turns!Threads : n = turns_row[c].thread
  BY <1>1 DEF ContextOwns
<1>4. PICK f \in Turns!Files \cup {"legacy"} : f = Turns!File(t)
      /\ (Turns!Mode(t) # "legacy" => f \in Turns!Files)
  BY <1>1 DEF Turns!File, Turns!Files, ContextOwns, Turns!Modes
<1>5. PICK x \in Seq(Turns!Turns) :
      x = Append(Turns!Completed(Turns!Earlier(c, Len(accepted[c])), status), t)
  BY <1>1, ContextWholeIs
<1>6. PICK q \in Turns!Reads(f, Append(context[t], Turns!Tool)) :
         /\ Turns!Gives(t, q)
         /\ IF Turns!Mode(t) = "legacy" THEN UNCHANGED checkpoint ELSE Turns!Save(t, f, q, TRUE)
  BY <1>4 DEF Turns!Exchange
<1>7. /\ turns_row' = turns_row /\ accepted' = accepted /\ status' = status /\ lease' = lease
         /\ fallback' = fallback
      /\ thread' = thread /\ turns_at' = turns_at /\ outcome' = outcome
      /\ context' = [context EXCEPT ![t] = q] /\ context'[t] = q
  BY <1>6 DEF Turns!Exchange, Turns!Gives, Turns!results, Turns!rows, Turns!ContextInv,
     Turns!ContextTypes
<1>8. q \in Seq(Turns!Entries) /\ Turns!Keeps(q, x) /\ q # <<>>
  <2>1. Turns!Keeps(context[t], x)
    <3>1. context[t] # <<>>
      BY <1>2 DEF Turns!StageSound, Turns!Entered
    <3> QED BY <1>1, <1>5, <3>1, ContextOwnFacts
  <2>2. MaxTurns \in Nat /\ context[t] \in Seq(Turns!Entries) /\ Turns!Tool \in Turns!Entries
    BY ContextShapes, ContextEntriesAre DEF Turns!ContextInv
  <2>3. Turns!Keeps(Append(context[t], Turns!Tool), x)
        /\ Append(context[t], Turns!Tool) \in Seq(Turns!Entries)
    BY <2>1, <2>2, ContextKeepsTool, AppendProperties
  <2> QED BY <1>6, <2>2, <2>3, ContextKeepsReads
<1>9. /\ checkpoint' \in [Turns!Files -> [Conversations -> [Turns!Threads -> Turns!Checkpoints]]]
      /\ \A g \in Turns!Files, d \in Conversations, m \in Turns!Threads :
             g # f \/ d # c \/ m # n => checkpoint'[g][d][m] = checkpoint[g][d][m]
      /\ Turns!Mode(t) # "legacy" => checkpoint'[f][c][n].list = q
  <2>1. CASE Turns!Mode(t) = "legacy"
    BY <1>6, <2>1 DEF Turns!ContextInv, Turns!ContextTypes
  <2>2. CASE Turns!Mode(t) # "legacy"
    <3>1. PICK v \in Turns!Checkpoints : v = [list |-> q, pending |-> TRUE]
      BY <1>8 DEF Turns!Checkpoints
    <3>2. f \in Turns!Files /\ ContextSaves(f, c, n, v) /\ v.list = q
      BY <1>1, <1>3, <1>4, <1>6, <2>2, <3>1 DEF Turns!Save, ContextSaves, ContextOwns
    <3> QED BY <3>2, ContextSaveIs DEF Turns!ContextInv
  <2> QED BY <2>1, <2>2
<1>10. Turns!ContextTypes'
  BY <1>7, <1>8, <1>9 DEF Turns!ContextInv, Turns!ContextTypes, Turns!Exchange
<1>11. ContextTouches(t, c)
  <2>1. \A u \in Turns!Turns \ {t} : context'[u] = context[u]
    BY <1>7 DEF Turns!ContextInv, Turns!ContextTypes
  <2> QED BY <1>3, <1>7, <1>9, <2>1 DEF ContextTouches
<1>12. Turns!StageSound(t)'
  BY <1>2, <1>7, <1>8 DEF Turns!StageSound, Turns!Entered
<1>13. ASSUME Turns!MayContinue(t)'
       PROVE  /\ \A g \in Turns!Files \ {turns_row[c].mode} :
                 Turns!Fresh(g, c, turns_row[c].thread)'
              /\ turns_row[c].mode \in Turns!Files =>
                    Turns!Reached(t, checkpoint[turns_row[c].mode][c][turns_row[c].thread],
                        Turns!Completed(accepted[c], status))'
  <2>1. Turns!MayContinue(t) /\ turns_at[t] \in {"model", "resumed"}
    BY <1>2, <1>7, <1>13 DEF Turns!MayContinue
  <2>2. f = turns_row[c].mode
    BY <1>1, <1>4, <2>1 DEF Turns!File, ContextOwns
  <2>3. \A g \in Turns!Files \ {turns_row[c].mode} : Turns!Fresh(g, c, turns_row[c].thread)'
    <3>1. \A g \in Turns!Files \ {f} : Turns!Fresh(g, c, n)
      BY <1>1, <1>3, <2>1, <2>2, ContextOwnFacts
    <3>2. ASSUME NEW g \in Turns!Files \ {f}
                 PROVE checkpoint'[g][c][n] = [list |-> <<>>, pending |-> FALSE]
      <4>1. checkpoint'[g][c][n] = checkpoint[g][c][n]
        BY <1>9
      <4> QED BY <3>1, <4>1 DEF Turns!Fresh
    <3>3. turns_row'[c].mode = f /\ turns_row'[c].thread = n
      BY <1>3, <1>7, <2>2
    <3> QED BY <2>2, <3>2, <3>3 DEF Turns!Fresh
  <2>4. ASSUME turns_row[c].mode \in Turns!Files
        PROVE  Turns!Reached(t, checkpoint[turns_row[c].mode][c][turns_row[c].thread],
            Turns!Completed(accepted[c], status))'
    <3>1. Turns!Mode(t) # "legacy"
      BY <1>1, <2>4 DEF ContextOwns, Turns!Files
    <3>2. checkpoint'[f][c][n].list = context'[t] /\ context'[t] # <<>>
      BY <1>7, <1>8, <1>9, <3>1
    <3> QED BY <1>3, <1>7, <2>1, <2>2, <3>2 DEF Turns!Reached, Turns!Answered
  <2> QED BY <2>3, <2>4
<1>14. ContextOwnTurn(t, c)
  BY <1>2, <1>5, <1>7, <1>8, <1>12, <1>13 DEF ContextOwnTurn
<1> QED BY <1>1, <1>2, <1>10, <1>11, <1>14, ContextOwnStep

LEMMA ContextFinishesStep ==
    ASSUME Turns!ContextInv, Turns!TurnBound, NEW t \in Turns!Turns, Turns!Finishes(t)
    PROVE  Turns!ContextInv'
<1>1. PICK c \in Conversations : ContextOwns(c, t)
  BY ContextMovesLast DEF Turns!Finishes, Turns!Running, ContextMoves
<1>2. Turns!StageSound(t) /\ status[t] = "running"
      /\ turns_at[t] \in {"model", "fallback", "resumed"}
  BY <1>1, ContextOwnFacts DEF Turns!Finishes, Turns!Running, Turns!StageSound, Turns!Entered
<1>3. PICK n \in Turns!Threads : n = turns_row[c].thread
  BY <1>1 DEF ContextOwns
<1>4. PICK f \in Turns!Files \cup {"legacy"} : f = Turns!File(t)
      /\ (Turns!Mode(t) # "legacy" => f \in Turns!Files)
  BY <1>1 DEF Turns!File, Turns!Files, ContextOwns, Turns!Modes
<1>5. /\ turns_row' = turns_row /\ accepted' = accepted /\ status' = status /\ lease' = lease
         /\ fallback' = fallback
      /\ thread' = thread /\ context' = context /\ turns_at' = [turns_at EXCEPT ![t] = "returned"]
         /\ turns_at'[t] = "returned"
      /\ outcome'[t] \in {"completed", "stopped"} /\ outcome' = [outcome EXCEPT ![t] = outcome'[t]]
  <2>1. PICK o \in {"completed", "stopped"} : Turns!Result(t, o)
    BY DEF Turns!Finishes
  <2> QED BY <2>1 DEF Turns!Finishes, Turns!Result, Turns!To, Turns!rows, Turns!ContextInv,
      Turns!ContextTypes
<1>6. /\ checkpoint' \in [Turns!Files -> [Conversations -> [Turns!Threads -> Turns!Checkpoints]]]
      /\ \A g \in Turns!Files, d \in Conversations, m \in Turns!Threads :
             g # f \/ d # c \/ m # n => checkpoint'[g][d][m] = checkpoint[g][d][m]
      /\ Turns!Mode(t) # "legacy" => /\ checkpoint'[f][c][n].list = checkpoint[f][c][n].list
                                     /\ ~checkpoint'[f][c][n].pending
  <2>1. CASE Turns!Mode(t) = "legacy"
    BY <2>1 DEF Turns!Finishes, Turns!ContextInv, Turns!ContextTypes
  <2>2. CASE Turns!Mode(t) # "legacy"
    <3>1. f \in Turns!Files /\ Turns!Saved(t, f) \in Turns!Checkpoints
          /\ Turns!Saved(t, f) = checkpoint[f][c][n]
      BY <1>1, <1>3, <1>4, <2>2, ContextSavedType DEF Turns!ContextInv
    <3>2. PICK v \in Turns!Checkpoints : v = [list |-> Turns!Saved(t, f).list, pending |-> FALSE]
      BY <3>1 DEF Turns!Checkpoints
    <3>3. ContextSaves(f, c, n, v)
      BY <1>1, <1>3, <1>4, <2>2, <3>2 DEF Turns!Finishes, Turns!Save, ContextSaves, ContextOwns
    <3>4. v.list = checkpoint[f][c][n].list /\ v.pending = FALSE
      BY <3>1, <3>2
    <3>5. /\ checkpoint' \in [Turns!Files -> [Conversations -> [Turns!Threads -> Turns!Checkpoints]]]
          /\ checkpoint'[f][c][n] = v
          /\ \A g \in Turns!Files, d \in Conversations, m \in Turns!Threads :
                 g # f \/ d # c \/ m # n => checkpoint'[g][d][m] = checkpoint[g][d][m]
      BY <3>1, <3>3, ContextSaveIs DEF Turns!ContextInv
    <3> QED BY <3>4, <3>5
  <2> QED BY <2>1, <2>2
<1>7. Turns!ContextTypes'
  <2>1. outcome' \in [Turns!Turns -> {"none", "completed", "stopped", "interrupted"}]
    BY <1>5 DEF Turns!ContextInv, Turns!ContextTypes
  <2> QED BY <1>5, <1>6, <2>1 DEF Turns!ContextInv, Turns!ContextTypes
<1>8. ContextTouches(t, c)
  <2>1. \A u \in Turns!Turns \ {t} : outcome'[u] = outcome[u] /\ turns_at'[u] = turns_at[u]
    BY <1>5 DEF Turns!ContextInv, Turns!ContextTypes
  <2> QED BY <1>3, <1>5, <1>6, <2>1 DEF ContextTouches
<1>9. Turns!StageSound(t)'
  BY <1>2, <1>5 DEF Turns!StageSound, Turns!Entered
<1>10. ASSUME Turns!MayContinue(t)'
      PROVE  /\ \A g \in Turns!Files \ {turns_row[c].mode} : Turns!Fresh(g, c, turns_row[c].thread)'
             /\ turns_row[c].mode \in Turns!Files =>
                   Turns!Reached(t, checkpoint[turns_row[c].mode][c][turns_row[c].thread],
                       Turns!Completed(accepted[c], status))'
  <2>1. ~fallback[t] /\ outcome'[t] = "completed"
    BY <1>5, <1>10 DEF Turns!MayContinue
  <2>2. turns_at[t] \in {"model", "resumed"}
    BY <1>2, <2>1 DEF Turns!StageSound, Turns!Entered
  <2>3. Turns!MayContinue(t) /\ f = turns_row[c].mode
    BY <1>1, <1>4, <2>2 DEF Turns!MayContinue, Turns!File, ContextOwns
  <2>4. \A g \in Turns!Files \ {turns_row[c].mode} : Turns!Fresh(g, c, turns_row[c].thread)'
    <3>1. \A g \in Turns!Files \ {f} : Turns!Fresh(g, c, n)
      BY <1>1, <1>3, <2>3, ContextOwnFacts
    <3>2. ASSUME NEW g \in Turns!Files \ {f}
                 PROVE checkpoint'[g][c][n] = [list |-> <<>>, pending |-> FALSE]
      <4>1. checkpoint'[g][c][n] = checkpoint[g][c][n]
        BY <1>6
      <4> QED BY <3>1, <4>1 DEF Turns!Fresh
    <3>3. turns_row'[c].mode = f /\ turns_row'[c].thread = n
      BY <1>3, <1>5, <2>3
    <3> QED BY <2>3, <3>2, <3>3 DEF Turns!Fresh
  <2>5. ASSUME turns_row[c].mode \in Turns!Files
        PROVE  Turns!Reached(t, checkpoint[turns_row[c].mode][c][turns_row[c].thread],
            Turns!Completed(accepted[c], status))'
    <3>1. Turns!Mode(t) # "legacy"
      BY <1>1, <2>5 DEF ContextOwns, Turns!Files
    <3>2. checkpoint[f][c][n].list = context[t] /\ context[t] # <<>>
      BY <1>1, <1>3, <2>2, <2>3, <2>5, ContextOwnFacts DEF Turns!Reached
    <3>3. checkpoint'[f][c][n].list = context[t] /\ ~checkpoint'[f][c][n].pending
      BY <1>6, <3>1, <3>2
    <3> QED BY <1>3, <1>5, <2>3, <3>2, <3>3 DEF Turns!Reached
  <2> QED BY <2>4, <2>5
<1>11. ContextOwnTurn(t, c)
  <2>1. context[t] # <<>>
        => Turns!Keeps(context[t],
            Append(Turns!Completed(Turns!Earlier(c, Len(accepted[c])), status), t))
    BY <1>1, ContextOwnFacts
  <2> QED BY <1>2, <1>5, <1>9, <1>10, <2>1 DEF ContextOwnTurn
<1> QED BY <1>1, <1>2, <1>7, <1>8, <1>11, ContextOwnStep

\* The steps that leave every checkpoint and every context as they are.
LEMMA ContextInterruptsStep ==
    ASSUME Turns!ContextInv, Turns!TurnBound, NEW t \in Turns!Turns, Turns!Interrupts(t)
    PROVE  Turns!ContextInv'
<1>1. PICK c \in Conversations : ContextOwns(c, t)
  BY ContextMovesLast DEF Turns!Interrupts, ContextMoves
<1>2. Turns!StageSound(t) /\ status[t] = "running" /\ Turns!MayContinue(t)
      /\ turns_at[t] \in {"model", "resumed"}
  BY <1>1, ContextOwnFacts DEF Turns!Interrupts, Turns!StageSound, Turns!Entered,
     Turns!MayContinue
<1>3. Turns!ContextTypes'
  BY DEF Turns!ContextInv, Turns!ContextTypes, Turns!Interrupts, Turns!Result, Turns!To,
     Turns!reading, Turns!rows
<1>4. ContextTouches(t, c) /\ turns_at'[t] = "returned" /\ status' = status /\ lease' = lease
      /\ fallback' = fallback
      /\ outcome'[t] = "interrupted" /\ context' = context /\ checkpoint' = checkpoint
  BY DEF Turns!ContextInv, Turns!ContextTypes, Turns!Interrupts, Turns!Result, Turns!To,
     ContextTouches, Turns!reading, Turns!rows
<1>5. Turns!StageSound(t)'
  BY <1>2, <1>4 DEF Turns!StageSound, Turns!Entered
<1>6. \A f \in Turns!Files \ {turns_row[c].mode} : Turns!Fresh(f, c, turns_row[c].thread)'
  BY <1>1, <1>2, <1>4, ContextOwnFacts DEF Turns!Fresh, ContextTouches
<1>7. turns_row[c].mode \in Turns!Files =>
         Turns!Reached(t, checkpoint[turns_row[c].mode][c][turns_row[c].thread],
             Turns!Completed(accepted[c], status))'
  BY <1>1, <1>2, <1>4, ContextOwnFacts DEF Turns!Reached, Turns!Answered, ContextTouches
<1>8. ContextOwnTurn(t, c)
  BY <1>1, <1>2, <1>4, <1>5, <1>6, <1>7, ContextOwnFacts DEF ContextOwnTurn
<1> QED BY <1>1, <1>2, <1>3, <1>4, <1>8, ContextOwnStep

LEMMA ContextRaisesStep ==
    ASSUME Turns!ContextInv, Turns!TurnBound, NEW t \in Turns!Turns, Turns!Raises(t)
    PROVE  Turns!ContextInv'
<1>1. PICK c \in Conversations : ContextOwns(c, t)
  BY ContextMovesLast DEF Turns!Raises, ContextMoves
<1>2. Turns!StageSound(t) /\ status[t] \in {"queued", "running"} /\ turns_at[t] # "off"
  BY <1>1, ContextOwnFacts DEF Turns!Raises, Turns!StageSound, Turns!Entered
<1>3. PICK o \in {"stopped"} : Turns!Result(t, o)
  BY DEF Turns!Raises
<1>4. Turns!ContextTypes'
  BY <1>3 DEF Turns!ContextInv, Turns!ContextTypes, Turns!Raises, Turns!Result, Turns!To,
     Turns!reading, Turns!rows
<1>5. ContextTouches(t, c) /\ turns_at'[t] = "returned" /\ status' = status /\ lease' = lease
      /\ fallback'[t] = FALSE
      /\ outcome'[t] = o /\ context' = context /\ checkpoint' = checkpoint
  BY <1>3 DEF Turns!ContextInv, Turns!ContextTypes, Turns!Raises, Turns!Result, Turns!To,
     ContextTouches, Turns!reading, Turns!rows
<1>6. Turns!StageSound(t)'
  BY <1>2, <1>5 DEF Turns!StageSound, Turns!Entered
<1>7. ~Turns!MayContinue(t)'
  BY <1>5 DEF Turns!MayContinue
<1>8. ContextOwnTurn(t, c)
  BY <1>1, <1>2, <1>5, <1>6, <1>7, ContextOwnFacts DEF ContextOwnTurn
<1> QED BY <1>1, <1>2, <1>4, <1>5, <1>8, ContextOwnStep

LEMMA ContextWriteStep ==
    ASSUME Turns!ContextInv, Turns!TurnBound, NEW t \in Turns!Turns, Turns!Write(t)
    PROVE  Turns!ContextInv'
<1>1. PICK c \in Conversations : ContextOwns(c, t)
  BY ContextMovesLast DEF Turns!Write, ContextMoves
<1>2. Turns!StageSound(t) /\ turns_at[t] = "returned" /\ outcome[t] # "none"
      /\ status[t] \in {"queued", "running"}
      /\ lease[t] /\ outcome[t] \in {"completed", "stopped", "interrupted"}
  <2>1. Turns!StageSound(t) /\ turns_at[t] = "returned"
    BY <1>1, ContextOwnFacts DEF Turns!Write
  <2> QED BY <2>1 DEF Turns!StageSound, Turns!Entered, Turns!ContextInv, Turns!ContextTypes
<1>3. Turns!ContextTypes'
  BY <1>2 DEF Turns!ContextInv, Turns!ContextTypes, Turns!Write, Turns!To, Turns!results,
     Turns!reading, Turns!rows, Turns!Terminal
<1>4. ContextTouches(t, c) /\ turns_at'[t] = "written" /\ status'[t] = outcome[t] /\ lease' = lease
      /\ fallback' = fallback
      /\ outcome' = outcome /\ context' = context /\ checkpoint' = checkpoint
  BY DEF Turns!ContextInv, Turns!ContextTypes, Turns!Write, Turns!To, ContextTouches,
     Turns!results, Turns!reading, Turns!rows
<1>5. Turns!StageSound(t)'
  BY <1>2, <1>4 DEF Turns!StageSound, Turns!Entered, Turns!Terminal
<1>6. ASSUME Turns!MayContinue(t)'
      PROVE  /\ \A f \in Turns!Files \ {turns_row[c].mode} : Turns!Fresh(f, c, turns_row[c].thread)'
             /\ turns_row[c].mode \in Turns!Files =>
                   Turns!Reached(t, checkpoint[turns_row[c].mode][c][turns_row[c].thread],
                       Turns!Completed(accepted[c], status))'
  <2>1. Turns!MayContinue(t)
    BY <1>2, <1>4, <1>6 DEF Turns!MayContinue, Turns!Continues
  <2>2. \A f \in Turns!Files \ {turns_row[c].mode} : Turns!Fresh(f, c, turns_row[c].thread)'
    BY <1>1, <1>4, <2>1, ContextOwnFacts DEF Turns!Fresh, ContextTouches
  <2>3. turns_row[c].mode \in Turns!Files =>
           Turns!Reached(t, checkpoint[turns_row[c].mode][c][turns_row[c].thread],
               Turns!Completed(accepted[c], status))'
    BY <1>1, <1>2, <1>4, <2>1, ContextOwnFacts DEF Turns!Reached, Turns!Answered, ContextTouches
  <2> QED BY <2>2, <2>3
<1>7. ContextOwnTurn(t, c)
  BY <1>1, <1>2, <1>4, <1>5, <1>6, ContextOwnFacts DEF ContextOwnTurn
<1> QED BY <1>1, <1>2, <1>3, <1>4, <1>7, ContextOwnStep

LEMMA ContextWriteCancelledStep ==
    ASSUME Turns!ContextInv, Turns!TurnBound, NEW t \in Turns!Turns, Turns!WriteCancelled(t)
    PROVE  Turns!ContextInv'
<1>1. PICK c \in Conversations : ContextOwns(c, t)
  BY ContextMovesLast DEF Turns!WriteCancelled, ContextMoves
<1>2. Turns!StageSound(t) /\ turns_at[t] = "written" /\ lease[t] /\ status[t] # "none"
  BY <1>1, ContextOwnFacts DEF Turns!WriteCancelled, Turns!StageSound, Turns!Entered
<1>3. Turns!ContextTypes'
  BY DEF Turns!ContextInv, Turns!ContextTypes, Turns!WriteCancelled, Turns!reading, Turns!rows,
     Turns!Terminal
<1>4. ContextTouches(t, c) /\ turns_at' = turns_at /\ status'[t] = "stopped" /\ lease' = lease
      /\ fallback'[t] = FALSE
      /\ outcome' = outcome /\ context' = context /\ checkpoint' = checkpoint
  BY DEF Turns!ContextInv, Turns!ContextTypes, Turns!WriteCancelled, ContextTouches,
     Turns!reading, Turns!rows
<1>5. Turns!StageSound(t)'
  BY <1>2, <1>4 DEF Turns!StageSound, Turns!Entered, Turns!Terminal
<1>6. ~Turns!MayContinue(t)'
  BY <1>2, <1>4 DEF Turns!MayContinue, Turns!Continues
<1>7. ContextOwnTurn(t, c)
  BY <1>1, <1>2, <1>4, <1>5, <1>6, ContextOwnFacts DEF ContextOwnTurn
<1> QED BY <1>1, <1>2, <1>3, <1>4, <1>7, ContextOwnStep

LEMMA ContextReleaseStep ==
    ASSUME Turns!ContextInv, Turns!TurnBound, NEW t \in Turns!Turns, Turns!Release(t)
    PROVE  Turns!ContextInv'
<1>1. PICK c \in Conversations : ContextOwns(c, t)
  BY ContextMovesLast DEF Turns!Release, ContextMoves
<1>2. Turns!StageSound(t) /\ turns_at[t] = "written" /\ lease[t]
      /\ status[t] \in Turns!Terminal \cup {"interrupted"}
      /\ status[t] # "none"
  BY <1>1, ContextOwnFacts DEF Turns!Release, Turns!StageSound, Turns!Entered, Turns!Terminal
<1>3. Turns!ContextTypes'
  BY DEF Turns!ContextInv, Turns!ContextTypes, Turns!Release, Turns!To, Turns!results,
     Turns!reading, Turns!rows
<1>4. ContextTouches(t, c) /\ turns_at'[t] = "off" /\ status' = status
      /\ lease'[t] = (status[t] \notin Turns!Terminal)
      /\ fallback' = fallback /\ outcome' = outcome /\ context' = context
         /\ checkpoint' = checkpoint
  BY DEF Turns!ContextInv, Turns!ContextTypes, Turns!Release, Turns!To, ContextTouches,
     Turns!results, Turns!reading, Turns!rows
<1>5. Turns!StageSound(t)'
  BY <1>2, <1>4 DEF Turns!StageSound, Turns!Entered, Turns!Terminal
<1>6. ASSUME Turns!MayContinue(t)'
      PROVE  /\ \A f \in Turns!Files \ {turns_row[c].mode} : Turns!Fresh(f, c, turns_row[c].thread)'
             /\ turns_row[c].mode \in Turns!Files =>
                   Turns!Reached(t, checkpoint[turns_row[c].mode][c][turns_row[c].thread],
                       Turns!Completed(accepted[c], status))'
  <2>1. Turns!MayContinue(t)
    BY <1>2, <1>4, <1>6 DEF Turns!MayContinue, Turns!Continues
  <2>2. \A f \in Turns!Files \ {turns_row[c].mode} : Turns!Fresh(f, c, turns_row[c].thread)'
    BY <1>1, <1>4, <2>1, ContextOwnFacts DEF Turns!Fresh, ContextTouches
  <2>3. turns_row[c].mode \in Turns!Files =>
           Turns!Reached(t, checkpoint[turns_row[c].mode][c][turns_row[c].thread],
               Turns!Completed(accepted[c], status))'
    BY <1>1, <1>2, <1>4, <2>1, ContextOwnFacts DEF Turns!Reached, Turns!Answered, ContextTouches
  <2> QED BY <2>2, <2>3
<1>7. ContextOwnTurn(t, c)
  BY <1>1, <1>2, <1>4, <1>5, <1>6, ContextOwnFacts DEF ContextOwnTurn
<1> QED BY <1>1, <1>2, <1>3, <1>4, <1>7, ContextOwnStep

LEMMA ContextResumeStep ==
    ASSUME Turns!ContextInv, Turns!TurnBound, NEW t \in Turns!Turns, Turns!Resume(t)
    PROVE  Turns!ContextInv'
<1>1. PICK c \in Conversations : ContextOwns(c, t)
  BY ContextMovesLast DEF Turns!Resume, Turns!Waiting, ContextMoves
<1>2. Turns!StageSound(t) /\ turns_at[t] = "off" /\ status[t] = "interrupted" /\ lease[t]
      /\ Turns!MayContinue(t)
  BY <1>1, ContextOwnFacts DEF Turns!Resume, Turns!Waiting, Turns!StageSound, Turns!Entered,
     Turns!MayContinue
<1>3. Turns!ContextTypes'
  BY DEF Turns!ContextInv, Turns!ContextTypes, Turns!Resume, Turns!To, Turns!results,
     Turns!reading, Turns!rows
<1>4. ContextTouches(t, c) /\ turns_at'[t] = "resumed" /\ status'[t] = "running" /\ lease' = lease
      /\ fallback' = fallback /\ outcome' = outcome /\ context' = context
         /\ checkpoint' = checkpoint
  BY DEF Turns!ContextInv, Turns!ContextTypes, Turns!Resume, Turns!To, ContextTouches,
     Turns!results, Turns!reading, Turns!rows
<1>5. Turns!StageSound(t)'
  BY <1>2, <1>4 DEF Turns!StageSound, Turns!Entered
<1>6. \A f \in Turns!Files \ {turns_row[c].mode} : Turns!Fresh(f, c, turns_row[c].thread)'
  BY <1>1, <1>2, <1>4, ContextOwnFacts DEF Turns!Fresh, ContextTouches
<1>7. turns_row[c].mode \in Turns!Files =>
         Turns!Reached(t, checkpoint[turns_row[c].mode][c][turns_row[c].thread],
             Turns!Completed(accepted[c], status))'
  BY <1>1, <1>2, <1>4, ContextOwnFacts DEF Turns!Reached, Turns!Answered, ContextTouches
<1>8. ContextOwnTurn(t, c)
  BY <1>1, <1>2, <1>4, <1>5, <1>6, <1>7, ContextOwnFacts DEF ContextOwnTurn
<1> QED BY <1>1, <1>2, <1>3, <1>4, <1>8, ContextOwnStep

LEMMA ContextDropStep ==
    ASSUME Turns!ContextInv, Turns!TurnBound, NEW t \in Turns!Turns, Turns!Drop(t)
    PROVE  Turns!ContextInv'
<1>1. PICK c \in Conversations : ContextOwns(c, t)
  BY ContextMovesLast DEF Turns!Drop, Turns!Waiting, ContextMoves
<1>2. Turns!StageSound(t) /\ turns_at[t] = "off" /\ status[t] = "interrupted"
  BY <1>1, ContextOwnFacts DEF Turns!Drop, Turns!Waiting
<1>3. PICK s \in {"stopped"} : status' = [status EXCEPT ![t] = s]
  BY DEF Turns!Drop
<1>4. Turns!ContextTypes'
  BY <1>3 DEF Turns!ContextInv, Turns!ContextTypes, Turns!Drop, Turns!results, Turns!reading,
     Turns!rows, Turns!Terminal
<1>5. ContextTouches(t, c) /\ turns_at' = turns_at /\ status'[t] = s /\ lease'[t] = FALSE
      /\ fallback' = fallback /\ outcome' = outcome /\ context' = context
         /\ checkpoint' = checkpoint
  BY <1>3 DEF Turns!ContextInv, Turns!ContextTypes, Turns!Drop, ContextTouches, Turns!results,
     Turns!reading, Turns!rows
<1>6. Turns!StageSound(t)'
  BY <1>2, <1>5 DEF Turns!StageSound, Turns!Entered, Turns!Terminal
<1>7. ~Turns!MayContinue(t)'
  BY <1>2, <1>5 DEF Turns!MayContinue, Turns!Continues
<1>8. ContextOwnTurn(t, c)
  BY <1>1, <1>2, <1>5, <1>6, <1>7, ContextOwnFacts DEF ContextOwnTurn
<1> QED BY <1>1, <1>2, <1>4, <1>5, <1>8, ContextOwnStep

-----------------------------------------------------------------------------
(* The conversation *)

\* A row changes, but neither its thread nor the mode of a conversation with turns.
LEMMA ContextRowStep ==
    ASSUME Turns!ContextInv, Turns!ContextTypes',
           \A d \in Conversations : /\ turns_row'[d].thread = turns_row[d].thread
                                    /\ accepted[d] # <<>> => turns_row'[d].mode = turns_row[d].mode,
           UNCHANGED <<accepted, status, thread, lease, fallback, turns_at, outcome, checkpoint,
                       context>>
    PROVE  Turns!ContextInv'
<1>1. Turns!Numbered' /\ Turns!OnlyLastMoves' /\ Turns!ContextIsHistory'
  BY DEF Turns!ContextInv, Turns!Numbered, Turns!OnlyLastMoves, Turns!ContextIsHistory,
     Turns!Settled, Turns!Earlier
<1>2. \A t \in Turns!Turns : Turns!StageSound(t)'
  BY DEF Turns!ContextInv, Turns!StageSound, Turns!Entered
<1>3. ASSUME NEW d \in Conversations PROVE Turns!ThreadSound(d)'
  <2>1. Turns!ThreadSound(d)
    BY DEF Turns!ContextInv
  <2>2. Turns!LastOf(d)' = Turns!LastOf(d)
        /\ (Turns!MayContinue(Turns!LastOf(d))' <=> Turns!MayContinue(Turns!LastOf(d)))
    BY DEF Turns!LastOf, Turns!MayContinue, Turns!Continues
  <2>3. \A f \in Turns!Files, n \in Turns!Threads : Turns!Fresh(f, d, n)' <=> Turns!Fresh(f, d, n)
    BY DEF Turns!Fresh
  <2>4. CASE accepted[d] = <<>>
    BY <2>1, <2>3, <2>4 DEF Turns!ThreadSound
  <2>5. CASE accepted[d] # <<>>
    <3>1. turns_row'[d].thread = turns_row[d].thread /\ turns_row'[d].mode = turns_row[d].mode
      BY <2>5
    <3>2. \A f \in Turns!Files : Turns!Fresh(f, d, turns_row[d].thread)'
          <=> Turns!Fresh(f, d, turns_row[d].thread)
      BY <3>1 DEF Turns!Fresh
    <3>3. Turns!Reached(Turns!LastOf(d), checkpoint[turns_row[d].mode][d][turns_row[d].thread],
          Turns!Completed(accepted[d], status))'
          <=> Turns!Reached(Turns!LastOf(d), checkpoint[turns_row[d].mode][d][turns_row[d].thread],
              Turns!Completed(accepted[d], status))
      BY <2>2, <3>1 DEF Turns!Reached, Turns!Answered
    <3> QED BY <2>1, <2>2, <2>3, <2>5, <3>1, <3>2, <3>3 DEF Turns!ThreadSound
  <2> QED BY <2>4, <2>5
<1> QED BY <1>1, <1>2, <1>3 DEF Turns!ContextInv

LEMMA ContextConversationStep ==
    ASSUME Turns!ContextInv, Turns!TurnBound, NEW c \in Conversations,
           Turns!CreateConversation(c) \/ Turns!Archive(c) \/ Turns!Delete(c)
    PROVE  Turns!ContextInv'
<1>1. UNCHANGED <<accepted, status, thread, lease, fallback, turns_at, outcome, checkpoint,
                  context>>
  BY DEF Turns!CreateConversation, Turns!Archive, Turns!Delete, Turns!results, Turns!reading
<1>2. turns_row \in [Conversations -> Turns!Rows] /\ Turns!ThreadSound(c)
  BY DEF Turns!ContextInv, Turns!ContextTypes
<1>3. turns_row' \in [Conversations -> Turns!Rows]
      /\ \A d \in Conversations : /\ turns_row'[d].thread = turns_row[d].thread
                                  /\ accepted[d] # <<>> => turns_row'[d].mode = turns_row[d].mode
  <2>1. CASE Turns!CreateConversation(c)
    <3>1. accepted[c] = <<>>
      BY <1>2, <2>1 DEF Turns!CreateConversation, Turns!ThreadSound
    <3>2. PICK m \in Turns!Modes : turns_row' = [turns_row EXCEPT ![c].mode = m]
      BY <2>1 DEF Turns!CreateConversation
    <3> QED BY <1>2, <3>1, <3>2 DEF Turns!Rows
  <2>2. CASE Turns!Archive(c)
    BY <1>2, <2>2 DEF Turns!Archive, Turns!Rows
  <2>3. CASE Turns!Delete(c)
    BY <1>2, <2>3 DEF Turns!Delete, Turns!Rows
  <2> QED BY <2>1, <2>2, <2>3
<1>4. Turns!ContextTypes'
  BY <1>1, <1>3 DEF Turns!ContextInv, Turns!ContextTypes
<1> QED BY <1>1, <1>3, <1>4, ContextRowStep

LEMMA ContextInitInv == Turns!Init /\ Turns!TurnBound => Turns!ContextInv
<1> SUFFICES ASSUME Turns!Init, Turns!TurnBound PROVE Turns!ContextInv
  OBVIOUS
<1>1. 0 \in Turns!Threads
  BY DEF Turns!TurnBound, Turns!Threads
<1>2. Turns!ContextTypes
  <2>1. <<>> \in Seq(Turns!Turns) /\ <<>> \in Seq(Turns!Entries)
    BY EmptySeq
  <2>2. [list |-> <<>>, pending |-> FALSE] \in Turns!Checkpoints
    BY <2>1 DEF Turns!Checkpoints
  <2>3. [mode |-> "none", thread |-> 0, archived |-> FALSE, deleted |-> FALSE] \in Turns!Rows
    BY <1>1 DEF Turns!Rows
  <2> QED BY <1>1, <2>1, <2>2, <2>3 DEF Turns!Init, Turns!ContextTypes
<1>3. \A c \in Conversations : accepted[c] = <<>> /\ DOMAIN accepted[c] = {}
      /\ turns_row[c].thread = 0
  BY DEF Turns!Init
<1>4. Turns!Numbered /\ Turns!OnlyLastMoves /\ Turns!ContextIsHistory
  BY <1>3 DEF Turns!Init, Turns!Numbered, Turns!OnlyLastMoves, Turns!ContextIsHistory
<1>5. \A t \in Turns!Turns : Turns!StageSound(t)
  BY DEF Turns!Init, Turns!StageSound, Turns!Entered
<1>6. \A c \in Conversations : Turns!ThreadSound(c)
  BY <1>3 DEF Turns!Init, Turns!ThreadSound, Turns!Fresh
<1> QED BY <1>2, <1>4, <1>5, <1>6 DEF Turns!ContextInv

\* An idle conversation has only settled turns.
LEMMA ContextIdleSettled ==
    ASSUME Turns!ContextInv, Turns!TurnBound, NEW c \in Conversations, Turns!Idle(c),
           NEW n \in DOMAIN accepted[c]
    PROVE  Turns!Settled(accepted[c][n])
<1>1. /\ accepted[c] \in Seq(Turns!Turns) /\ DOMAIN accepted[c] = 1..Len(accepted[c])
      /\ accepted[c][n] \in Turns!Turns
  BY ContextShapes DEF Turns!ContextInv
<1>2. PICK u \in Turns!Turns : u = accepted[c][n]
  BY <1>1
<1>3. ~lease[u] /\ status[u] \notin {"queued", "running", "interrupted"}
  BY <1>1, <1>2 DEF Turns!Idle, Turns!ToSet
<1>4. status[u] # "none"
  BY <1>2 DEF Turns!ContextInv, Turns!Numbered
<1>5. Turns!StageSound(u)
  BY DEF Turns!ContextInv
<1>6. Turns!Settled(u)
  BY <1>3, <1>4, <1>5 DEF Turns!StageSound, Turns!Entered, Turns!Settled, Turns!ContextInv,
     Turns!ContextTypes
<1> QED BY <1>2, <1>6

\* The thread of the next turn, and what its checkpoints hold.
LEMMA ContextNextThreadIs ==
    ASSUME Turns!ContextInv, Turns!TurnBound, NEW c \in Conversations, Turns!Idle(c),
           turns_row[c].mode # "none",
           NEW t \in Turns!Turns, status[t] = "none", \A u \in 1..(t - 1) : status[u] # "none",
           \A n \in DOMAIN accepted[c] : accepted[c][n] < t
    PROVE  /\ Turns!NextThread(c) \in Turns!Threads /\ Turns!NextThread(c) < t
           /\ \A f \in Turns!Files, n \in Turns!Threads : Turns!NextThread(c) < n
              => Turns!Fresh(f, c, n)
           /\ \A f \in Turns!Files \ {turns_row[c].mode} : Turns!Fresh(f, c, Turns!NextThread(c))
           /\ turns_row[c].mode \in Turns!Files =>
                /\ ~checkpoint[turns_row[c].mode][c][Turns!NextThread(c)].pending
                /\ \/ checkpoint[turns_row[c].mode][c][Turns!NextThread(c)].list = <<>>
                   \/ Turns!Keeps(checkpoint[turns_row[c].mode][c][Turns!NextThread(c)].list,
                      Turns!Completed(accepted[c], status))
<1>1. /\ MaxTurns \in Nat /\ t \in 1..MaxTurns /\ Turns!Turns = 1..MaxTurns
         /\ Turns!Threads = 0..MaxTurns
      /\ accepted[c] \in Seq(Turns!Turns) /\ turns_row[c].thread \in Turns!Threads
  BY ContextShapes DEF Turns!ContextInv, Turns!Rows, Turns!Turns, Turns!Threads
<1>2. Turns!ThreadSound(c)
  BY DEF Turns!ContextInv
<1>3. CASE accepted[c] = <<>>
  <2>1. Turns!NextThread(c) = 0 /\ \A f \in Turns!Files, n \in Turns!Threads : Turns!Fresh(f, c, n)
    BY <1>2, <1>3 DEF Turns!NextThread, Turns!ThreadSound
  <2> QED BY <1>1, <2>1 DEF Turns!Fresh
<1>4. CASE accepted[c] # <<>>
  <2>1. PICK l \in Turns!Turns : /\ l = Turns!LastOf(c) /\ l = Turns!Last(accepted[c])
                                    /\ l = accepted[c][Len(accepted[c])]
                                 /\ Len(accepted[c]) \in DOMAIN accepted[c]
    BY <1>4, ContextLastTurn DEF Turns!ContextInv
  <2>2. l < t /\ turns_row[c].thread < l /\ Turns!Settled(l)
    BY <1>2, <1>4, <2>1, ContextIdleSettled DEF Turns!ThreadSound
  <2>3. \A f \in Turns!Files, n \in Turns!Threads : turns_row[c].thread < n => Turns!Fresh(f, c, n)
    BY <1>2 DEF Turns!ThreadSound
  <2>4. CASE ~Turns!Continues(l)
    <3>1. Turns!NextThread(c) = turns_row[c].thread + 1
      BY <1>4, <2>1, <2>4 DEF Turns!NextThread
    <3>2. Turns!NextThread(c) \in Turns!Threads /\ Turns!NextThread(c) < t
          /\ turns_row[c].thread < Turns!NextThread(c)
      <4>1. PICK r \in 0..MaxTurns : r = turns_row[c].thread
        BY <1>1
      <4>2. r < l /\ l < t /\ l \in 1..MaxTurns /\ Turns!NextThread(c) = r + 1
        BY <1>1, <2>1, <2>2, <3>1, <4>1
      <4>3. r + 1 \in 0..MaxTurns /\ r + 1 < t /\ r < r + 1
        BY <1>1, <4>2
      <4> QED BY <1>1, <4>1, <4>2, <4>3
    <3>3. \A f \in Turns!Files : Turns!Fresh(f, c, Turns!NextThread(c))
      BY <2>3, <3>2
    <3>4. \A n \in Turns!Threads : Turns!NextThread(c) < n => turns_row[c].thread < n
      BY <1>1, <3>1
    <3> QED BY <2>3, <3>2, <3>3, <3>4 DEF Turns!Fresh
  <2>5. CASE Turns!Continues(l)
    <3>1. Turns!NextThread(c) = turns_row[c].thread
      BY <2>1, <2>5 DEF Turns!NextThread
    <3>2. Turns!MayContinue(l) /\ turns_at[l] = "off" /\ status[l] = "completed"
      BY <2>2, <2>5 DEF Turns!MayContinue, Turns!Settled, Turns!Continues
    <3>3. Turns!NextThread(c) < t /\ Turns!NextThread(c) \in Turns!Threads
      BY <1>1, <2>1, <2>2, <3>1
    <3>4. /\ \A f \in Turns!Files \ {turns_row[c].mode} : Turns!Fresh(f, c, turns_row[c].thread)
          /\ turns_row[c].mode \in Turns!Files =>
                 Turns!Reached(l, checkpoint[turns_row[c].mode][c][turns_row[c].thread],
                     Turns!Completed(accepted[c], status))
      BY <1>2, <1>4, <2>1, <3>2 DEF Turns!ThreadSound
    <3>5. context[l] # <<>> => Turns!Keeps(context[l], Turns!Completed(accepted[c], status))
      <4>1. Turns!Completed(accepted[c], status)
            = Append(Turns!Completed(Turns!Earlier(c, Len(accepted[c])), status), l)
        BY <1>4, <2>1, <3>2, ContextBeforeLast DEF Turns!ContextInv
      <4> QED BY <2>1, <4>1 DEF Turns!ContextInv, Turns!ContextIsHistory
    <3>6. turns_row[c].mode \in Turns!Files =>
             /\ ~checkpoint[turns_row[c].mode][c][turns_row[c].thread].pending
             /\ Turns!Keeps(checkpoint[turns_row[c].mode][c][turns_row[c].thread].list,
                Turns!Completed(accepted[c], status))
      BY <3>2, <3>4, <3>5 DEF Turns!Reached, Turns!Answered
    <3> QED BY <2>3, <3>1, <3>3, <3>4, <3>6
  <2> QED BY <2>4, <2>5
<1> QED BY <1>3, <1>4

LEMMA ContextAcceptStep ==
    ASSUME Turns!ContextInv, Turns!TurnBound, NEW c \in Conversations, NEW t \in Turns!Turns,
           Turns!Accept(t, c)
    PROVE  Turns!ContextInv'
<1>1. /\ status[t] = "none" /\ \A u \in 1..(t - 1) : status[u] # "none"
      /\ turns_row[c].mode # "none" /\ Turns!Idle(c)
  BY DEF Turns!Accept, Turns!Live
<1>2. /\ MaxTurns \in Nat /\ t \in 1..MaxTurns /\ Turns!Turns = 1..MaxTurns
      /\ \A d \in Conversations : /\ accepted[d] \in Seq(Turns!Turns) /\ Len(accepted[d]) \in Nat
                                  /\ DOMAIN accepted[d] = 1..Len(accepted[d])
                                  /\ \A n \in DOMAIN accepted[d] : accepted[d][n] \in Turns!Turns
  BY ContextShapes DEF Turns!ContextInv, Turns!Turns
\* the turn is newer than all the others
<1>3. ASSUME NEW d \in Conversations, NEW n \in DOMAIN accepted[d]
      PROVE  /\ accepted[d][n] \in Turns!Turns \ {t} /\ accepted[d][n] < t
                /\ status[accepted[d][n]] # "none"
  <2>1. PICK u \in Turns!Turns : u = accepted[d][n]
    BY <1>2
  <2>2. status[u] # "none"
    BY <2>1 DEF Turns!ContextInv, Turns!Numbered
  <2>3. ~(t < u)
    BY <1>1, <2>2 DEF Turns!ContextInv, Turns!Numbered
  <2> QED BY <1>1, <1>2, <2>1, <2>2, <2>3
<1>4. PICK k \in Turns!Threads :
         /\ k = Turns!NextThread(c) /\ k < t
         /\ \A f \in Turns!Files, n \in Turns!Threads : k < n => Turns!Fresh(f, c, n)
         /\ \A f \in Turns!Files \ {turns_row[c].mode} : Turns!Fresh(f, c, k)
         /\ turns_row[c].mode \in Turns!Files =>
              /\ ~checkpoint[turns_row[c].mode][c][k].pending
              /\ \/ checkpoint[turns_row[c].mode][c][k].list = <<>>
                 \/ Turns!Keeps(checkpoint[turns_row[c].mode][c][k].list,
                    Turns!Completed(accepted[c], status))
  BY <1>1, <1>3, ContextNextThreadIs
<1>5. PICK s \in Seq(Turns!Turns) : s = accepted[c] /\ Len(s) \in Nat
  BY <1>2
<1>6. /\ Append(s, t) \in Seq(Turns!Turns) /\ Len(Append(s, t)) = Len(s) + 1
         /\ Append(s, t)[Len(s) + 1] = t
      /\ \A n \in 1..Len(s) : Append(s, t)[n] = s[n]
      /\ DOMAIN Append(s, t) = 1..(Len(s) + 1) /\ Append(s, t) # <<>>
  BY <1>5, AppendProperties, LenProperties
<1>7. /\ turns_row' = [turns_row EXCEPT ![c].thread = k] /\ thread' = [thread EXCEPT ![t] = k]
      /\ accepted' = [accepted EXCEPT ![c] = Append(s, t)]
      /\ status' = [status EXCEPT ![t] = "queued"] /\ lease' = [lease EXCEPT ![t] = TRUE]
      /\ turns_at' = [turns_at EXCEPT ![t] = "queued"]
      /\ outcome' = outcome /\ fallback' = fallback /\ checkpoint' = checkpoint
         /\ context' = context
  BY <1>4, <1>5 DEF Turns!Accept, Turns!results, Turns!reading
<1>8. Turns!ContextTypes'
  <2>1. turns_row' \in [Conversations -> Turns!Rows]
    <3>1. PICK v \in Turns!Rows : v = [turns_row[c] EXCEPT !.thread = k]
      <4>1. PICK r \in Turns!Rows : r = turns_row[c]
        BY DEF Turns!ContextInv, Turns!ContextTypes
      <4>2. [r EXCEPT !.thread = k] \in Turns!Rows
        BY DEF Turns!Rows
      <4> QED BY <4>1, <4>2
    <3>2. turns_row' = [turns_row EXCEPT ![c] = v]
      BY <1>7, <3>1
    <3> QED BY <3>2 DEF Turns!ContextInv, Turns!ContextTypes
  <2> QED BY <1>6, <1>7, <2>1 DEF Turns!ContextInv, Turns!ContextTypes
<1>9. /\ accepted'[c] = Append(s, t) /\ \A d \in Conversations : d # c => accepted'[d] = accepted[d]
      /\ status'[t] = "queued" /\ lease'[t] = TRUE /\ turns_at'[t] = "queued" /\ thread'[t] = k
      /\ \A u \in Turns!Turns \ {t} : /\ status'[u] = status[u] /\ lease'[u] = lease[u]
                                         /\ turns_at'[u] = turns_at[u]
                                      /\ thread'[u] = thread[u]
      /\ turns_row'[c].thread = k /\ turns_row'[c].mode = turns_row[c].mode
      /\ \A d \in Conversations : d # c => turns_row'[d] = turns_row[d]
  BY <1>7 DEF Turns!ContextInv, Turns!ContextTypes, Turns!Rows
\* what the conversations have after the step
<1>10. ASSUME NEW d \in Conversations, NEW n \in DOMAIN accepted'[d]
       PROVE  \/ d = c /\ n = Len(s) + 1 /\ accepted'[d][n] = t
              \/ n \in DOMAIN accepted[d] /\ accepted'[d][n] = accepted[d][n]
  <2>1. CASE d = c
    <3>1. accepted'[d] = Append(s, t) /\ DOMAIN accepted[d] = 1..Len(s) /\ accepted[d] = s
      BY <1>2, <1>5, <1>9, <2>1
    <3>2. n \in 1..(Len(s) + 1) /\ (n # Len(s) + 1 => n \in 1..Len(s))
      BY <1>5, <1>6, <3>1
    <3> QED BY <1>6, <2>1, <3>1, <3>2
  <2>2. CASE d # c
    BY <1>9, <2>2
  <2> QED BY <2>1, <2>2
<1>11. ASSUME NEW d \in Conversations, NEW n \in DOMAIN accepted[d]
       PROVE  n \in DOMAIN accepted'[d] /\ accepted'[d][n] = accepted[d][n]
  <2>1. CASE d = c
    <3>1. accepted'[d] = Append(s, t) /\ DOMAIN accepted[d] = 1..Len(s) /\ accepted[d] = s
      BY <1>2, <1>5, <1>9, <2>1
    <3>2. n \in 1..Len(s) /\ n \in 1..(Len(s) + 1)
      BY <1>5, <3>1
    <3> QED BY <1>6, <3>1, <3>2
  <2>2. CASE d # c
    BY <1>9, <2>2
  <2> QED BY <2>1, <2>2
<1>12. Turns!Numbered'
  <2>1. \A u \in Turns!Turns : status'[u] # "none" <=> u = t \/ status[u] # "none"
    BY <1>9
  <2>2. ASSUME NEW u \in Turns!Turns, NEW v \in Turns!Turns, v < u, status'[u] # "none"
        PROVE  status'[v] # "none"
    <3>1. CASE u = t
      <4>1. v \in 1..(t - 1)
        BY <1>2, <2>2, <3>1
      <4> QED BY <1>1, <2>1, <4>1
    <3>2. CASE u # t
      BY <2>1, <2>2, <3>2 DEF Turns!ContextInv, Turns!Numbered
    <3> QED BY <3>1, <3>2
  <2>3. ASSUME NEW u \in Turns!Turns
        PROVE  status'[u] # "none" <=>
                  \E d \in Conversations : \E n \in DOMAIN accepted'[d] : accepted'[d][n] = u
    <3>1. CASE u = t
      <4>1. Len(s) + 1 \in DOMAIN accepted'[c] /\ accepted'[c][Len(s) + 1] = t
        BY <1>5, <1>6, <1>9
      <4> QED BY <1>9, <3>1, <4>1
    <3>2. CASE u # t
      <4>1. (\E d \in Conversations : \E n \in DOMAIN accepted'[d] : accepted'[d][n] = u)
            <=> \E d \in Conversations : \E n \in DOMAIN accepted[d] : accepted[d][n] = u
        BY <1>10, <1>11, <3>2
      <4> QED BY <2>1, <3>2, <4>1 DEF Turns!ContextInv, Turns!Numbered
    <3> QED BY <3>1, <3>2
  <2>4. ASSUME NEW d \in Conversations, NEW m \in DOMAIN accepted'[d],
               NEW n \in DOMAIN accepted'[d], m < n
        PROVE  accepted'[d][m] < accepted'[d][n]
    <3>1. m \in DOMAIN accepted[d] /\ accepted'[d][m] = accepted[d][m]
      <4>1. CASE d = c
        <5>1. m \in 1..(Len(s) + 1) /\ n \in 1..(Len(s) + 1)
          BY <1>6, <1>9, <4>1
        <5>2. m # Len(s) + 1
          BY <1>5, <2>4, <5>1
        <5> QED BY <1>10, <5>2
      <4>2. CASE d # c
        BY <1>9, <4>2
      <4> QED BY <4>1, <4>2
    <3>2. CASE accepted'[d][n] = t
      BY <1>3, <3>1, <3>2
    <3>3. CASE accepted'[d][n] # t
      <4>1. n \in DOMAIN accepted[d] /\ accepted'[d][n] = accepted[d][n]
        BY <1>10, <3>3
      <4> QED BY <2>4, <3>1, <4>1 DEF Turns!ContextInv, Turns!Numbered
    <3> QED BY <3>2, <3>3
  <2>5. ASSUME NEW d \in Conversations, NEW e \in Conversations,
               NEW m \in DOMAIN accepted'[d], NEW n \in DOMAIN accepted'[e],
               accepted'[d][m] = accepted'[e][n]
        PROVE  d = e
    <3>1. CASE accepted'[d][m] = t
      <4>1. d = c
        BY <1>3, <1>10, <3>1
      <4>2. accepted'[e][n] = t
        BY <2>5, <3>1
      <4>3. e = c
        BY <1>3, <1>10, <4>2
      <4> QED BY <4>1, <4>3
    <3>2. CASE accepted'[d][m] # t
      BY <1>10, <2>5, <3>2 DEF Turns!ContextInv, Turns!Numbered
    <3> QED BY <3>1, <3>2
  <2> QED BY <2>2, <2>3, <2>4, <2>5 DEF Turns!Numbered
<1>13. Turns!OnlyLastMoves'
  <2> SUFFICES ASSUME NEW d \in Conversations, NEW n \in DOMAIN accepted'[d], n < Len(accepted'[d])
               PROVE  Turns!Settled(accepted[d][n])'
    BY DEF Turns!OnlyLastMoves
  <2>1. n \in DOMAIN accepted[d] /\ accepted'[d][n] = accepted[d][n]
        /\ Turns!Settled(accepted[d][n])
    <3>1. CASE d = c
      <4>1. n # Len(s) + 1
        BY <1>6, <1>9, <3>1, <1>5
      <4>2. n \in DOMAIN accepted[d] /\ accepted'[d][n] = accepted[d][n]
        BY <1>10, <4>1
      <4> QED BY <1>1, <3>1, <4>2, ContextIdleSettled
    <3>2. CASE d # c
      BY <1>9, <3>2 DEF Turns!ContextInv, Turns!OnlyLastMoves
    <3> QED BY <3>1, <3>2
  <2>2. PICK u \in Turns!Turns \ {t} : u = accepted[d][n]
    BY <1>3, <2>1
  <2>3. Turns!Settled(u)'
    BY <1>9, <2>1, <2>2 DEF Turns!Settled
  <2>4. u = accepted'[d][n]
    BY <2>1, <2>2
  <2> QED BY <2>3, <2>4
<1>14. Turns!ContextIsHistory'
  <2> SUFFICES ASSUME NEW d \in Conversations, NEW n \in DOMAIN accepted'[d]
               PROVE  LET u == accepted'[d][n] IN
                      context'[u] # <<>> =>
                          Turns!Keeps(context'[u],
                              Append(Turns!Completed(SubSeq(accepted'[d], 1, n - 1), status'), u))
    BY DEF Turns!ContextIsHistory, Turns!Earlier
  <2>1. CASE accepted'[d][n] = t
    BY <1>1, <1>7, <2>1 DEF Turns!ContextInv, Turns!StageSound, Turns!Entered
  <2>2. CASE accepted'[d][n] # t
    <3>1. n \in DOMAIN accepted[d] /\ accepted'[d][n] = accepted[d][n]
      BY <1>10, <2>2
    <3> PICK st, st2 : st = status /\ st2 = status'
      OBVIOUS
    <3>2. PICK r \in Seq(Turns!Turns) : r = accepted[d] /\ n \in 1..Len(r)
      BY <1>2, <3>1
    <3>3. SubSeq(accepted'[d], 1, n - 1) = SubSeq(r, 1, n - 1)
      <4>1. CASE d = c
        <5>1. r = s
          BY <1>5, <3>2, <4>1
        <5>2. SubSeq(Append(s, t), 1, n - 1) = SubSeq(s, 1, n - 1)
          BY <3>2, <5>1, ContextPrefixOfAppend
        <5> QED BY <1>9, <4>1, <5>1, <5>2
      <4>2. CASE d # c
        BY <1>9, <3>2, <4>2
      <4> QED BY <4>1, <4>2
    <3>4. ContextAgree(r, n - 1, st, st2)
      <4> SUFFICES ASSUME NEW i \in 1..(n - 1)
                   PROVE  st[r[i]] = "completed" <=> st2[r[i]] = "completed"
        BY DEF ContextAgree
      <4>1. i \in DOMAIN accepted[d]
        BY <1>2, <3>2
      <4>2. r[i] \in Turns!Turns \ {t}
        BY <1>3, <3>2, <4>1
      <4> QED BY <1>9, <3>2, <4>2
    <3>5. Turns!Completed(SubSeq(r, 1, n - 1), st) = Turns!Completed(SubSeq(r, 1, n - 1), st2)
      BY <3>2, <3>4, ContextPrefixSame
    <3>6. context[accepted[d][n]] # <<>> =>
             Turns!Keeps(context[accepted[d][n]],
                 Append(Turns!Completed(SubSeq(r, 1, n - 1), st), accepted[d][n]))
      BY <3>1, <3>2 DEF Turns!ContextInv, Turns!ContextIsHistory, Turns!Earlier
    <3> QED BY <1>7, <3>1, <3>2, <3>3, <3>5, <3>6
  <2> QED BY <2>1, <2>2
<1>15. ASSUME NEW u \in Turns!Turns PROVE Turns!StageSound(u)'
  <2>1. CASE u = t
    BY <1>9, <2>1 DEF Turns!StageSound, Turns!Entered
  <2>2. CASE u # t
    <3>1. Turns!StageSound(u)
      BY DEF Turns!ContextInv
    <3> QED BY <1>7, <1>9, <2>2, <3>1 DEF Turns!StageSound, Turns!Entered
  <2> QED BY <2>1, <2>2
<1>16. ASSUME NEW d \in Conversations PROVE Turns!ThreadSound(d)'
  <2>1. CASE d # c
    <3>1. turns_row'[d] = turns_row[d] /\ accepted'[d] = accepted[d]
      BY <1>9, <2>1
    <3>2. \A n \in DOMAIN accepted[d] :
             LET u == accepted[d][n] IN
             /\ thread'[u] = thread[u] /\ status'[u] = status[u] /\ turns_at'[u] = turns_at[u]
                /\ fallback'[u] = fallback[u]
             /\ outcome'[u] = outcome[u] /\ context'[u] = context[u]
      BY <1>3, <1>7, <1>9
    <3>3. \A f \in Turns!Files, n \in Turns!Threads : checkpoint'[f][d][n] = checkpoint[f][d][n]
      BY <1>7
    <3> QED BY <3>1, <3>2, <3>3, ContextThreadStays
  <2>2. CASE d = c
    <3>1. accepted'[c] # <<>> /\ Turns!Last(accepted'[c]) = t
      BY <1>5, <1>6, <1>9 DEF Turns!Last
    <3>2. \A f \in Turns!Files, n \in Turns!Threads : Turns!Fresh(f, c, n)' <=> Turns!Fresh(f, c, n)
      BY <1>7 DEF Turns!Fresh
    <3>3. Turns!Completed(accepted'[c], status') = Turns!Completed(accepted[c], status)
      <4>1. PICK st, st2 : st = status /\ st2 = status'
        OBVIOUS
      <4>2. ContextAgree(s, Len(s), st, st2)
        <5> SUFFICES ASSUME NEW n \in 1..Len(s)
                     PROVE  st[s[n]] = "completed" <=> st2[s[n]] = "completed"
          BY DEF ContextAgree
        <5>1. s[n] \in Turns!Turns \ {t}
          BY <1>2, <1>3, <1>5
        <5> QED BY <1>9, <4>1, <5>1
      <4>3. Turns!Completed(s, st) = Turns!Completed(s, st2)
        BY <4>2, ContextCompletedSame
      <4>4. st2[t] # "completed"
        BY <1>9, <4>1
      <4>5. Turns!Completed(Append(s, t), st2) = Turns!Completed(s, st2)
        BY <4>4, ContextCompletedAppend
      <4> QED BY <1>5, <1>9, <4>1, <4>3, <4>5
    <3>4. turns_row[c].mode \in Turns!Files =>
             Turns!Reached(t, checkpoint[turns_row[c].mode][c][turns_row[c].thread],
                 Turns!Completed(accepted[c], status))'
      BY <1>4, <1>7, <1>9, <3>3 DEF Turns!Reached
    <3>5. \A f \in Turns!Files \ {turns_row'[c].mode} : Turns!Fresh(f, c, turns_row[c].thread)'
      BY <1>4, <1>7, <1>9 DEF Turns!Fresh
    <3>6. Turns!LastOf(c)' = t
      BY <3>1 DEF Turns!LastOf
    <3> QED BY <1>1, <1>4, <1>9, <2>2, <3>1, <3>2, <3>4, <3>5, <3>6 DEF Turns!ThreadSound
  <2> QED BY <2>1, <2>2
<1> QED BY <1>8, <1>12, <1>13, <1>14, <1>15, <1>16 DEF Turns!ContextInv

LEMMA ContextRestartStep ==
    ASSUME Turns!ContextInv, Turns!TurnBound, Turns!Restart
    PROVE  Turns!ContextInv'
<1>1. /\ turns_row' = turns_row /\ accepted' = accepted /\ thread' = thread /\ fallback' = fallback
         /\ outcome' = outcome
      /\ checkpoint' = checkpoint /\ context' = context /\ turns_at' = [t \in Turns!Turns |-> "off"]
      /\ status' = [t \in Turns!Turns |-> IF status[t] \in {"queued", "running"} THEN "stopped"
         ELSE status[t]]
      /\ lease' = [t \in Turns!Turns |-> lease[t] /\ status[t] = "interrupted"]
  BY DEF Turns!Restart, Turns!results, Turns!reading, Turns!rows
<1>2. \A t \in Turns!Turns : /\ turns_at'[t] = "off"
                                /\ (status'[t] = "completed" <=> status[t] = "completed")
                             /\ (status'[t] = "none" <=> status[t] = "none")
                             /\ (status[t] \notin {"queued", "running"} => status'[t] = status[t])
                             /\ (status'[t] = "interrupted" <=> status[t] = "interrupted")
                             /\ (lease'[t] <=> lease[t] /\ status[t] = "interrupted")
  BY <1>1
<1>3. Turns!ContextTypes'
  <2>1. status' \in [Turns!Turns -> Turns!Terminal \cup {"none", "queued", "running",
        "interrupted"}]
        /\ lease' \in [Turns!Turns -> BOOLEAN]
    BY <1>1 DEF Turns!ContextInv, Turns!ContextTypes, Turns!Terminal
  <2>2. turns_at' \in [Turns!Turns -> {"off", "queued", "begin", "model", "fallback", "resumed",
        "returned", "written"}]
    BY <1>1
  <2> QED BY <1>1, <2>1, <2>2 DEF Turns!ContextInv, Turns!ContextTypes
<1>4. \A d \in Conversations : /\ accepted[d] \in Seq(Turns!Turns)
                                  /\ DOMAIN accepted[d] = 1..Len(accepted[d])
                               /\ Len(accepted[d]) \in Nat
                                  /\ \A n \in DOMAIN accepted[d] : accepted[d][n] \in Turns!Turns
  BY ContextShapes DEF Turns!ContextInv
<1>5. Turns!Numbered'
  BY <1>1, <1>2 DEF Turns!ContextInv, Turns!Numbered
<1>6. \A t \in Turns!Turns : Turns!Settled(t) => Turns!Settled(t)'
  BY <1>2 DEF Turns!Settled, Turns!Terminal
<1>7. Turns!OnlyLastMoves'
  <2> SUFFICES ASSUME NEW d \in Conversations, NEW n \in DOMAIN accepted[d], n < Len(accepted[d])
               PROVE  Turns!Settled(accepted[d][n])'
    BY <1>1 DEF Turns!OnlyLastMoves
  <2>1. PICK u \in Turns!Turns : u = accepted[d][n]
    BY <1>4
  <2>2. Turns!Settled(u)'
    BY <1>6, <2>1 DEF Turns!ContextInv, Turns!OnlyLastMoves
  <2> QED BY <1>1, <2>1, <2>2
<1>8. Turns!ContextIsHistory'
  <2> SUFFICES ASSUME NEW d \in Conversations, NEW n \in DOMAIN accepted[d]
               PROVE  LET u == accepted[d][n] IN
                      context[u] # <<>> =>
                          Turns!Keeps(context[u],
                              Append(Turns!Completed(SubSeq(accepted[d], 1, n - 1), status'), u))
    BY <1>1 DEF Turns!ContextIsHistory, Turns!Earlier
  <2> PICK st, st2 : st = status /\ st2 = status'
    OBVIOUS
  <2>1. PICK r \in Seq(Turns!Turns) : r = accepted[d]
    BY <1>4
  <2>2. n \in 1..Len(r)
    BY <1>4, <2>1
  <2>3. ContextAgree(r, n - 1, st, st2)
    <3> SUFFICES ASSUME NEW i \in 1..(n - 1)
                 PROVE  st[r[i]] = "completed" <=> st2[r[i]] = "completed"
      BY DEF ContextAgree
    <3>1. i \in 1..Len(r)
      BY <1>4, <2>1
    <3>2. r[i] \in Turns!Turns
      BY <1>4, <2>1, <3>1
    <3> QED BY <1>2, <3>2
  <2>4. Turns!Completed(SubSeq(r, 1, n - 1), st) = Turns!Completed(SubSeq(r, 1, n - 1), st2)
    BY <2>2, <2>3, ContextPrefixSame
  <2>5. context[accepted[d][n]] # <<>> =>
           Turns!Keeps(context[accepted[d][n]],
               Append(Turns!Completed(SubSeq(r, 1, n - 1), st), accepted[d][n]))
    BY <2>1 DEF Turns!ContextInv, Turns!ContextIsHistory, Turns!Earlier
  <2> QED BY <2>1, <2>4, <2>5
<1>9. ASSUME NEW t \in Turns!Turns PROVE Turns!StageSound(t)'
  <2>1. Turns!StageSound(t)
        /\ status[t] \in Turns!Terminal \cup {"none", "queued", "running", "interrupted"}
    BY DEF Turns!ContextInv, Turns!ContextTypes
  <2>2. status'[t] \in Turns!Terminal \cup {"none", "interrupted"}
    BY <1>1, <2>1 DEF Turns!Terminal
  <2>3. status'[t] = "interrupted" => lease'[t]
    BY <1>2, <2>1 DEF Turns!StageSound
  <2>4. Turns!Entered(t)' => context[t] # <<>>
    <3>1. Turns!Entered(t)' => status[t] = "interrupted"
      BY <1>2 DEF Turns!Entered
    <3>2. status[t] = "interrupted" => turns_at[t] \in {"written", "off"}
      BY <2>1 DEF Turns!StageSound, Turns!ContextInv, Turns!ContextTypes
    <3> QED BY <2>1, <3>1, <3>2 DEF Turns!StageSound, Turns!Entered
  <2> QED BY <1>1, <1>2, <2>1, <2>2, <2>3, <2>4 DEF Turns!StageSound
<1>10. ASSUME NEW d \in Conversations PROVE Turns!ThreadSound(d)'
  <2>1. Turns!ThreadSound(d)
    BY DEF Turns!ContextInv
  <2>2. \A f \in Turns!Files, n \in Turns!Threads : Turns!Fresh(f, d, n)' <=> Turns!Fresh(f, d, n)
    BY <1>1 DEF Turns!Fresh
  <2>3. CASE accepted[d] = <<>>
    BY <1>1, <2>1, <2>2, <2>3 DEF Turns!ThreadSound
  <2>4. CASE accepted[d] # <<>>
    <3>1. PICK l \in Turns!Turns : l = Turns!LastOf(d)
      BY <2>4, ContextLastTurn DEF Turns!ContextInv
    <3>2. Turns!LastOf(d)' = l
      BY <1>1, <3>1 DEF Turns!LastOf
    <3>3. Turns!StageSound(l)
      BY DEF Turns!ContextInv
    <3>4. ASSUME Turns!MayContinue(l)'
          PROVE  Turns!MayContinue(l) /\ turns_at[l] \in {"written", "off"}
              /\ (Turns!Answered(l)' => Turns!Answered(l))
      <4>1. status[l] = "interrupted" \/ (status[l] = "completed" /\ ~fallback[l])
        BY <1>1, <1>2, <3>4 DEF Turns!MayContinue, Turns!Continues
      <4>2. turns_at[l] \in {"written", "off"}
        BY <3>3, <4>1 DEF Turns!StageSound, Turns!Entered, Turns!ContextInv, Turns!ContextTypes
      <4> QED BY <1>2, <4>1, <4>2 DEF Turns!MayContinue, Turns!Continues, Turns!Answered
    <3>5. ASSUME Turns!MayContinue(l)', turns_row[d].mode \in Turns!Files
          PROVE  Turns!Reached(l, checkpoint[turns_row[d].mode][d][turns_row[d].thread],
              Turns!Completed(accepted[d], status))'
      <4>1. Turns!Reached(l, checkpoint[turns_row[d].mode][d][turns_row[d].thread],
            Turns!Completed(accepted[d], status))
        BY <2>1, <2>4, <3>1, <3>4, <3>5 DEF Turns!ThreadSound
      <4> QED BY <1>1, <1>2, <3>4, <3>5, <4>1 DEF Turns!Reached
    <3>6. Turns!MayContinue(l)'
          => \A f \in Turns!Files \ {turns_row[d].mode} : Turns!Fresh(f, d, turns_row[d].thread)'
      BY <1>1, <2>1, <2>4, <3>1, <3>4 DEF Turns!ThreadSound, Turns!Fresh
    <3> QED BY <1>1, <2>1, <2>2, <2>4, <3>1, <3>2, <3>5, <3>6 DEF Turns!ThreadSound
  <2> QED BY <2>3, <2>4
<1> QED BY <1>3, <1>5, <1>7, <1>8, <1>9, <1>10 DEF Turns!ContextInv

LEMMA ContextNextStep == Turns!ContextInv /\ Turns!TurnBound /\ [Turns!Next]_(Turns!vars)
                         => Turns!ContextInv'
<1> SUFFICES ASSUME Turns!ContextInv, Turns!TurnBound, [Turns!Next]_(Turns!vars)
    PROVE Turns!ContextInv'
  OBVIOUS
<1>1. CASE UNCHANGED Turns!vars
  <2>1. Turns!ContextTypes'
    BY <1>1 DEF Turns!vars, Turns!ContextInv, Turns!ContextTypes
  <2> QED BY <1>1, <2>1, ContextRowStep DEF Turns!vars
<1>2. ASSUME NEW t \in Turns!Turns, Turns!Operation(t) PROVE Turns!ContextInv'
  BY <1>2, ContextStartStep, ContextEnterLegacyStep, ContextEnterEngineStep, ContextFallBackStep,
     ContextExchangeStep, ContextFinishesStep, ContextInterruptsStep, ContextRaisesStep,
     ContextWriteStep, ContextWriteCancelledStep, ContextReleaseStep DEF Turns!Operation
<1> QED BY <1>1, <1>2, ContextConversationStep, ContextAcceptStep, ContextResumeStep,
    ContextDropStep, ContextRestartStep DEF Turns!Next

\* A turn that has not read yet finds no pending work in any file of its thread.
LEMMA ContextSafe == Turns!ContextInv /\ Turns!TurnBound => Turns!TurnsContinueWhole
<1> SUFFICES ASSUME Turns!ContextInv, Turns!TurnBound, NEW t \in Turns!Turns,
    turns_at[t] \in {"queued", "begin"}, NEW f \in Turns!Files
             PROVE  ~Turns!Saved(t, f).pending
  BY DEF Turns!TurnsContinueWhole, Turns!ThreadIsFree, Turns!ContextInv
<1>1. PICK c \in Conversations : ContextOwns(c, t)
  BY ContextMovesLast DEF ContextMoves
<1>2. Turns!MayContinue(t)
  BY DEF Turns!MayContinue
<1>3. Turns!Saved(t, f) = checkpoint[f][c][turns_row[c].thread]
  BY <1>1, ContextSavedType DEF Turns!ContextInv
<1>4. CASE f = turns_row[c].mode
  <2>1. Turns!Reached(t, checkpoint[turns_row[c].mode][c][turns_row[c].thread],
        Turns!Completed(accepted[c], status))
    BY <1>1, <1>2, <1>4, ContextOwnFacts
  <2> QED BY <1>3, <1>4, <2>1 DEF Turns!Reached
<1>5. CASE f # turns_row[c].mode
  <2>1. Turns!Fresh(f, c, turns_row[c].thread)
    BY <1>1, <1>2, <1>5, ContextOwnFacts
  <2>2. ~checkpoint[f][c][turns_row[c].thread].pending
    BY <2>1 DEF Turns!Fresh
  <2> QED BY <1>3, <2>2
<1> QED BY <1>4, <1>5

-----------------------------------------------------------------------------
(* The components in their sum *)

LEMMA LeaseMoves == [SumNext]_allVars => [Next]_vars
BY DEF SumNext, allVars

LEMMA FramesMoves == [SumNext]_allVars => [Frames!Next]_(Frames!vars)
BY DEF SumNext, allVars, storesVars, Frames!vars

LEMMA ServiceMoves == [SumNext]_allVars => [Service!Next]_(Service!vars)
BY DEF SumNext, allVars, serviceVars, Service!vars

LEMMA VerificationMoves == [SumNext]_allVars => [Verification!Next]_(Verification!vars)
BY DEF SumNext, allVars, verificationVars, Verification!vars

LEMMA PatchMoves == [SumNext]_allVars => [Patch!Next]_(Patch!vars)
BY DEF SumNext, allVars, patchVars, Patch!vars

LEMMA TurnsMoves == [SumNext]_allVars => [Turns!Next]_(Turns!vars)
BY DEF SumNext, allVars, turnsVars, Turns!vars

\* A use of a store that reports success has committed and closed, and an error
\* of storage is with the owner at once (storage.py, tasks/manager.py).
THEOREM StoresHold == SumSpec => []StoresTruthful
<1>1. SumInit => Frames!StoresInv
  BY FramesInitInv DEF SumInit
<1>2. Frames!StoresInv => StoresTruthful
  BY DEF Frames!StoresInv, Frames!UseSound, Frames!Placed, Frames!Reported,
         Frames!Retained, Frames!ReleasedSound, Frames!StoresTruthful, StoresTruthful
<1> QED BY <1>1, <1>2, FramesMoves, FramesNextStep, PTL DEF SumSpec

\* Only the holder of the workspace's lock acts, and an effect of unknown outcome
\* keeps the next owner from acting (service.py, ownership.py).
THEOREM OwnershipInSum == SumSpec => []OwnershipHolds
<1>1. SumInit => Service!ServiceInv
  BY ServiceInitInv DEF SumInit
<1>2. Service!ServiceInv => OwnershipHolds
  <2> SUFFICES ASSUME Service!ServiceInv PROVE Service!OwnershipHolds
    BY DEF OwnershipHolds
  <2>1. Service!ActsUnderLock
    BY DEF Service!ServiceInv, Service!OpSound, Service!ReadSound, Service!ActsUnderLock
  <2>2. Service!UnknownQuarantines
    BY DEF Service!ServiceInv, Service!OpSound, Service!OpenIsOf, Service!UnknownQuarantines
  <2> QED BY <2>1, <2>2 DEF Service!OwnershipHolds
<1>3. Service!Names
  BY ComponentsAssumption
<1> QED BY <1>1, <1>2, <1>3, ServiceMoves, ServiceNextStep, PTL DEF SumSpec

\* A command of a verification runs under a row of its own, and the rows of a completed
\* review are what its processes did, in order: for every command of the plan, or, where
\* the plan stops at a failure, up to the first that failed (verification_reviews.py).
THEOREM EvidenceInSum == SumSpec => []EvidenceIsReal
<1>1. SumInit /\ Verification!PlanNames => Verification!VerificationInv
  BY VerificationInitInv DEF SumInit
<1>2. Verification!PlanNames
  BY ComponentsAssumption
<1>3. Verification!VerificationInv => EvidenceIsReal
  BY <1>2, VerificationRowsAreEvidence DEF EvidenceIsReal
<1> QED BY <1>1, <1>2, <1>3, VerificationMoves, VerificationNextStep, PTL DEF SumSpec

\* A cancel request that is answered has settled its review for good, and from its
\* acceptance on no command of that review is launched (verification_reviews.py).
THEOREM CancelSettlesInSum == SumSpec => CancelSettles
<1>1. SumInit /\ Verification!PlanNames => Verification!VerificationInv
  BY VerificationInitInv DEF SumInit
<1>2. Verification!PlanNames
  BY ComponentsAssumption
<1>3. Verification!VerificationInv =>
         \A c \in Cancels : request[c].pc = "done" =>
             LET r == request[c].r IN
             Verification!Status(r) \notin {"pending", "running"} /\ task[r].pc \in {"none", "wait", "claim"}
  BY <1>2, VerificationAnsweredIsFinal
<1>4. Verification!VerificationInv /\ [Verification!Next]_(Verification!vars) =>
         [\A r \in VerificationIds : launches'[r] # launches[r] => ~Verification!Fenced(r)]_(Verification!vars)
  BY <1>2, VerificationFenceHolds
<1> QED BY <1>1, <1>2, <1>3, <1>4, VerificationMoves, VerificationNextStep, PTL
        DEF SumSpec, CancelSettles, Verification!CancelSettles

\* The receipt of a patch says what was done to each of its files, whose preimages
\* were durable first; only a racing write of another program is lost (patching.py).
THEOREM PatchesHold == SumSpec => []PatchSound
<1>1. SumInit /\ Patch!PatchBound => Patch!PatchInv
  BY PatchInitInv DEF SumInit
<1>2. Patch!PatchBound
  BY ComponentsAssumption
<1>3. Patch!PatchInv => PatchSound
  BY PatchReceiptsAreTrue DEF PatchSound
<1> QED BY <1>1, <1>2, <1>3, PatchMoves, PatchNextStep, PTL DEF SumSpec

\* Every turn gives the model the turns that completed before it and itself, from
\* whatever thread and checkpoint it was bound to, and none is bound to a thread with
\* pending work (conversations.py: bind_turn, history; the runtimes' checkpoints).
THEOREM TurnsHold == SumSpec => []TurnsContinueWhole
<1>1. Turns!TurnBound
  BY ComponentsAssumption
<1>2. SumInit => Turns!ContextInv
  BY <1>1, ContextInitInv DEF SumInit
<1>3. Turns!ContextInv => TurnsContinueWhole
  BY <1>1, ContextSafe DEF TurnsContinueWhole
<1>4. Turns!ContextInv /\ [Turns!Next]_(Turns!vars) => Turns!ContextInv'
  BY <1>1, ContextNextStep
<1> QED BY <1>2, <1>3, <1>4, TurnsMoves, PTL DEF SumSpec

\* The lease of the saver in the sum of components.
THEOREM LeaseInSum == SumSpec => []LeaseEndsClean
<1>1. SumInit => LeaseInv
  BY LeaseInvInit DEF SumInit
<1>2. LeaseInv => LeaseEndsClean
  BY DEF LeaseInv
<1> QED BY <1>1, <1>2, LeaseInvNext, LeaseMoves, PTL DEF SumSpec
=============================================================================
