--------------------------- MODULE ProgressProofs ----------------------------
(***************************************************************************)
(* What holds of the components that must come to an end, for every value   *)
(* of their constants: the workspace lock, the legacy task manager, the     *)
(* supervisor of processes.  Each section shows an invariant of one         *)
(* component inductive; the last one carries the results over to SumSpec,   *)
(* whose steps are steps or stutters of every component.                    *)
(***************************************************************************)
EXTENDS Progress, FiniteSetTheorems, SequenceTheorems, TLAPS

-----------------------------------------------------------------------------
(* WorkspaceLock: any readers and writers, any number of cancellations *)

\* The tasks of S that are at the place v.
At(p, S, v) == {x \in S : p[x] = v}

\* QueuesSound of any two queues.
Sound(w, r, p) ==
    /\ \A i, k \in 1..Len(w) : w[i] = w[k] => i = k
    /\ \A i, k \in 1..Len(r) : r[i] = r[k] => i = k
    /\ \A i \in 1..Len(w), k \in 1..Len(r) : w[i] # r[k]
    /\ \A i \in 1..Len(w) : p[w[i]] = "waiting"
    /\ \A k \in 1..Len(r) : p[r[k]] = "waiting"

\* The task t is in no place of the queue q.
Outside(t, q) == \A i \in 1..Len(q) : q[i] # t

-----------------------------------------------------------------------------
(* Queues *)

\* Removing a place of a queue moves the later ones forward.
LEMMA RemoveAtFacts ==
    ASSUME NEW S, NEW s \in Seq(S), NEW i \in 1..Len(s)
    PROVE  /\ RemoveAt(s, i) \in Seq(S)
           /\ Len(RemoveAt(s, i)) = Len(s) - 1
           /\ \A k \in 1..(Len(s) - 1) :
                 RemoveAt(s, i)[k] = IF k < i THEN s[k] ELSE s[k + 1]
<1> DEFINE a == SubSeq(s, 1, i - 1)
           b == SubSeq(s, i + 1, Len(s))
<1>1. Len(s) \in Nat /\ \A k \in 1..Len(s) : s[k] \in S
  BY LenProperties, ElementOfSeq
<1>2. /\ a \in Seq(S) /\ Len(a) = i - 1
      /\ \A k \in 1..(i - 1) : a[k] = s[k]
  <2>1. \A k \in 1..(i - 1) : s[k] \in S
    BY <1>1
  <2>2. /\ a \in Seq(S)
        /\ Len(a) = IF 1 <= i - 1 THEN (i - 1) - 1 + 1 ELSE 0
        /\ \A k \in 1..((i - 1) - 1 + 1) : a[k] = s[1 + k - 1]
    BY <1>1, <2>1, SubSeqProperties, SMTT(30)
  <2> QED BY <1>1, <2>2
<1>3. /\ b \in Seq(S) /\ Len(b) = Len(s) - i
      /\ \A k \in 1..(Len(s) - i) : b[k] = s[i + k]
  <2>1. \A k \in (i + 1)..Len(s) : s[k] \in S
    BY <1>1
  <2>2. /\ b \in Seq(S)
        /\ Len(b) = IF i + 1 <= Len(s) THEN Len(s) - (i + 1) + 1 ELSE 0
        /\ \A k \in 1..(Len(s) - (i + 1) + 1) : b[k] = s[(i + 1) + k - 1]
    BY <1>1, <2>1, SubSeqProperties, SMTT(30)
  <2> QED BY <1>1, <2>2
<1>4. /\ a \o b \in Seq(S)
      /\ Len(a \o b) = Len(a) + Len(b)
      /\ \A k \in 1..(Len(a) + Len(b)) :
            (a \o b)[k] = IF k <= Len(a) THEN a[k] ELSE b[k - Len(a)]
  BY <1>2, <1>3, ConcatProperties
<1>5. RemoveAt(s, i) = a \o b
  BY DEF RemoveAt
<1> HIDE DEF a, b
<1>6. ASSUME NEW k \in 1..(Len(s) - 1)
      PROVE  (a \o b)[k] = IF k < i THEN s[k] ELSE s[k + 1]
  <2>1. CASE k < i
    BY <1>1, <1>2, <1>3, <1>4, <2>1
  <2>2. CASE ~(k < i)
    <3>1. (a \o b)[k] = b[k - (i - 1)]
      BY <1>1, <1>2, <1>3, <1>4, <2>2
    <3>2. b[k - (i - 1)] = s[i + (k - (i - 1))]
      <4>1. k \in Int /\ i \in Int /\ Len(s) \in Int /\ k <= Len(s) - 1 /\ i >= 1
        BY <1>1
      <4>2. k - (i - 1) \in 1..(Len(s) - i)
        BY <4>1, <2>2
      <4> QED BY <1>3, <4>2
    <3>3. i + (k - (i - 1)) = k + 1
      BY <1>1
    <3> QED BY <3>1, <3>2, <3>3, <2>2
  <2> QED BY <2>1, <2>2
<1> QED BY <1>1, <1>2, <1>3, <1>4, <1>5, <1>6

\* The task that is resumed is in no queue any more.
LEMMA SoundTail ==
    ASSUME NEW w \in Seq(Tasks), NEW r \in Seq(Tasks), NEW p,
           Sound(w, r, p), r # <<>>
    PROVE  /\ Tail(r) \in Seq(Tasks)
           /\ Head(r) \in Tasks
           /\ p[Head(r)] = "waiting"
           /\ Sound(w, Tail(r), p)
           /\ Outside(Head(r), w)
           /\ Outside(Head(r), Tail(r))
<1>1. /\ Head(r) \in Tasks
      /\ Tail(r) \in Seq(Tasks)
      /\ Len(Tail(r)) = Len(r) - 1
      /\ \A i \in 1..Len(Tail(r)) : Tail(r)[i] = r[i + 1]
  BY HeadTailProperties
<1>2. Len(r) \in Nat \ {0} /\ Len(w) \in Nat
  BY EmptySeq, LenProperties
<1>3. Head(r) = r[1]
  OBVIOUS
<1> DEFINE q == Tail(r)
           h == Head(r)
<1> HIDE DEF q, h
<1>4. Sound(w, q, p)
  BY <1>1, <1>2 DEF Sound, q
<1>5. p[h] = "waiting" /\ Outside(h, w) /\ Outside(h, q)
  BY <1>1, <1>2, <1>3 DEF Sound, Outside, q, h
<1> QED BY <1>1, <1>4, <1>5 DEF q, h

\* A task of no queue that suspends joins the one that waits.
LEMMA SoundAppend ==
    ASSUME NEW w \in Seq(Tasks), NEW r \in Seq(Tasks), NEW p \in [Tasks -> Places],
           NEW t \in Tasks, Sound(w, r, p), Outside(t, w), Outside(t, r)
    PROVE  /\ Append(w, t) \in Seq(Tasks)
           /\ Sound(Append(w, t), r, [p EXCEPT ![t] = "waiting"])
<1> DEFINE q == Append(w, t)
<1>1. /\ q \in Seq(Tasks)
      /\ Len(q) = Len(w) + 1
      /\ \A i \in 1..Len(w) : q[i] = w[i]
      /\ q[Len(w) + 1] = t
  BY AppendProperties
<1>2. Len(w) \in Nat /\ Len(r) \in Nat
  BY LenProperties
<1>3. /\ \A i \in 1..Len(w) : w[i] \in Tasks
      /\ \A i \in 1..Len(r) : r[i] \in Tasks
  BY ElementOfSeq
<1> HIDE DEF q
<1>4. \A i \in 1..Len(q) : i \in 1..Len(w) \/ i = Len(w) + 1
  BY <1>1, <1>2
<1> DEFINE z == [p EXCEPT ![t] = "waiting"]
<1>5. \A x \in Tasks : z[x] = IF x = t THEN "waiting" ELSE p[x]
  OBVIOUS
<1> HIDE DEF z
<1>6. \A i, k \in 1..Len(q) : q[i] = q[k] => i = k
  BY <1>1, <1>4 DEF Sound, Outside
<1>7. \A i \in 1..Len(q), k \in 1..Len(r) : q[i] # r[k]
  BY <1>1, <1>4 DEF Sound, Outside
<1>8. \A i \in 1..Len(q) : z[q[i]] = "waiting"
  BY <1>1, <1>3, <1>4, <1>5 DEF Sound
<1>9. \A k \in 1..Len(r) : z[r[k]] = "waiting"
  BY <1>3, <1>5 DEF Sound
<1>10. Sound(q, r, z)
  BY <1>6, <1>7, <1>8, <1>9 DEF Sound
<1> QED BY <1>1, <1>10 DEF q, z

\* Where a task of no queue is does not matter to the queues.
LEMMA SoundElsewhere ==
    ASSUME NEW w \in Seq(Tasks), NEW r \in Seq(Tasks), NEW p \in [Tasks -> Places],
           NEW t \in Tasks, NEW v, Sound(w, r, p), Outside(t, w), Outside(t, r)
    PROVE  Sound(w, r, [p EXCEPT ![t] = v])
<1>1. /\ \A i \in 1..Len(w) : w[i] \in Tasks
      /\ \A i \in 1..Len(r) : r[i] \in Tasks
  BY ElementOfSeq
<1> QED BY <1>1 DEF Sound, Outside

\* notify_all moves every task that waits behind those that are ready.
LEMMA SoundNotify ==
    ASSUME NEW w \in Seq(Tasks), NEW r \in Seq(Tasks), NEW p, Sound(w, r, p)
    PROVE  r \o w \in Seq(Tasks) /\ Sound(<<>>, r \o w, p)
<1> DEFINE q == r \o w
<1>1. /\ q \in Seq(Tasks)
      /\ Len(q) = Len(r) + Len(w)
      /\ \A i \in 1..(Len(r) + Len(w)) : q[i] = IF i <= Len(r) THEN r[i] ELSE w[i - Len(r)]
  BY ConcatProperties
<1>2. Len(w) \in Nat /\ Len(r) \in Nat /\ Len(<<>>) = 0
  BY LenProperties, EmptySeq
<1> HIDE DEF q
<1>3. ASSUME NEW i \in 1..Len(q), NEW k \in 1..Len(q), q[i] = q[k]
      PROVE  i = k
  <2>1. CASE i <= Len(r) /\ k <= Len(r)
    <3>1. /\ i \in 1..Len(r) /\ k \in 1..Len(r)
          /\ q[i] = r[i] /\ q[k] = r[k]
      BY <1>1, <1>2, <2>1
    <3> QED BY <1>3, <3>1 DEF Sound
  <2>2. CASE i <= Len(r) /\ ~(k <= Len(r))
    <3>1. /\ i \in 1..Len(r) /\ k - Len(r) \in 1..Len(w)
          /\ q[i] = r[i] /\ q[k] = w[k - Len(r)]
      BY <1>1, <1>2, <2>2
    <3> QED BY <1>3, <3>1 DEF Sound
  <2>3. CASE ~(i <= Len(r)) /\ k <= Len(r)
    <3>1. /\ i - Len(r) \in 1..Len(w) /\ k \in 1..Len(r)
          /\ q[i] = w[i - Len(r)] /\ q[k] = r[k]
      BY <1>1, <1>2, <2>3
    <3> QED BY <1>3, <3>1 DEF Sound
  <2>4. CASE ~(i <= Len(r)) /\ ~(k <= Len(r))
    <3>1. i - Len(r) \in 1..Len(w) /\ k - Len(r) \in 1..Len(w)
      BY <1>1, <1>2, <2>4
    <3>2. w[i - Len(r)] = w[k - Len(r)]
      BY <1>1, <1>2, <1>3, <2>4
    <3>3. i - Len(r) = k - Len(r)
      BY <3>1, <3>2 DEF Sound
    <3> QED BY <1>2, <3>3
  <2> QED BY <2>1, <2>2, <2>3, <2>4
<1>4. ASSUME NEW i \in 1..Len(q)
      PROVE  p[q[i]] = "waiting"
  <2>1. CASE i <= Len(r)
    <3>1. i \in 1..Len(r) /\ q[i] = r[i]
      BY <1>1, <1>2, <2>1
    <3> QED BY <3>1 DEF Sound
  <2>2. CASE ~(i <= Len(r))
    <3>1. i - Len(r) \in 1..Len(w) /\ q[i] = w[i - Len(r)]
      BY <1>1, <1>2, <2>2
    <3> QED BY <3>1 DEF Sound
  <2> QED BY <2>1, <2>2
<1>5. Sound(<<>>, q, p)
  BY <1>2, <1>3, <1>4 DEF Sound
<1> QED BY <1>1, <1>5 DEF q

\* A cancellation moves one task from where it waits behind those ready.
LEMMA SoundCancel ==
    ASSUME NEW w \in Seq(Tasks), NEW r \in Seq(Tasks), NEW p,
           Sound(w, r, p), NEW i \in 1..Len(w)
    PROVE  /\ RemoveAt(w, i) \in Seq(Tasks)
           /\ Append(r, w[i]) \in Seq(Tasks)
           /\ Sound(RemoveAt(w, i), Append(r, w[i]), p)
<1> DEFINE v == RemoveAt(w, i)
           q == Append(r, w[i])
<1>0. w[i] \in Tasks
  BY ElementOfSeq
<1>1. /\ v \in Seq(Tasks)
      /\ Len(v) = Len(w) - 1
      /\ \A k \in 1..(Len(w) - 1) : v[k] = IF k < i THEN w[k] ELSE w[k + 1]
  BY RemoveAtFacts
<1>2. /\ q \in Seq(Tasks)
      /\ Len(q) = Len(r) + 1
      /\ \A k \in 1..Len(r) : q[k] = r[k]
      /\ q[Len(r) + 1] = w[i]
  BY <1>0, AppendProperties
<1>3. Len(w) \in Nat /\ Len(r) \in Nat
  BY LenProperties
<1> HIDE DEF v, q
<1>4. \A k \in 1..Len(v) :
         \E j \in 1..Len(w) : j # i /\ v[k] = w[j] /\ j = IF k < i THEN k ELSE k + 1
  BY <1>1, <1>3
<1>5. \A k \in 1..Len(q) : k \in 1..Len(r) \/ k = Len(r) + 1
  BY <1>2, <1>3
<1>6. \A k, l \in 1..Len(v) : v[k] = v[l] => k = l
  BY <1>3, <1>4 DEF Sound
<1>7. \A k, l \in 1..Len(q) : q[k] = q[l] => k = l
  BY <1>2, <1>3, <1>5 DEF Sound
<1>8. \A k \in 1..Len(v), l \in 1..Len(q) : v[k] # q[l]
  BY <1>2, <1>4, <1>5 DEF Sound
<1>9. /\ \A k \in 1..Len(v) : p[v[k]] = "waiting"
      /\ \A l \in 1..Len(q) : p[q[l]] = "waiting"
  <2>1. ASSUME NEW k \in 1..Len(v)
        PROVE  p[v[k]] = "waiting"
    <3>1. PICK j \in 1..Len(w) : v[k] = w[j]
      BY <1>4
    <3> QED BY <3>1 DEF Sound
  <2>2. ASSUME NEW l \in 1..Len(q)
        PROVE  p[q[l]] = "waiting"
    <3>1. CASE l \in 1..Len(r)
      BY <1>2, <3>1 DEF Sound
    <3>2. CASE l = Len(r) + 1
      BY <1>2, <3>2 DEF Sound
    <3> QED BY <1>5, <3>1, <3>2
  <2> QED BY <2>1, <2>2
<1>10. Sound(v, q, p)
  BY <1>6, <1>7, <1>8, <1>9 DEF Sound
<1> QED BY <1>1, <1>2, <1>10 DEF v, q

-----------------------------------------------------------------------------
(* Numbers of tasks *)

\* There are at most as many tasks of S at a place as there are in S.
LEMMA AtFacts ==
    ASSUME NEW S, IsFiniteSet(S), NEW p, NEW v
    PROVE  /\ IsFiniteSet(At(p, S, v))
           /\ Cardinality(At(p, S, v)) \in 0..Cardinality(S)
<1>1. At(p, S, v) \subseteq S
  BY DEF At
<1>2. /\ IsFiniteSet(At(p, S, v))
      /\ Cardinality(At(p, S, v)) <= Cardinality(S)
  BY <1>1, FS_Subset
<1>3. Cardinality(At(p, S, v)) \in Nat /\ Cardinality(S) \in Nat
  BY <1>2, FS_CardinalityType
<1> QED BY <1>2, <1>3

\* One task that comes to a place is one more there, one that goes one less.
LEMMA OneMore ==
    ASSUME NEW S, IsFiniteSet(S), NEW p, NEW q, NEW v, NEW t,
           At(q, S, v) = At(p, S, v) \cup {t}, t \notin At(p, S, v)
    PROVE  Cardinality(At(q, S, v)) = Cardinality(At(p, S, v)) + 1
BY AtFacts, FS_AddElement

LEMMA OneLess ==
    ASSUME NEW S, IsFiniteSet(S), NEW p, NEW q, NEW v, NEW t,
           At(q, S, v) = At(p, S, v) \ {t}, t \in At(p, S, v)
    PROVE  Cardinality(At(q, S, v)) = Cardinality(At(p, S, v)) - 1
BY AtFacts, FS_RemoveElement

-----------------------------------------------------------------------------
(* The steps of the lock *)

\* The parts of LockInv in terms of the operators above.
LEMMA InvParts ==
    /\ QueuesSound <=> Sound(waiters, ready, pc)
    /\ CountersAgree <=>
          /\ readers = Cardinality(At(pc, ReadTasks, "in"))
          /\ writer <=> At(pc, WriteTasks, "in") # {}
          /\ waitingWriters = Cardinality(At(pc, WriteTasks, "waiting"))
    /\ WriterAlone <=>
          \A w \in At(pc, WriteTasks, "in") : At(pc, Tasks, "in") = {w}
BY DEF QueuesSound, Sound, CountersAgree, WriterAlone, At, In, Waiting

LEMMA InvPartsNext ==
    /\ QueuesSound' <=> Sound(waiters', ready', pc')
    /\ CountersAgree' <=>
          /\ readers' = Cardinality(At(pc', ReadTasks, "in"))
          /\ writer' <=> At(pc', WriteTasks, "in") # {}
          /\ waitingWriters' = Cardinality(At(pc', WriteTasks, "waiting"))
    /\ WriterAlone' <=>
          \A w \in At(pc', WriteTasks, "in") : At(pc', Tasks, "in") = {w}
BY DEF QueuesSound, Sound, CountersAgree, WriterAlone, At, In, Waiting

\* What the counters say of the tasks bounds them.
LEMMA CountersBounded ==
    ASSUME CountersAgree'
    PROVE  /\ readers' \in 0..Cardinality(ReadTasks)
           /\ waitingWriters' \in 0..Cardinality(WriteTasks)
BY AtFacts, WorkspaceLockAssumption, InvPartsNext

LEMMA InitInv == Init => LockInv
<1> SUFFICES ASSUME Init PROVE LockInv
  OBVIOUS
<1>1. \A S, v : S \subseteq Tasks /\ v # "idle" => At(pc, S, v) = {}
  BY DEF Init, At
<1>2. Cardinality({}) = 0
  BY FS_EmptySet
<1>3. ReadTasks \subseteq Tasks /\ WriteTasks \subseteq Tasks
  BY DEF Tasks
<1>4. CountersAgree
  BY <1>1, <1>2, <1>3, InvParts DEF Init
<1>5. WriterAlone
  BY <1>1, <1>3, InvParts
<1>6. QueuesSound
  BY DEF Init, QueuesSound
<1>7. Cardinality(ReadTasks) \in Nat /\ Cardinality(WriteTasks) \in Nat
  BY FS_CardinalityType, WorkspaceLockAssumption
<1>8. TypeOK
  <2>1. <<>> \in Seq(Tasks)
    OBVIOUS
  <2>2. pc \in [Tasks -> Places]
    BY DEF Init, Places
  <2>3. readers \in 0..Cardinality(ReadTasks) /\ waitingWriters \in 0..Cardinality(WriteTasks)
    BY <1>7 DEF Init
  <2>4. writer \in BOOLEAN /\ hit \subseteq Tasks
    BY DEF Init
  <2>5. waiters \in Seq(Tasks) /\ ready \in Seq(Tasks)
    BY <2>1 DEF Init
  <2> QED BY <2>2, <2>3, <2>4, <2>5 DEF TypeOK
<1> QED BY <1>4, <1>5, <1>6, <1>8 DEF LockInv

\* A reader of no queue gets the lock or suspends, from its call and from a
\* wake-up alike.
LEMMA ReadStep ==
    ASSUME LockInv, NEW t \in ReadTasks, pc[t] \in {"idle", "waiting"},
           Outside(t, waiters), Outside(t, ready'), ready' \in Seq(Tasks),
           Sound(waiters, ready', pc), Read(t),
           writer' = writer, waitingWriters' = waitingWriters, hit' = hit
    PROVE  LockInv'
<1> USE WorkspaceLockAssumption
<1>1. /\ t \in Tasks /\ t \notin WriteTasks
      /\ ReadTasks \subseteq Tasks /\ WriteTasks \subseteq Tasks
      /\ pc \in [Tasks -> Places] /\ waiters \in Seq(Tasks)
  BY DEF Tasks, LockInv, TypeOK
<1>2. /\ Sound(waiters, ready, pc)
      /\ readers = Cardinality(At(pc, ReadTasks, "in"))
      /\ writer <=> At(pc, WriteTasks, "in") # {}
      /\ waitingWriters = Cardinality(At(pc, WriteTasks, "waiting"))
      /\ \A w \in At(pc, WriteTasks, "in") : At(pc, Tasks, "in") = {w}
  BY InvParts DEF LockInv
<1>3. CASE /\ CanRead
           /\ readers' = readers + 1
           /\ pc' = [pc EXCEPT ![t] = "in"]
           /\ waiters' = waiters
  <2>1. Sound(waiters', ready', pc')
    BY <1>1, <1>3, SoundElsewhere
  <2>2. /\ Cardinality(At(pc', ReadTasks, "in")) = readers + 1
        /\ At(pc', WriteTasks, "in") = At(pc, WriteTasks, "in")
        /\ At(pc', WriteTasks, "waiting") = At(pc, WriteTasks, "waiting")
    <3>1. Cardinality(At(pc', ReadTasks, "in")) = readers + 1
      <4>1. /\ At(pc', ReadTasks, "in") = At(pc, ReadTasks, "in") \cup {t}
            /\ t \notin At(pc, ReadTasks, "in")
        BY <1>1, <1>2, <1>3 DEF At
      <4>2. Cardinality(At(pc', ReadTasks, "in"))
              = Cardinality(At(pc, ReadTasks, "in")) + 1
        BY <4>1, OneMore
      <4> QED BY <1>1, <1>2, <1>3, <4>2
    <3>2. At(pc', WriteTasks, "in") = At(pc, WriteTasks, "in")
      BY <1>1, <1>3 DEF At
    <3>3. At(pc', WriteTasks, "waiting") = At(pc, WriteTasks, "waiting")
      BY <1>1, <1>3 DEF At
    <3> QED BY <3>1, <3>2, <3>3
  <2>3. CountersAgree'
    BY <1>2, <1>3, <2>2, InvPartsNext
  <2>4. WriterAlone'
    BY <1>2, <1>3, <2>2, InvPartsNext DEF CanRead
  <2>5. pc' \in [Tasks -> Places] /\ waiters' \in Seq(Tasks)
    BY <1>1, <1>3 DEF Places
  <2>6. TypeOK'
    BY <2>3, <2>5, CountersBounded DEF TypeOK, LockInv
  <2> QED BY <2>1, <2>3, <2>4, <2>6, InvPartsNext DEF LockInv
<1>4. CASE ~CanRead /\ Suspend(t) /\ readers' = readers
  <2>0. pc' = [pc EXCEPT ![t] = "waiting"] /\ waiters' = Append(waiters, t)
    BY <1>4 DEF Suspend
  <2>1. Sound(waiters', ready', pc') /\ waiters' \in Seq(Tasks)
    BY <1>1, <2>0, SoundAppend
  <2>2. /\ At(pc', ReadTasks, "in") = At(pc, ReadTasks, "in")
        /\ At(pc', WriteTasks, "in") = At(pc, WriteTasks, "in")
        /\ At(pc', Tasks, "in") = At(pc, Tasks, "in")
        /\ At(pc', WriteTasks, "waiting") = At(pc, WriteTasks, "waiting")
    BY <1>1, <2>0 DEF At
  <2>3. CountersAgree' /\ WriterAlone'
    BY <1>2, <1>4, <2>2, InvPartsNext
  <2>5. pc' \in [Tasks -> Places]
    BY <1>1, <2>0 DEF Places
  <2>6. TypeOK'
    BY <2>1, <2>3, <2>5, CountersBounded DEF TypeOK, LockInv
  <2> QED BY <2>1, <2>3, <2>6, InvPartsNext DEF LockInv
<1> QED BY <1>3, <1>4 DEF Read

\* A writer of no queue likewise, when others is the number of the other
\* writers that wait.
LEMMA WriteStep ==
    ASSUME LockInv, NEW t \in WriteTasks, pc[t] \in {"idle", "waiting"},
           NEW others,
           others = IF pc[t] = "waiting" THEN waitingWriters - 1 ELSE waitingWriters,
           Outside(t, waiters), Outside(t, ready'), ready' \in Seq(Tasks),
           Sound(waiters, ready', pc), Write(t, others),
           readers' = readers, hit' = hit
    PROVE  LockInv'
<1> USE WorkspaceLockAssumption
<1>1. /\ t \in Tasks /\ t \notin ReadTasks
      /\ ReadTasks \subseteq Tasks /\ WriteTasks \subseteq Tasks
      /\ pc \in [Tasks -> Places] /\ waiters \in Seq(Tasks)
      /\ waitingWriters \in Nat
  <2>1. Cardinality(WriteTasks) \in Nat
    BY FS_CardinalityType
  <2> QED BY <2>1 DEF Tasks, LockInv, TypeOK
<1>2. /\ Sound(waiters, ready, pc)
      /\ readers = Cardinality(At(pc, ReadTasks, "in"))
      /\ writer <=> At(pc, WriteTasks, "in") # {}
      /\ waitingWriters = Cardinality(At(pc, WriteTasks, "waiting"))
      /\ \A w \in At(pc, WriteTasks, "in") : At(pc, Tasks, "in") = {w}
  BY InvParts DEF LockInv
<1>3. CASE /\ CanWrite
           /\ writer' = TRUE
           /\ waitingWriters' = others
           /\ pc' = [pc EXCEPT ![t] = "in"]
           /\ waiters' = waiters
  <2>1. Sound(waiters', ready', pc')
    BY <1>1, <1>3, SoundElsewhere
  <2>2. Cardinality(At(pc', WriteTasks, "waiting")) = others
    <3>1. CASE pc[t] = "waiting"
      <4>1. /\ At(pc', WriteTasks, "waiting") = At(pc, WriteTasks, "waiting") \ {t}
            /\ t \in At(pc, WriteTasks, "waiting")
        BY <1>1, <1>2, <1>3, <3>1 DEF At
      <4>2. Cardinality(At(pc', WriteTasks, "waiting"))
              = Cardinality(At(pc, WriteTasks, "waiting")) - 1
        BY <4>1, OneLess
      <4> QED BY <1>1, <1>2, <1>3, <3>1, <4>2
    <3>2. CASE pc[t] # "waiting"
      BY <1>1, <1>2, <1>3, <3>2 DEF At
    <3> QED BY <3>1, <3>2
  <2>3. At(pc', ReadTasks, "in") = At(pc, ReadTasks, "in")
    BY <1>1, <1>3 DEF At
  <2>4. At(pc', Tasks, "in") = {t} /\ At(pc', WriteTasks, "in") = {t}
    <3>1. At(pc, ReadTasks, "in") = {}
      <4>1. IsFiniteSet(At(pc, ReadTasks, "in")) /\ Cardinality(At(pc, ReadTasks, "in")) = 0
        BY <1>2, <1>3, AtFacts DEF CanWrite
      <4> QED BY <4>1, FS_EmptySet
    <3>2. At(pc, WriteTasks, "in") = {}
      BY <1>2, <1>3 DEF CanWrite
    <3> QED BY <1>1, <1>3, <3>1, <3>2 DEF At, Tasks
  <2>5. CountersAgree' /\ WriterAlone'
    BY <1>2, <1>3, <2>2, <2>3, <2>4, InvPartsNext
  <2>6. pc' \in [Tasks -> Places] /\ waiters' \in Seq(Tasks) /\ writer' \in BOOLEAN
    BY <1>1, <1>3 DEF Places
  <2>7. TypeOK'
    BY <2>5, <2>6, CountersBounded DEF TypeOK, LockInv
  <2> QED BY <2>1, <2>5, <2>7, InvPartsNext DEF LockInv
<1>4. CASE ~CanWrite /\ waitingWriters' = others + 1 /\ Suspend(t) /\ writer' = writer
  <2>0. pc' = [pc EXCEPT ![t] = "waiting"] /\ waiters' = Append(waiters, t)
    BY <1>4 DEF Suspend
  <2>1. Sound(waiters', ready', pc') /\ waiters' \in Seq(Tasks)
    BY <1>1, <2>0, SoundAppend
  <2>2. Cardinality(At(pc', WriteTasks, "waiting")) = others + 1
    <3>1. CASE pc[t] = "waiting"
      <4>1. At(pc', WriteTasks, "waiting") = At(pc, WriteTasks, "waiting")
        BY <1>1, <2>0, <3>1 DEF At
      <4> QED BY <1>1, <1>2, <3>1, <4>1
    <3>2. CASE pc[t] # "waiting"
      <4>1. /\ At(pc', WriteTasks, "waiting") = At(pc, WriteTasks, "waiting") \cup {t}
            /\ t \notin At(pc, WriteTasks, "waiting")
        BY <1>1, <1>2, <2>0, <3>2 DEF At
      <4>2. Cardinality(At(pc', WriteTasks, "waiting"))
              = Cardinality(At(pc, WriteTasks, "waiting")) + 1
        BY <4>1, OneMore
      <4> QED BY <1>1, <1>2, <2>0, <3>2, <4>2
    <3> QED BY <3>1, <3>2
  <2>3. /\ At(pc', ReadTasks, "in") = At(pc, ReadTasks, "in")
        /\ At(pc', WriteTasks, "in") = At(pc, WriteTasks, "in")
        /\ At(pc', Tasks, "in") = At(pc, Tasks, "in")
    BY <1>1, <2>0 DEF At
  <2>4. CountersAgree' /\ WriterAlone'
    BY <1>2, <1>4, <2>2, <2>3, InvPartsNext
  <2>5. pc' \in [Tasks -> Places]
    BY <1>1, <2>0 DEF Places
  <2>6. TypeOK'
    BY <1>4, <2>1, <2>4, <2>5, CountersBounded DEF TypeOK, LockInv
  <2> QED BY <2>1, <2>4, <2>6, InvPartsNext DEF LockInv
<1> QED BY <1>3, <1>4 DEF Write

\* A call finds its task in no queue: those of the queues wait.
LEMMA CallStep ==
    ASSUME LockInv, NEW t \in Tasks, AcquireRead(t) \/ AcquireWrite(t)
    PROVE  LockInv'
<1>1. pc[t] = "idle" /\ ready' = ready /\ hit' = hit
  BY DEF AcquireRead, AcquireWrite
<1>2. Sound(waiters, ready, pc) /\ ready \in Seq(Tasks)
  BY InvParts DEF LockInv, TypeOK
<1>3. Outside(t, waiters) /\ Outside(t, ready)
  BY <1>1, <1>2 DEF Sound, Outside
<1>4. CASE AcquireRead(t)
  <2>1. t \in ReadTasks /\ Read(t) /\ writer' = writer /\ waitingWriters' = waitingWriters
    BY <1>4 DEF AcquireRead
  <2> QED BY <1>1, <1>2, <1>3, <2>1, ReadStep
<1>5. CASE AcquireWrite(t)
  <2>1. t \in WriteTasks /\ Write(t, waitingWriters) /\ readers' = readers
    BY <1>5 DEF AcquireWrite
  <2> QED BY <1>1, <1>2, <1>3, <2>1, WriteStep
<1> QED BY <1>4, <1>5

\* The loop resumes the first task that is ready.
LEMMA ResumeStep ==
    ASSUME LockInv, NEW t \in Tasks, Resume(t)
    PROVE  LockInv'
<1>1. ready # <<>> /\ t = Head(ready) /\ ready' = Tail(ready) /\ hit' = hit
  BY DEF Resume
<1>2. Sound(waiters, ready, pc) /\ ready \in Seq(Tasks) /\ waiters \in Seq(Tasks)
  BY InvParts DEF LockInv, TypeOK
<1>3. /\ ready' \in Seq(Tasks) /\ pc[t] = "waiting" /\ Sound(waiters, ready', pc)
      /\ Outside(t, waiters) /\ Outside(t, ready')
  BY <1>1, <1>2, SoundTail
<1>4. CASE t \in ReadTasks /\ Read(t) /\ UNCHANGED <<writer, waitingWriters>>
  BY <1>1, <1>3, <1>4, ReadStep
<1>5. CASE t \in WriteTasks /\ Write(t, waitingWriters - 1) /\ readers' = readers
  BY <1>1, <1>3, <1>5, WriteStep
<1> QED BY <1>4, <1>5 DEF Resume

\* A cancelled task leaves the queue it is ready in, and the count.
LEMMA AbandonStep ==
    ASSUME LockInv, NEW t \in Tasks, Abandon(t)
    PROVE  LockInv'
<1> USE WorkspaceLockAssumption
<1>0. /\ ready # <<>> /\ t = Head(ready) /\ ready' = Tail(ready) /\ hit' = hit
      /\ pc' = [pc EXCEPT ![t] = "cancelled"]
      /\ waitingWriters' = IF t \in WriteTasks THEN waitingWriters - 1 ELSE waitingWriters
      /\ readers' = readers /\ writer' = writer /\ waiters' = waiters
  BY DEF Abandon
<1>1. /\ ReadTasks \subseteq Tasks /\ WriteTasks \subseteq Tasks
      /\ pc \in [Tasks -> Places] /\ waiters \in Seq(Tasks) /\ ready \in Seq(Tasks)
  BY DEF Tasks, LockInv, TypeOK
<1>2. /\ Sound(waiters, ready, pc)
      /\ readers = Cardinality(At(pc, ReadTasks, "in"))
      /\ writer <=> At(pc, WriteTasks, "in") # {}
      /\ waitingWriters = Cardinality(At(pc, WriteTasks, "waiting"))
      /\ \A w \in At(pc, WriteTasks, "in") : At(pc, Tasks, "in") = {w}
  BY InvParts DEF LockInv
<1>3. /\ ready' \in Seq(Tasks) /\ pc[t] = "waiting" /\ Sound(waiters, ready', pc)
      /\ Outside(t, waiters) /\ Outside(t, ready')
  BY <1>0, <1>1, <1>2, SoundTail
<1>4. Sound(waiters', ready', pc')
  BY <1>0, <1>1, <1>3, SoundElsewhere
<1>5. /\ At(pc', ReadTasks, "in") = At(pc, ReadTasks, "in")
      /\ At(pc', WriteTasks, "in") = At(pc, WriteTasks, "in")
      /\ At(pc', Tasks, "in") = At(pc, Tasks, "in")
  BY <1>0, <1>1, <1>3 DEF At
<1>6. Cardinality(At(pc', WriteTasks, "waiting")) = waitingWriters'
  <2>1. CASE t \in WriteTasks
    <3>1. /\ At(pc', WriteTasks, "waiting") = At(pc, WriteTasks, "waiting") \ {t}
          /\ t \in At(pc, WriteTasks, "waiting")
      BY <1>0, <1>1, <1>2, <1>3, <2>1 DEF At
    <3>2. Cardinality(At(pc', WriteTasks, "waiting"))
            = Cardinality(At(pc, WriteTasks, "waiting")) - 1
      BY <3>1, OneLess
    <3> QED BY <1>0, <1>1, <1>2, <1>3, <2>1, <3>2
  <2>2. CASE t \notin WriteTasks
    <3>1. At(pc', WriteTasks, "waiting") = At(pc, WriteTasks, "waiting")
      BY <1>0, <1>1, <2>2 DEF At
    <3> QED BY <1>0, <1>2, <2>2, <3>1
  <2> QED BY <2>1, <2>2
<1>7. CountersAgree' /\ WriterAlone'
  BY <1>0, <1>2, <1>5, <1>6, InvPartsNext
<1>8. pc' \in [Tasks -> Places]
  BY <1>0, <1>1 DEF Places
<1>9. TypeOK'
  BY <1>0, <1>3, <1>7, <1>8, CountersBounded DEF TypeOK, LockInv
<1> QED BY <1>4, <1>7, <1>9, InvPartsNext DEF LockInv

\* Whoever is in gives the lock back and every task that waits gets ready.
LEMMA ReleaseStep ==
    ASSUME LockInv, NEW t \in Tasks, Release(t)
    PROVE  LockInv'
<1> USE WorkspaceLockAssumption
<1>0. /\ pc[t] = "in" /\ pc' = [pc EXCEPT ![t] = "done"]
      /\ ready' = ready \o waiters /\ waiters' = <<>>
      /\ waitingWriters' = waitingWriters /\ hit' = hit
  BY DEF Release, NotifyAll
<1>1. /\ ReadTasks \subseteq Tasks /\ WriteTasks \subseteq Tasks
      /\ pc \in [Tasks -> Places] /\ waiters \in Seq(Tasks) /\ ready \in Seq(Tasks)
  BY DEF Tasks, LockInv, TypeOK
<1>2. /\ Sound(waiters, ready, pc)
      /\ readers = Cardinality(At(pc, ReadTasks, "in"))
      /\ writer <=> At(pc, WriteTasks, "in") # {}
      /\ waitingWriters = Cardinality(At(pc, WriteTasks, "waiting"))
      /\ \A w \in At(pc, WriteTasks, "in") : At(pc, Tasks, "in") = {w}
  BY InvParts DEF LockInv
<1>3. Outside(t, waiters) /\ Outside(t, ready)
  BY <1>0, <1>2 DEF Sound, Outside
<1>4. Sound(waiters', ready', pc') /\ ready' \in Seq(Tasks) /\ waiters' \in Seq(Tasks)
  <2>1. Sound(waiters, ready, pc')
    BY <1>0, <1>1, <1>2, <1>3, SoundElsewhere
  <2>2. ready' \in Seq(Tasks) /\ Sound(<<>>, ready', pc')
    BY <1>0, <1>1, <2>1, SoundNotify
  <2> QED BY <1>0, <2>2, EmptySeq
<1>5. At(pc', WriteTasks, "waiting") = At(pc, WriteTasks, "waiting")
  BY <1>0, <1>1 DEF At
<1>6. CASE t \in ReadTasks /\ readers' = readers - 1 /\ writer' = writer
  <2>1. Cardinality(At(pc', ReadTasks, "in")) = readers'
    <3>1. /\ At(pc', ReadTasks, "in") = At(pc, ReadTasks, "in") \ {t}
          /\ t \in At(pc, ReadTasks, "in")
      BY <1>0, <1>1, <1>2, <1>6 DEF At
    <3>2. Cardinality(At(pc', ReadTasks, "in"))
            = Cardinality(At(pc, ReadTasks, "in")) - 1
      BY <3>1, OneLess
    <3> QED BY <1>0, <1>1, <1>2, <1>6, <3>2
  <2>2. At(pc', WriteTasks, "in") = At(pc, WriteTasks, "in")
    BY <1>0, <1>1, <1>6 DEF At
  <2>3. At(pc, WriteTasks, "in") = {}
    BY <1>0, <1>1, <1>2, <1>6 DEF At
  <2>4. CountersAgree' /\ WriterAlone'
    BY <1>0, <1>2, <1>5, <1>6, <2>1, <2>2, <2>3, InvPartsNext
  <2>5. TypeOK'
    BY <1>0, <1>1, <1>4, <1>6, <2>4, CountersBounded DEF TypeOK, LockInv, Places
  <2> QED BY <1>4, <2>4, <2>5, InvPartsNext DEF LockInv
<1>7. CASE t \in WriteTasks /\ writer' = FALSE /\ readers' = readers
  <2>1. At(pc', WriteTasks, "in") = {}
    BY <1>0, <1>1, <1>2, <1>7 DEF At
  <2>2. At(pc', ReadTasks, "in") = At(pc, ReadTasks, "in")
    BY <1>0, <1>1, <1>7 DEF At
  <2>3. CountersAgree' /\ WriterAlone'
    BY <1>0, <1>2, <1>5, <1>7, <2>1, <2>2, InvPartsNext
  <2>4. TypeOK'
    BY <1>0, <1>1, <1>4, <1>7, <2>3, CountersBounded DEF TypeOK, LockInv, Places
  <2> QED BY <1>4, <2>3, <2>4, InvPartsNext DEF LockInv
<1> QED BY <1>6, <1>7 DEF Release

\* A cancellation touches the queues only.
LEMMA CancelStep ==
    ASSUME LockInv, NEW t \in Tasks, Cancel(t)
    PROVE  LockInv'
<1>0. /\ hit' = hit \cup {t}
      /\ readers' = readers /\ writer' = writer
      /\ waitingWriters' = waitingWriters /\ pc' = pc
  BY DEF Cancel
<1>1. /\ waiters \in Seq(Tasks) /\ ready \in Seq(Tasks)
      /\ Sound(waiters, ready, pc)
  BY InvParts DEF LockInv, TypeOK
<1>2. CountersAgree' /\ WriterAlone'
  BY <1>0, InvParts, InvPartsNext DEF LockInv
<1>3. waiters' \in Seq(Tasks) /\ ready' \in Seq(Tasks) /\ Sound(waiters', ready', pc')
  <2>1. CASE \E i \in 1..Len(waiters) :
                /\ waiters[i] = t
                /\ waiters' = RemoveAt(waiters, i)
                /\ ready' = Append(ready, t)
    <3>1. PICK i \in 1..Len(waiters) :
                /\ waiters[i] = t
                /\ waiters' = RemoveAt(waiters, i)
                /\ ready' = Append(ready, t)
      BY <2>1
    <3> QED BY <1>0, <1>1, <3>1, SoundCancel
  <2>2. CASE UNCHANGED <<waiters, ready>>
    BY <1>0, <1>1, <2>2
  <2> QED BY <2>1, <2>2 DEF Cancel
<1>4. TypeOK'
  BY <1>0, <1>3 DEF TypeOK, LockInv
<1> QED BY <1>2, <1>3, <1>4, InvPartsNext DEF LockInv

LEMMA LockInvStep == LockInv /\ [Next]_vars => LockInv'
<1> SUFFICES ASSUME LockInv, [Next]_vars PROVE LockInv'
  OBVIOUS
<1>1. ASSUME NEW t \in Tasks, AcquireRead(t) \/ AcquireWrite(t) PROVE LockInv'
  BY <1>1, CallStep
<1>2. ASSUME NEW t \in Tasks, Resume(t) PROVE LockInv'
  BY <1>2, ResumeStep
<1>3. ASSUME NEW t \in Tasks, Abandon(t) PROVE LockInv'
  BY <1>3, AbandonStep
<1>4. ASSUME NEW t \in Tasks, Release(t) PROVE LockInv'
  BY <1>4, ReleaseStep
<1>5. ASSUME NEW t \in Tasks, Cancel(t) PROVE LockInv'
  BY <1>5, CancelStep
<1>6. CASE UNCHANGED vars
  BY <1>6 DEF vars, LockInv, TypeOK, QueuesSound, CountersAgree, WriterAlone, In, Waiting
<1> QED BY <1>1, <1>2, <1>3, <1>4, <1>5, <1>6 DEF Next

-----------------------------------------------------------------------------
\* A workspace that is written is used by nobody else and the counters of the
\* lock are those of the tasks, for every number of readers, writers and
\* cancellations and in every order of wake-ups (_AsyncRWLock).
THEOREM LockIsSafe == Spec => []LockSafe
<1>1. LockInv => LockSafe
  BY DEF LockInv, LockSafe
<1> QED BY <1>1, InitInv, LockInvStep, PTL DEF Spec

-----------------------------------------------------------------------------
(* LegacyJobs: any jobs and workers *)

-----------------------------------------------------------------------------
(* One job moves *)

LegacyRequests(p) == p \in {"request", "submit"}
LegacyWorks(p) == p \in {"loop", "model", "ask", "answered", "effect", "end_completed",
    "end_failed",
                   "noted_completed", "noted_failed"}

LEMMA LegacyPlacesAre ==
    ASSUME Legacy!JobsTypes, NEW j \in Jobs
    PROVE  /\ j \in Legacy!Requesting <=> LegacyRequests(job[j])
           /\ j \in Legacy!Working <=> LegacyWorks(job[j])
BY DEF Legacy!Requesting, Legacy!Working, LegacyRequests, LegacyWorks

\* Only the job j moves; close and its fence do not.
LegacyOnlyJob(j) ==
    /\ \A i \in Jobs : i # j =>
          /\ job'[i] = job[i] /\ shown'[i] = shown[i] /\ journal'[i] = journal[i]
          /\ broker'[i] = broker[i] /\ consent'[i] = consent[i]
    /\ UNCHANGED <<closing, close>> /\ (dirty => dirty')

LEMMA LegacyJobMove ==
    ASSUME Legacy!JobsInv, NEW j \in Jobs, LegacyOnlyJob(j), Legacy!JobsTypes', Legacy!JobSound(j)',
           LegacyRequests(job'[j]) => LegacyRequests(job[j]) \/ ~closing,
           LegacyWorks(job'[j]) \/ job'[j] = "queued" =>
               LegacyWorks(job[j]) \/ job[j] = "queued" \/ LegacyRequests(job[j]),
           dirty' = dirty \/ LegacyWorks(job[j]) \/ LegacyRequests(job[j])
    PROVE  Legacy!JobsInv'
<1>1. ASSUME NEW i \in Jobs PROVE Legacy!JobSound(i)'
  <2>1. CASE i = j
    BY <2>1
  <2>2. CASE i # j
    BY <2>2 DEF Legacy!JobsInv, Legacy!JobSound, LegacyOnlyJob, Legacy!Working
  <2> QED BY <2>1, <2>2
<1>2. Legacy!CloseSound'
  <2>1. /\ \A i \in Jobs : i \in Legacy!Requesting <=> LegacyRequests(job[i])
        /\ \A i \in Jobs : i \in Legacy!Working <=> LegacyWorks(job[i])
        /\ \A i \in Jobs : (i \in Legacy!Requesting)' <=> LegacyRequests(job'[i])
        /\ \A i \in Jobs : (i \in Legacy!Working)' <=> LegacyWorks(job'[i])
    BY DEF Legacy!Requesting, Legacy!Working, LegacyRequests, LegacyWorks
  <2>2. close # "no" => closing
    BY DEF Legacy!JobsInv, Legacy!CloseSound
  <2>3. close \in {"pool", "returned", "raised"} => \A i \in Jobs : ~LegacyRequests(job[i])
    BY <2>1 DEF Legacy!JobsInv, Legacy!CloseSound
  <2>4. close \in {"returned", "raised"} => \A i \in Jobs : ~LegacyWorks(job[i])
        /\ job[i] # "queued"
    BY <2>1 DEF Legacy!JobsInv, Legacy!CloseSound
  <2>5. \A i \in Jobs : i # j => job'[i] = job[i]
    BY DEF LegacyOnlyJob
  <2>6. close' = close /\ closing' = closing
    BY DEF LegacyOnlyJob
  <2>7. close \in {"pool", "returned", "raised"} => \A i \in Jobs : ~LegacyRequests(job'[i])
    BY <2>2, <2>3, <2>5
  <2>8. close \in {"returned", "raised"} => \A i \in Jobs : ~LegacyWorks(job'[i])
        /\ job'[i] # "queued"
    BY <2>3, <2>4, <2>5
  <2>9. close = "returned" => ~dirty'
    BY <2>3, <2>4 DEF Legacy!JobsInv, Legacy!CloseSound
  <2>10. close \in {"pool", "returned", "raised"} => Legacy!Requesting' = {}
    BY <2>1, <2>7 DEF Legacy!Requesting
  <2>11. close \in {"returned", "raised"} => Legacy!Working' = {}
         /\ \A i \in Jobs : job'[i] # "queued"
    BY <2>1, <2>8 DEF Legacy!Working
  <2> QED BY <2>2, <2>6, <2>9, <2>10, <2>11 DEF Legacy!CloseSound
<1> QED BY <1>1, <1>2 DEF Legacy!JobsInv

\* What a step of a job may assign.
LEMMA LegacyAssigned ==
    ASSUME Legacy!JobsTypes, NEW j \in Jobs, NEW q \in Legacy!Places, Legacy!To(j, q)
    PROVE  job' \in [Jobs -> Legacy!Places] /\ job'[j] = q /\ \A i \in Jobs : i # j
        => job'[i] = job[i]
BY DEF Legacy!JobsTypes, Legacy!To

-----------------------------------------------------------------------------
(* The steps of a request and of a worker *)

LEMMA LegacyRequestStep ==
    ASSUME Legacy!JobsInv, NEW j \in Jobs,
           Legacy!Request(j) \/ Legacy!Refuse(j) \/ Legacy!Accept(j) \/ Legacy!AcceptFails(j)
               \/ Legacy!Submit(j)
    PROVE  Legacy!JobsInv'
<1>1. Legacy!JobsTypes /\ Legacy!JobSound(j)
  BY DEF Legacy!JobsInv
<1>2. CASE Legacy!Request(j)
  <2>1. /\ job' \in [Jobs -> Legacy!Places] /\ job'[j] = "request" /\ \A i \in Jobs : i # j
           => job'[i] = job[i]
    BY <1>1, <1>2, LegacyAssigned DEF Legacy!Request, Legacy!Places
  <2>2. UNCHANGED <<closing, dirty, close, shown, journal, broker, consent>> /\ ~closing
        /\ job[j] = "idle"
    BY <1>2 DEF Legacy!Request, Legacy!fences, Legacy!page
  <2>3. Legacy!JobsTypes' /\ LegacyOnlyJob(j)
    BY <1>1, <2>1, <2>2 DEF Legacy!JobsTypes, LegacyOnlyJob
  <2>4. Legacy!JobSound(j)'
    BY <1>1, <2>1, <2>2 DEF Legacy!JobSound, Legacy!Working
  <2> QED BY <2>1, <2>2, <2>3, <2>4, LegacyJobMove DEF LegacyWorks
<1>3. CASE Legacy!Refuse(j)
  <2>1. /\ job' \in [Jobs -> Legacy!Places] /\ job'[j] = "refused" /\ \A i \in Jobs : i # j
           => job'[i] = job[i]
    BY <1>1, <1>3, LegacyAssigned DEF Legacy!Refuse, Legacy!Places
  <2>2. UNCHANGED <<closing, dirty, close, shown, journal, broker, consent>> /\ job[j] = "request"
    BY <1>3 DEF Legacy!Refuse, Legacy!fences, Legacy!page
  <2>3. Legacy!JobsTypes' /\ LegacyOnlyJob(j)
    BY <1>1, <2>1, <2>2 DEF Legacy!JobsTypes, LegacyOnlyJob
  <2>4. Legacy!JobSound(j)'
    BY <1>1, <2>1, <2>2 DEF Legacy!JobSound, Legacy!Working
  <2> QED BY <2>1, <2>2, <2>3, <2>4, LegacyJobMove DEF LegacyWorks, LegacyRequests
<1>4. CASE Legacy!Accept(j)
  <2>1. /\ job' \in [Jobs -> Legacy!Places] /\ job'[j] = "submit" /\ \A i \in Jobs : i # j
           => job'[i] = job[i]
    BY <1>1, <1>4, LegacyAssigned DEF Legacy!Accept, Legacy!Places
  <2>2. /\ UNCHANGED <<closing, dirty, close, consent>> /\ job[j] = "request"
        /\ journal' = [journal EXCEPT ![j] = {"start"}]
        /\ shown' = [shown EXCEPT ![j] = "queued"] /\ broker' = [broker EXCEPT ![j] = "open"]
    BY <1>4 DEF Legacy!Accept, Legacy!fences
  <2>3. Legacy!JobsTypes' /\ LegacyOnlyJob(j)
    BY <1>1, <2>1, <2>2 DEF Legacy!JobsTypes, LegacyOnlyJob
  <2>4. Legacy!JobSound(j)'
    BY <1>1, <2>1, <2>2 DEF Legacy!JobSound, Legacy!Working, Legacy!JobsTypes
  <2> QED BY <2>1, <2>2, <2>3, <2>4, LegacyJobMove DEF LegacyWorks, LegacyRequests
<1>5. CASE Legacy!AcceptFails(j)
  <2>1. /\ job' \in [Jobs -> Legacy!Places] /\ job'[j] = "refused" /\ \A i \in Jobs : i # j
           => job'[i] = job[i]
    BY <1>1, <1>5, LegacyAssigned DEF Legacy!AcceptFails, Legacy!Places
  <2>2. /\ UNCHANGED <<closing, close, shown, broker, consent>> /\ job[j] = "request"
           /\ dirty' = TRUE
    BY <1>5 DEF Legacy!AcceptFails, Legacy!page
  <2>3. PICK w \in {{}, {"start"}} : journal' = [journal EXCEPT ![j] = w]
    BY <1>5 DEF Legacy!AcceptFails
  <2>4. Legacy!JobsTypes' /\ LegacyOnlyJob(j)
    BY <1>1, <2>1, <2>2, <2>3 DEF Legacy!JobsTypes, LegacyOnlyJob
  <2>5. Legacy!JobSound(j)'
    BY <1>1, <2>1, <2>2, <2>3 DEF Legacy!JobSound, Legacy!Working, Legacy!JobsTypes
  <2> QED BY <2>1, <2>2, <2>4, <2>5, LegacyJobMove DEF LegacyWorks, LegacyRequests
<1>6. CASE Legacy!Submit(j)
  <2>1. PICK q \in {"queued", "lost"} : Legacy!To(j, q) /\ (dirty' = TRUE \/ (q = "queued"
        /\ dirty' = dirty))
    BY <1>6 DEF Legacy!Submit
  <2>2. /\ job' \in [Jobs -> Legacy!Places] /\ job'[j] = q /\ \A i \in Jobs : i # j
           => job'[i] = job[i]
    BY <1>1, <2>1, LegacyAssigned DEF Legacy!Places
  <2>3. UNCHANGED <<closing, close, shown, journal, broker, consent>> /\ job[j] = "submit"
    BY <1>6 DEF Legacy!Submit, Legacy!page
  <2>4. Legacy!JobsTypes' /\ LegacyOnlyJob(j)
    BY <1>1, <2>1, <2>2, <2>3 DEF Legacy!JobsTypes, LegacyOnlyJob
  <2>5. Legacy!JobSound(j)'
    BY <1>1, <2>1, <2>2, <2>3 DEF Legacy!JobSound, Legacy!Working
  <2> QED BY <2>1, <2>2, <2>3, <2>4, <2>5, LegacyJobMove DEF LegacyWorks, LegacyRequests
<1> QED BY <1>2, <1>3, <1>4, <1>5, <1>6

\* Steps of a worker that change its place, and the broker and the consent of its job.
LEMMA LegacyWorkStep ==
    ASSUME Legacy!JobsInv, NEW j \in Jobs,
           \/ Legacy!Begin(j) \/ Legacy!Turn(j) \/ Legacy!Answer(j) \/ Legacy!Ask(j)
              \/ Legacy!Wake(j) \/ Legacy!Enter(j) \/ Legacy!Leave(j) \/ Legacy!Expire(j)
    PROVE  Legacy!JobsInv'
<1>1. Legacy!JobsTypes /\ Legacy!JobSound(j)
  BY DEF Legacy!JobsInv
<1>2. CASE Legacy!Begin(j)
  <2>1. PICK q \in {"loop", "end_failed"} : Legacy!To(j, q)
    BY <1>2 DEF Legacy!Begin
  <2>2. /\ job' \in [Jobs -> Legacy!Places] /\ job'[j] = q /\ \A i \in Jobs : i # j
           => job'[i] = job[i]
    BY <1>1, <2>1, LegacyAssigned DEF Legacy!Places
  <2>3. /\ UNCHANGED <<closing, close, dirty, journal, broker, consent>> /\ job[j] = "queued"
        /\ shown' = [shown EXCEPT ![j] = "running"]
    BY <1>2 DEF Legacy!Begin, Legacy!fences
  <2>4. Legacy!JobsTypes' /\ LegacyOnlyJob(j)
    BY <1>1, <2>2, <2>3 DEF Legacy!JobsTypes, LegacyOnlyJob
  <2>5. Legacy!JobSound(j)'
    BY <1>1, <2>2, <2>3 DEF Legacy!JobSound, Legacy!Working, Legacy!JobsTypes
  <2> QED BY <2>2, <2>3, <2>4, <2>5, LegacyJobMove DEF LegacyWorks, LegacyRequests
<1>3. CASE Legacy!Turn(j) \/ Legacy!Answer(j) \/ Legacy!Enter(j)
  <2>1. PICK q \in {"model", "end_completed", "end_failed", "ask", "loop", "effect"} :
            Legacy!To(j, q) /\ (q = "effect" => job[j] = "answered")
    BY <1>3 DEF Legacy!Turn, Legacy!Answer, Legacy!Enter
  <2>2. /\ job' \in [Jobs -> Legacy!Places] /\ job'[j] = q /\ \A i \in Jobs : i # j
           => job'[i] = job[i]
    BY <1>1, <2>1, LegacyAssigned DEF Legacy!Places
  <2>3. /\ UNCHANGED <<closing, close, dirty, shown, journal, broker, consent>>
        /\ job[j] \in {"loop", "model", "answered"}
    BY <1>3 DEF Legacy!Turn, Legacy!Answer, Legacy!Enter, Legacy!fences, Legacy!page
  <2>4. Legacy!JobsTypes' /\ LegacyOnlyJob(j)
    BY <1>1, <2>2, <2>3 DEF Legacy!JobsTypes, LegacyOnlyJob
  <2>5. Legacy!JobSound(j)'
    BY <1>1, <2>1, <2>2, <2>3 DEF Legacy!JobSound, Legacy!Working
  <2> QED BY <2>2, <2>3, <2>4, <2>5, LegacyJobMove DEF LegacyWorks, LegacyRequests
<1>4. CASE Legacy!Ask(j) \/ Legacy!Wake(j) \/ Legacy!Expire(j)
  <2>1. PICK q \in {"ask", "loop", "answered"}, b \in {"none", "open", "pending", "closed"},
        x \in BOOLEAN :
            /\ job' = [job EXCEPT ![j] = q] /\ broker' = [broker EXCEPT ![j] = b]
            /\ consent' = [consent EXCEPT ![j] = x]
            /\ b = "pending" => q = "ask"
            /\ q = "answered" => x
    <3>1. CASE Legacy!Ask(j)
      BY <1>1, <3>1 DEF Legacy!Ask, Legacy!To, Legacy!JobsTypes
    <3>2. CASE Legacy!Expire(j)
      BY <1>1, <3>2 DEF Legacy!Expire, Legacy!To, Legacy!JobsTypes
    <3>3. CASE Legacy!Wake(j)
      BY <1>1, <3>3 DEF Legacy!Wake, Legacy!To, Legacy!JobsTypes
    <3> QED BY <1>4, <3>1, <3>2, <3>3
  <2>2. UNCHANGED <<closing, close, dirty, shown, journal>> /\ job[j] = "ask"
    BY <1>4 DEF Legacy!Ask, Legacy!Wake, Legacy!Expire, Legacy!fences
  <2>3. Legacy!JobsTypes' /\ LegacyOnlyJob(j)
    BY <1>1, <2>1, <2>2 DEF Legacy!JobsTypes, LegacyOnlyJob, Legacy!Places
  <2>4. job'[j] = q /\ broker'[j] = b /\ consent'[j] = x
    BY <1>1, <2>1 DEF Legacy!JobsTypes
  <2>5. Legacy!JobSound(j)'
    BY <1>1, <2>1, <2>2, <2>4 DEF Legacy!JobSound, Legacy!Working
  <2> QED BY <2>1, <2>2, <2>3, <2>4, <2>5, LegacyJobMove DEF LegacyWorks, LegacyRequests
<1>5. CASE Legacy!Leave(j)
  <2>1. PICK q \in {"loop", "end_failed"} : Legacy!To(j, q) /\ (dirty' = dirty \/ dirty' = TRUE)
    BY <1>5 DEF Legacy!Leave
  <2>2. /\ job' \in [Jobs -> Legacy!Places] /\ job'[j] = q /\ \A i \in Jobs : i # j
           => job'[i] = job[i]
    BY <1>1, <2>1, LegacyAssigned DEF Legacy!Places
  <2>3. /\ UNCHANGED <<closing, close, shown, journal, broker>> /\ job[j] = "effect"
        /\ consent' = [consent EXCEPT ![j] = FALSE]
    BY <1>5 DEF Legacy!Leave
  <2>4. Legacy!JobsTypes' /\ LegacyOnlyJob(j)
    BY <1>1, <2>1, <2>2, <2>3 DEF Legacy!JobsTypes, LegacyOnlyJob
  <2>5. Legacy!JobSound(j)'
    BY <1>1, <2>1, <2>2, <2>3 DEF Legacy!JobSound, Legacy!Working, Legacy!JobsTypes
  <2> QED BY <2>1, <2>2, <2>3, <2>4, <2>5, LegacyJobMove DEF LegacyWorks, LegacyRequests
<1> QED BY <1>2, <1>3, <1>4, <1>5

LEMMA LegacyEndStep == ASSUME Legacy!JobsInv, NEW j \in Jobs, Legacy!Record(j)
                              \/ Legacy!RecordFails(j) PROVE Legacy!JobsInv'
<1>1. Legacy!JobsTypes /\ Legacy!JobSound(j) /\ job[j] \in {"end_completed", "end_failed"}
  BY DEF Legacy!JobsInv, Legacy!Record, Legacy!RecordFails
<1>2. shown[j] = "running" /\ journal[j] = {"start"}
  BY <1>1 DEF Legacy!JobSound, Legacy!Working
<1>3. PICK q \in {"noted_completed", "noted_failed"}, w \in SUBSET {"returned", "failed"} :
          /\ Legacy!To(j, q) /\ journal' = [journal EXCEPT ![j] = journal[j] \cup w]
          /\ dirty' = dirty \/ dirty' = TRUE
          /\ w # {} \/ dirty'
          /\ q = "noted_completed" => "returned" \in w
          /\ q = "noted_failed" /\ "returned" \in w => dirty'
  <2>1. CASE Legacy!Record(j)
    <3>1. /\ dirty' = dirty
             /\ journal' = [journal EXCEPT ![j] = journal[j] \cup {Legacy!Outcome(j)}]
          /\ Legacy!To(j,
             IF Legacy!Outcome(j) = "returned" THEN "noted_completed" ELSE "noted_failed")
      BY <2>1 DEF Legacy!Record
    <3>2. Legacy!Outcome(j) \in {"returned", "failed"}
      BY DEF Legacy!Outcome
    <3>3. PICK w \in SUBSET {"returned", "failed"} : w = {Legacy!Outcome(j)}
      BY <3>2
    <3> QED BY <3>1, <3>2, <3>3
  <2>2. CASE Legacy!RecordFails(j)
    <3>1. Legacy!Outcome(j) \in {"returned", "failed"}
      BY DEF Legacy!Outcome
    <3>2. PICK w \in {{},
          {Legacy!Outcome(j)}} : journal' = [journal EXCEPT ![j] = journal[j] \cup w]
      BY <2>2 DEF Legacy!RecordFails
    <3>3. w \in SUBSET {"returned", "failed"}
      BY <3>1
    <3>4. dirty' = TRUE /\ Legacy!To(j, "noted_failed")
      BY <2>2 DEF Legacy!RecordFails
    <3> QED BY <3>2, <3>3, <3>4
  <2> QED BY <2>1, <2>2
<1>4. /\ job' \in [Jobs -> Legacy!Places] /\ job'[j] = q /\ \A i \in Jobs : i # j
         => job'[i] = job[i]
  BY <1>1, <1>3, LegacyAssigned DEF Legacy!Places
<1>5. UNCHANGED <<shown, broker, consent, closing, close>>
  BY DEF Legacy!Record, Legacy!RecordFails, Legacy!page
<1>6. journal'[j] = {"start"} \cup w /\ journal' \in [Jobs -> SUBSET {"start", "returned",
      "failed"}]
  BY <1>1, <1>2, <1>3 DEF Legacy!JobsTypes
<1>7. \A i \in Jobs : i # j => journal'[i] = journal[i]
  BY <1>1, <1>3 DEF Legacy!JobsTypes
<1>8. Legacy!JobsTypes' /\ LegacyOnlyJob(j)
  BY <1>1, <1>3, <1>4, <1>5, <1>6, <1>7 DEF Legacy!JobsTypes, LegacyOnlyJob
<1>9. Legacy!JobSound(j)'
  BY <1>1, <1>2, <1>3, <1>4, <1>5, <1>6 DEF Legacy!JobSound, Legacy!Working
<1> QED BY <1>1, <1>3, <1>4, <1>8, <1>9, LegacyJobMove DEF LegacyWorks, LegacyRequests

LEMMA LegacyPublishStep == ASSUME Legacy!JobsInv, NEW j \in Jobs, Legacy!Publish(j)
                                  PROVE Legacy!JobsInv'
<1>1. Legacy!JobsTypes /\ Legacy!JobSound(j) /\ job[j] \in {"noted_completed", "noted_failed"}
  BY DEF Legacy!JobsInv, Legacy!Publish
<1>2. PICK v \in {"completed", "failed"} :
          /\ shown' = [shown EXCEPT ![j] = v]
          /\ v = "completed" <=> job[j] = "noted_completed"
  BY DEF Legacy!Publish
<1>3. UNCHANGED <<journal, broker, consent, closing, dirty, close>>
  BY DEF Legacy!Publish, Legacy!fences
<1>4. /\ job' \in [Jobs -> Legacy!Places] /\ job'[j] = "done" /\ \A i \in Jobs : i # j
         => job'[i] = job[i]
  BY <1>1, LegacyAssigned DEF Legacy!Publish, Legacy!Places
<1>5. Legacy!JobsTypes' /\ LegacyOnlyJob(j) /\ shown'[j] = v
  BY <1>1, <1>2, <1>3, <1>4 DEF Legacy!JobsTypes, LegacyOnlyJob
<1>6. Legacy!JobSound(j)'
  BY <1>1, <1>2, <1>3, <1>4, <1>5 DEF Legacy!JobSound, Legacy!Working
<1> QED BY <1>1, <1>3, <1>4, <1>5, <1>6, LegacyJobMove DEF LegacyWorks, LegacyRequests

LEMMA LegacyDecideStep ==
    ASSUME Legacy!JobsInv, NEW j \in Jobs, NEW allow \in BOOLEAN, Legacy!Decide(j, allow)
    PROVE  Legacy!JobsInv'
<1>1. Legacy!JobsTypes /\ Legacy!JobSound(j)
  BY DEF Legacy!JobsInv
<1>2. /\ broker[j] = "pending" /\ UNCHANGED <<job, journal, shown, closing, dirty, close>>
      /\ consent' = [consent EXCEPT ![j] = allow]
  BY DEF Legacy!Decide, Legacy!fences
<1>3. PICK b \in {"allowed", "denied"} : /\ broker' = [broker EXCEPT ![j] = b]
                                         /\ b = "allowed" => allow
  BY DEF Legacy!Decide
<1>4. job[j] = "ask" /\ job' = job
  BY <1>1, <1>2 DEF Legacy!JobSound
<1>5. Legacy!JobsTypes' /\ LegacyOnlyJob(j)
  BY <1>1, <1>2, <1>3 DEF Legacy!JobsTypes, LegacyOnlyJob
<1>6. broker'[j] = b /\ consent'[j] = allow
  BY <1>1, <1>2, <1>3 DEF Legacy!JobsTypes
<1>7. Legacy!JobSound(j)'
  BY <1>1, <1>2, <1>3, <1>4, <1>6 DEF Legacy!JobSound, Legacy!Working
<1> QED BY <1>2, <1>4, <1>5, <1>7, LegacyJobMove DEF LegacyWorks, LegacyRequests

-----------------------------------------------------------------------------
(* close, and every step *)

LEMMA LegacyCloserStep == ASSUME Legacy!JobsInv, Legacy!OwnerFault \/ Legacy!Fence
                                 \/ Legacy!Closer PROVE Legacy!JobsInv'
<1>1. /\ UNCHANGED <<dirty, job, journal, shown, consent>> /\ Legacy!JobsTypes
  BY DEF Legacy!JobsInv, Legacy!OwnerFault, Legacy!Fence, Legacy!Closer, Legacy!Deny,
     Legacy!JoinRequests, Legacy!JoinPool, Legacy!page
<1>2. broker' = broker \/ broker' = [j \in Jobs |-> IF broker[j] = "none" THEN "none" ELSE "closed"]
  BY DEF Legacy!OwnerFault, Legacy!Fence, Legacy!Closer, Legacy!Deny, Legacy!JoinRequests,
     Legacy!JoinPool, Legacy!page
<1>3. Legacy!JobsTypes'
  BY <1>1, <1>2 DEF Legacy!JobsTypes
<1>4. ASSUME NEW j \in Jobs PROVE Legacy!JobSound(j)'
  <2>1. broker'[j] = broker[j] \/ broker'[j] \in {"none", "closed"}
    BY <1>2
  <2> QED BY <1>1, <2>1 DEF Legacy!JobsInv, Legacy!JobSound, Legacy!Working
<1>5. Legacy!CloseSound'
  <2>1. Legacy!Requesting' = Legacy!Requesting /\ Legacy!Working' = Legacy!Working
    BY <1>1 DEF Legacy!Requesting, Legacy!Working
  <2>2. CASE Legacy!OwnerFault
    BY <1>1, <2>1, <2>2 DEF Legacy!JobsInv, Legacy!CloseSound, Legacy!OwnerFault
  <2>3. CASE Legacy!Fence
    BY <1>1, <2>1, <2>3 DEF Legacy!JobsInv, Legacy!CloseSound, Legacy!Fence
  <2>4. CASE Legacy!Deny
    BY <1>1, <2>1, <2>4 DEF Legacy!JobsInv, Legacy!CloseSound, Legacy!Deny
  <2>5. CASE Legacy!JoinRequests
    BY <1>1, <2>1, <2>5 DEF Legacy!JobsInv, Legacy!CloseSound, Legacy!JoinRequests
  <2>6. CASE Legacy!JoinPool
    BY <1>1, <2>1, <2>6 DEF Legacy!JobsInv, Legacy!CloseSound, Legacy!JoinPool
  <2> QED BY <2>2, <2>3, <2>4, <2>5, <2>6 DEF Legacy!Closer
<1> QED BY <1>3, <1>4, <1>5 DEF Legacy!JobsInv

LEMMA LegacyInitInv == Legacy!Init => Legacy!JobsInv
BY DEF Legacy!Init, Legacy!JobsInv, Legacy!JobsTypes, Legacy!JobSound, Legacy!CloseSound,
   Legacy!Places, Legacy!Working, Legacy!Requesting

LEMMA LegacyNextStep == Legacy!JobsInv /\ [Legacy!Next]_(Legacy!vars) => Legacy!JobsInv'
<1> SUFFICES ASSUME Legacy!JobsInv, [Legacy!Next]_(Legacy!vars) PROVE Legacy!JobsInv'
  OBVIOUS
<1>1. ASSUME NEW j \in Jobs,
             \/ Legacy!Request(j) \/ Legacy!Refuse(j) \/ Legacy!Accept(j)
                \/ Legacy!AcceptFails(j) \/ Legacy!Submit(j) \/ Legacy!Worker(j)
             \/ Legacy!Expire(j)
      PROVE  Legacy!JobsInv'
  BY <1>1, LegacyRequestStep, LegacyWorkStep, LegacyEndStep, LegacyPublishStep DEF Legacy!Worker
<1>2. ASSUME NEW j \in Jobs, NEW allow \in BOOLEAN, Legacy!Decide(j, allow) PROVE Legacy!JobsInv'
  BY <1>2, LegacyDecideStep
<1>3. CASE Legacy!OwnerFault \/ Legacy!Fence \/ Legacy!Closer
  BY <1>3, LegacyCloserStep
<1>4. CASE UNCHANGED Legacy!vars
  BY <1>4 DEF Legacy!vars, Legacy!JobsInv, Legacy!JobsTypes, Legacy!JobSound, Legacy!CloseSound,
     Legacy!Working, Legacy!Requesting
<1> QED BY <1>1, <1>2, <1>3, <1>4 DEF Legacy!Next

LEMMA LegacyAccounted == Legacy!JobsInv => Legacy!JobsAreAccounted
<1> SUFFICES ASSUME Legacy!JobsInv PROVE Legacy!JobsAreAccounted
  OBVIOUS
<1>1. \A j \in Jobs : Legacy!JobSound(j) /\ job[j] \in Legacy!Places
  BY DEF Legacy!JobsInv, Legacy!JobsTypes
<1>2. ASSUME NEW j \in Jobs
      PROVE  /\ Legacy!Entered(j) => "start" \in journal[j] /\ "returned" \notin journal[j]
             /\ shown[j] = "completed" => "returned" \in journal[j]
             /\ "returned" \in journal[j] =>
                   job[j] \in {"noted_completed", "noted_failed", "done"}
                       /\ (shown[j] = "failed" => dirty)
  BY <1>1 DEF Legacy!JobSound, Legacy!Places, Legacy!Working, Legacy!Entered
<1>3. Legacy!JournalFinds
  BY <1>2 DEF Legacy!JournalFinds, Legacy!Unresolved
<1>4. Legacy!ClosedIsDrained
  <2>1. ASSUME close = "returned" PROVE /\ Legacy!Requesting = {} /\ Legacy!Working = {} /\ ~dirty
                                        /\ \A j \in Jobs : job[j] # "queued"
    BY <2>1 DEF Legacy!JobsInv, Legacy!CloseSound
  <2>2. ASSUME close = "returned", NEW j \in Jobs, journal[j] # {}
        PROVE  /\ journal[j] \cap {"returned", "failed"} # {}
               /\ shown[j] = "completed" <=> "returned" \in journal[j]
    <3>1. j \notin Legacy!Requesting /\ j \notin Legacy!Working /\ job[j] # "queued" /\ ~dirty
      BY <2>1, <2>2
    <3>2. job[j] = "done"
      BY <1>1, <2>2, <3>1 DEF Legacy!JobSound, Legacy!Places, Legacy!Working, Legacy!Requesting
    <3> QED BY <1>1, <3>1, <3>2 DEF Legacy!JobSound
  <2> QED BY <2>1, <2>2 DEF Legacy!ClosedIsDrained
<1>5. Legacy!EffectsHaveConsent
  BY <1>1 DEF Legacy!EffectsHaveConsent, Legacy!JobSound
<1> QED BY <1>3, <1>4, <1>5 DEF Legacy!JobsAreAccounted

-----------------------------------------------------------------------------
(* ProcessSupervisor: any calls, of any kind *)

-----------------------------------------------------------------------------
(* One call moves *)

ProcessTrees == [parent : {"none", "live", "exited"}, child : {"none", "member", "escaped"}]
ProcessReaders == {"none", "reading", "eof", "overflowing", "overflow", "failed", "bad"}
ProcessTerms == {"no", "running", "ok", "failed"}

\* Only the call o moves.
ProcessBeside(o) ==
    \A p \in Ops : p # o =>
        /\ op'[p] = op[p] /\ tree'[p] = tree[p] /\ reader'[p] = reader[p] /\ term'[p] = term[p]
        /\ kills'[p] = kills[p]
        /\ p \in open' <=> p \in open
        /\ p \in registered' <=> p \in registered

LEMMA ProcessTypesAre ==
    Supervisor!Types <=> /\ op \in [Ops -> Supervisor!OpRecords] /\ kills \in [Ops -> 0..1]
                            /\ tree \in [Ops -> ProcessTrees]
                         /\ reader \in [Ops -> ProcessReaders] /\ term \in [Ops -> ProcessTerms]
                         /\ open \subseteq Ops /\ registered \subseteq Ops
                         /\ process_close \in Supervisor!CloseTasks
<1>1. op \in [Ops -> Supervisor!OpRecords] => \A o \in Ops : op[o] \in Supervisor!OpRecords
  OBVIOUS
<1> QED BY <1>1 DEF Supervisor!Types, Supervisor!TypeOK, ProcessTrees, ProcessReaders,
    ProcessTerms, Supervisor!OpRecords, Supervisor!CloseTasks

LEMMA ProcessTypesNext ==
    ASSUME op' \in [Ops -> Supervisor!OpRecords], kills' \in [Ops -> 0..1],
           tree' \in [Ops -> ProcessTrees],
           reader' \in [Ops -> ProcessReaders], term' \in [Ops -> ProcessTerms],
           open' \subseteq Ops, registered' \subseteq Ops,
           process_close' \in Supervisor!CloseTasks
    PROVE  Supervisor!Types'
<1>1. \A o \in Ops : op'[o] \in Supervisor!OpRecords
  OBVIOUS
<1> QED BY <1>1 DEF Supervisor!Types, Supervisor!TypeOK, ProcessTrees, ProcessReaders,
    ProcessTerms, Supervisor!OpRecords, Supervisor!CloseTasks

LEMMA ProcessCallsHold ==
    ASSUME Supervisor!SupervisorInv, NEW o \in Ops, ProcessBeside(o), failed => failed',
           Supervisor!CallHolds(o)'
    PROVE  \A p \in Ops : Supervisor!CallHolds(p)'
<1>1. ASSUME NEW p \in Ops, p # o PROVE Supervisor!CallHolds(p)'
  <2>1. Supervisor!CallHolds(p)
    BY DEF Supervisor!SupervisorInv
  <2> QED BY <1>1, <2>1 DEF Supervisor!CallHolds, ProcessBeside, Supervisor!PC
<1> QED BY <1>1

\* A step of a call that close has not seen the end of.
LEMMA ProcessCallMove ==
    ASSUME Supervisor!SupervisorInv, NEW o \in Ops, ProcessBeside(o), failed => failed',
           Supervisor!Types', Supervisor!CallHolds(o)',
           UNCHANGED <<process_closing, process_close>>,
           process_close.pc = "ok" => /\ o \notin registered' /\ o \notin open'
                                      /\ op'[o].pc \in {"idle", "refused", "done"}
    PROVE  Supervisor!SupervisorInv'
<1>1. Supervisor!Types /\ Supervisor!CloseHolds
  BY DEF Supervisor!SupervisorInv
<1>2. open' \subseteq Ops /\ registered' \subseteq Ops
  BY ProcessTypesAre DEF Supervisor!Types, Supervisor!TypeOK
<1>3. Supervisor!CloseHolds'
  <2>1. ASSUME process_close.pc = "ok" PROVE /\ registered' = {} /\ open' = {}
                                             /\ \A p \in Ops : Supervisor!PC(p)' \in {"idle",
                                                 "refused", "done"}
    <3>1. registered = {} /\ open = {} /\ \A p \in Ops : Supervisor!PC(p) \in {"idle", "refused",
          "done"}
      BY <1>1, <2>1 DEF Supervisor!CloseHolds
    <3>2. \A p \in Ops : p \notin registered' /\ p \notin open'
      BY <2>1, <3>1 DEF ProcessBeside
    <3>3. \A p \in Ops : Supervisor!PC(p)' \in {"idle", "refused", "done"}
      BY <2>1, <3>1 DEF ProcessBeside, Supervisor!PC
    <3> QED BY <1>2, <3>2, <3>3
  <2> QED BY <1>1, <2>1 DEF Supervisor!CloseHolds
<1>4. \A p \in Ops : Supervisor!CallHolds(p)'
  BY ProcessCallsHold
<1> QED BY <1>3, <1>4 DEF Supervisor!SupervisorInv

\* The record of a call after a step.
LEMMA ProcessGotoIs ==
    ASSUME Supervisor!Types, NEW o \in Ops, NEW place, Supervisor!Goto(o, place),
           place \in {"idle", "wait", "join", "empty", "close", "done", "refused", "unproved"}
    PROVE  /\ op' \in [Ops -> Supervisor!OpRecords] /\ \A p \in Ops : p # o => op'[p] = op[p]
           /\ op'[o].pc = place /\ op'[o].kind = op[o].kind /\ op'[o].sup = op[o].sup
           /\ op'[o].uncertain = op[o].uncertain
<1>1. PICK t : t = [op[o] EXCEPT !.pc = place]
  OBVIOUS
<1>2. op' = [op EXCEPT ![o] = t] /\ op \in [Ops -> Supervisor!OpRecords]
      /\ op[o] \in Supervisor!OpRecords
  BY <1>1, ProcessTypesAre DEF Supervisor!Goto
<1>3. /\ t \in Supervisor!OpRecords /\ t.pc = place /\ t.kind = op[o].kind /\ t.sup = op[o].sup
      /\ t.uncertain = op[o].uncertain
  BY <1>1, <1>2 DEF Supervisor!OpRecords
<1> QED BY <1>2, <1>3

LEMMA ProcessAbandonIs ==
    ASSUME Supervisor!Types, NEW o \in Ops, Supervisor!Abandon(o)
    PROVE  /\ op' \in [Ops -> Supervisor!OpRecords] /\ \A p \in Ops : p # o => op'[p] = op[p]
           /\ op'[o].pc = "unproved" /\ op'[o].kind = op[o].kind /\ op'[o].sup = op[o].sup
              /\ failed'
<1>1. PICK t : t = [op[o] EXCEPT !.pc = "unproved", !.uncertain = TRUE]
  OBVIOUS
<1>2. op' = [op EXCEPT ![o] = t] /\ op \in [Ops -> Supervisor!OpRecords]
      /\ op[o] \in Supervisor!OpRecords /\ failed'
  BY <1>1, ProcessTypesAre DEF Supervisor!Abandon
<1>3. t \in Supervisor!OpRecords /\ t.pc = "unproved" /\ t.kind = op[o].kind /\ t.sup = op[o].sup
  BY <1>1, <1>2 DEF Supervisor!OpRecords
<1> QED BY <1>2, <1>3

LEMMA ProcessUncertainIs ==
    ASSUME Supervisor!Types, NEW o \in Ops, NEW x \in BOOLEAN, op' = [op EXCEPT ![o].uncertain = x]
    PROVE  /\ op' \in [Ops -> Supervisor!OpRecords] /\ \A p \in Ops : p # o => op'[p] = op[p]
           /\ op'[o].pc = op[o].pc /\ op'[o].kind = op[o].kind /\ op'[o].sup = op[o].sup
           /\ op'[o].uncertain = x
<1>1. PICK t : t = [op[o] EXCEPT !.uncertain = x]
  OBVIOUS
<1>2. op' = [op EXCEPT ![o] = t] /\ op \in [Ops -> Supervisor!OpRecords]
      /\ op[o] \in Supervisor!OpRecords
  BY <1>1, ProcessTypesAre
<1>3. /\ t \in Supervisor!OpRecords /\ t.pc = op[o].pc /\ t.kind = op[o].kind /\ t.sup = op[o].sup
      /\ t.uncertain = x
  BY <1>1, <1>2 DEF Supervisor!OpRecords
<1> QED BY <1>2, <1>3

-----------------------------------------------------------------------------
(* Terminations *)

\* What a termination makes of a tree.
ProcessCut(o, t) ==
    /\ t \in ProcessTrees /\ tree' = [tree EXCEPT ![o] = t]
    /\ t.parent = "live" => tree[o].parent = "live"
    /\ tree[o].parent = "exited" => t.parent = "exited"
    /\ t.child \in {tree[o].child, "none"}

LEMMA ProcessKilledIs ==
    ASSUME Supervisor!Types, NEW o \in Ops, NEW t \in Supervisor!Killed(o)
    PROVE  /\ t \in ProcessTrees /\ t.child \in {tree[o].child, "none"}
           /\ t.parent = "live" => tree[o].parent = "live"
           /\ tree[o].parent = "exited" => t.parent = "exited"
           /\ op[o].sup = "group" => t.parent = "exited" /\ t.child # "member"
<1>1. tree[o] \in ProcessTrees
  BY ProcessTypesAre
<1>2. CASE op[o].sup = "fallback" /\ tree[o].parent # "live"
  BY <1>1, <1>2 DEF Supervisor!Killed, ProcessTrees
<1>3. CASE op[o].sup = "fallback" /\ tree[o].parent = "live"
  <2>1. t \in [parent : {"live", "exited"}, child : {"none", tree[o].child}]
    BY <1>3 DEF Supervisor!Killed
  <2> QED BY <1>1, <1>3, <2>1 DEF ProcessTrees
<1>4. CASE op[o].sup # "fallback"
  <2>1. PICK c \in {"none", "escaped"} : c = IF tree[o].child = "escaped" THEN "escaped" ELSE "none"
    OBVIOUS
  <2>2. t = [parent |-> "exited", child |-> c]
    BY <1>4, <2>1 DEF Supervisor!Killed
  <2> QED BY <2>1, <2>2 DEF ProcessTrees
<1> QED BY <1>2, <1>3, <1>4

LEMMA ProcessCutIs ==
    ASSUME Supervisor!Types, NEW o \in Ops, tree' = tree \/ Supervisor!Kill(o)
    PROVE  \E t : ProcessCut(o, t) /\ ((t = tree[o] /\ tree' = tree) \/ t \in Supervisor!Killed(o))
<1>1. tree \in [Ops -> ProcessTrees] /\ tree[o] \in ProcessTrees
  BY ProcessTypesAre
<1>2. CASE tree' = tree
  BY <1>1, <1>2 DEF ProcessCut
<1>3. CASE Supervisor!Kill(o)
  <2>1. PICK t \in Supervisor!Killed(o) : tree' = [tree EXCEPT ![o] = t]
    BY <1>3 DEF Supervisor!Kill
  <2> QED BY <2>1, ProcessKilledIs DEF ProcessCut
<1> QED BY <1>2, <1>3

\* What a termination leaves, on the loop: one attempt, or the result of another.
LEMMA ProcessTerminatesIs ==
    ASSUME Supervisor!Types, NEW o \in Ops, Supervisor!CallHolds(o), Supervisor!Terminates(o)
    PROVE  /\ ~failed /\ term' = [term EXCEPT ![o] = "ok"]
           /\ kills' \in [Ops -> 0..1] /\ \A p \in Ops : p # o => kills'[p] = kills[p]
           /\ \E t : ProcessCut(o, t) /\ (op[o].sup = "group" => t.parent = "exited"
              /\ t.child # "member")
<1>1. /\ term \in [Ops -> ProcessTerms] /\ kills \in [Ops -> 0..1] /\ kills[o] \in 0..1
      /\ term[o] = "no" => kills[o] = 0
  BY ProcessTypesAre DEF Supervisor!CallHolds
<1>2. CASE term[o] = "no"
  <2>1. /\ term' = [term EXCEPT ![o] = "ok"] /\ kills' = [kills EXCEPT ![o] = @ + 1] /\ ~failed
        /\ Supervisor!Kill(o)
    BY <1>2 DEF Supervisor!Terminates
  <2>2. kills[o] + 1 = 1
    BY <1>1, <1>2
  <2>3. kills' = [kills EXCEPT ![o] = 1]
    BY <2>1, <2>2
  <2>4. kills' \in [Ops -> 0..1] /\ \A p \in Ops : p # o => kills'[p] = kills[p]
    BY <1>1, <2>3
  <2>5. PICK t \in Supervisor!Killed(o) : tree' = [tree EXCEPT ![o] = t]
    BY <2>1 DEF Supervisor!Kill
  <2>6. op[o].sup = "group" => t.parent = "exited" /\ t.child # "member"
    BY <2>5, ProcessKilledIs
  <2>7. ProcessCut(o, t)
    BY <2>5, ProcessKilledIs DEF ProcessCut
  <2> QED BY <2>1, <2>4, <2>6, <2>7
<1>3. CASE term[o] # "no"
  <2>1. term[o] = "ok" /\ ~failed /\ UNCHANGED <<term, kills, tree>>
    BY <1>3 DEF Supervisor!Terminates
  <2>2. PICK t : t = tree[o] /\ ProcessCut(o, t)
    BY <2>1, ProcessTypesAre DEF ProcessCut
  <2>3. op[o].sup = "group" => t.parent = "exited" /\ t.child # "member"
    BY <2>1, <2>2 DEF Supervisor!CallHolds
  <2>4. term' = [term EXCEPT ![o] = "ok"]
    BY <1>1, <2>1
  <2> QED BY <1>1, <2>1, <2>2, <2>3, <2>4
<1> QED BY <1>2, <1>3

LEMMA ProcessFailsIs ==
    ASSUME Supervisor!Types, NEW o \in Ops, Supervisor!CallHolds(o), Supervisor!TerminationFails(o)
    PROVE  /\ \E x \in ProcessTerms \ {"no"} : /\ term' = [term EXCEPT ![o] = x]
                                               /\ x = term[o] \/ (x = "failed" /\ term[o] = "no")
           /\ kills' \in [Ops -> 0..1] /\ \A p \in Ops : p # o => kills'[p] = kills[p]
           /\ \E t : ProcessCut(o, t) /\ (term[o] # "no" => t = tree[o])
<1>1. /\ term \in [Ops -> ProcessTerms] /\ kills \in [Ops -> 0..1] /\ kills[o] \in 0..1
         /\ term[o] \in ProcessTerms
      /\ term[o] = "no" => kills[o] = 0
  BY ProcessTypesAre DEF Supervisor!CallHolds
<1>2. CASE term[o] = "no"
  <2>1. /\ term' = [term EXCEPT ![o] = "failed"] /\ kills' = [kills EXCEPT ![o] = @ + 1]
        /\ tree' = tree \/ Supervisor!Kill(o)
    BY <1>2 DEF Supervisor!TerminationFails
  <2>2. kills[o] + 1 = 1
    BY <1>1, <1>2
  <2>3. kills' = [kills EXCEPT ![o] = 1]
    BY <2>1, <2>2
  <2>4. kills' \in [Ops -> 0..1] /\ \A p \in Ops : p # o => kills'[p] = kills[p]
    BY <1>1, <2>3
  <2>5. PICK t : ProcessCut(o, t)
    BY <2>1, ProcessCutIs
  <2> QED BY <1>2, <2>1, <2>4, <2>5 DEF ProcessTerms
<1>3. CASE term[o] # "no"
  <2>1. UNCHANGED <<term, kills, tree>>
    BY <1>3 DEF Supervisor!TerminationFails
  <2>2. PICK t : t = tree[o] /\ ProcessCut(o, t)
    BY <2>1, ProcessTypesAre DEF ProcessCut
  <2>3. term' = [term EXCEPT ![o] = term[o]]
    BY <1>1, <2>1
  <2> QED BY <1>1, <1>3, <2>1, <2>2, <2>3
<1> QED BY <1>2, <1>3

-----------------------------------------------------------------------------
(* The start of a call *)

LEMMA ProcessStartStep ==
    ASSUME Supervisor!KindsAreKnown, Supervisor!SupervisorInv, NEW o \in Ops,
           NEW kind \in Kinds[o], Supervisor!Start(o, kind)
    PROVE  Supervisor!SupervisorInv'
<1>1. /\ Supervisor!Types /\ Supervisor!CallHolds(o) /\ process_close.pc = "no"
         /\ ~process_closing /\ kind \in {"text", "binary", "strict"}
      /\ op[o].pc = "idle" /\ ~failed
      /\ UNCHANGED <<term, kills, failed, process_closing, process_close>>
  BY DEF Supervisor!SupervisorInv, Supervisor!CloseHolds, Supervisor!Start, Supervisor!Admitted,
     Supervisor!Closed, Supervisor!KindsAreKnown, Supervisor!PC
<1>2. PICK sup \in {"group", "job", "fallback"} :
        /\ op' = [op EXCEPT ![o].pc = "wait", ![o].kind = kind, ![o].sup = sup]
        /\ kind = "strict" => sup \in {"job", "group"}
  BY DEF Supervisor!Start, Supervisor!Supervision
<1>3. PICK t : t = [op[o] EXCEPT !.pc = "wait", !.kind = kind, !.sup = sup]
  OBVIOUS
<1>4. op' = [op EXCEPT ![o] = t] /\ op \in [Ops -> Supervisor!OpRecords]
      /\ op[o] \in Supervisor!OpRecords
  BY <1>1, <1>2, <1>3, ProcessTypesAre
<1>5. /\ t \in Supervisor!OpRecords /\ t.pc = "wait" /\ t.kind = kind /\ t.sup = sup
      /\ t.uncertain = op[o].uncertain
  BY <1>1, <1>3, <1>4 DEF Supervisor!OpRecords
<1>6. PICK r : r = [tree[o] EXCEPT !.parent = "live"]
  OBVIOUS
<1>7. tree' = [tree EXCEPT ![o] = r] /\ r \in ProcessTrees
  BY <1>1, <1>6, ProcessTypesAre DEF Supervisor!Start, ProcessTrees
<1>8. PICK x \in ProcessReaders : reader' = [reader EXCEPT ![o] = x]
  BY DEF Supervisor!Start, ProcessReaders
<1>9. open' = open \cup {o} /\ registered' = registered \cup {o}
  BY DEF Supervisor!Start
<1>10. Supervisor!Types'
  BY <1>1, <1>4, <1>5, <1>7, <1>8, <1>9, ProcessTypesAre, ProcessTypesNext
<1>11. ProcessBeside(o)
  BY <1>1, <1>4, <1>7, <1>8, <1>9, ProcessTypesAre DEF ProcessBeside
<1>12. term[o] = "no" /\ op'[o] = t /\ o \in registered'
  BY <1>1, <1>4, <1>9 DEF Supervisor!CallHolds, Supervisor!PC
<1>13. Supervisor!CallHolds(o)'
  BY <1>1, <1>2, <1>5, <1>12 DEF Supervisor!CallHolds, Supervisor!PC
<1> QED BY <1>1, <1>10, <1>11, <1>13, ProcessCallMove

LEMMA ProcessRefusedStep ==
    ASSUME Supervisor!SupervisorInv, NEW o \in Ops, Supervisor!StartRefused(o)
    PROVE  Supervisor!SupervisorInv'
<1>1. /\ Supervisor!Types /\ Supervisor!CallHolds(o) /\ process_close.pc = "no" /\ op[o].pc = "idle"
      /\ UNCHANGED <<tree, reader, term, kills, open, registered, failed, process_closing,
                     process_close>>
  BY DEF Supervisor!SupervisorInv, Supervisor!CloseHolds, Supervisor!StartRefused,
     Supervisor!Admitted, Supervisor!Closed, Supervisor!PC
<1>2. /\ op' \in [Ops -> Supervisor!OpRecords] /\ \A p \in Ops : p # o => op'[p] = op[p]
      /\ op'[o].pc = "refused" /\ op'[o].kind = op[o].kind /\ op'[o].sup = op[o].sup
      /\ op'[o].uncertain = op[o].uncertain
  BY <1>1, ProcessGotoIs DEF Supervisor!StartRefused
<1>3. Supervisor!Types'
  BY <1>1, <1>2, ProcessTypesAre, ProcessTypesNext
<1>30. ProcessBeside(o)
  BY <1>1, <1>2, ProcessTypesAre DEF ProcessBeside
<1>4. Supervisor!CallHolds(o)'
  BY <1>1, <1>2 DEF Supervisor!CallHolds, Supervisor!PC
<1> QED BY <1>1, <1>3, <1>30, <1>4, ProcessCallMove

LEMMA ProcessUnprovedStep ==
    ASSUME Supervisor!KindsAreKnown, Supervisor!SupervisorInv, NEW o \in Ops,
           NEW kind \in Kinds[o], Supervisor!StartUnproved(o, kind)
    PROVE  Supervisor!SupervisorInv'
<1>1. /\ Supervisor!Types /\ Supervisor!CallHolds(o) /\ process_close.pc = "no"
         /\ kind \in {"text", "binary", "strict"}
      /\ op[o].pc = "idle" /\ failed'
      /\ UNCHANGED <<reader, term, kills, process_closing, process_close>>
  BY DEF Supervisor!SupervisorInv, Supervisor!CloseHolds, Supervisor!StartUnproved,
     Supervisor!Admitted, Supervisor!Closed, Supervisor!KindsAreKnown, Supervisor!PC
<1>2. PICK t : t = [op[o] EXCEPT !.pc = "unproved", !.kind = kind, !.uncertain = TRUE]
  OBVIOUS
<1>3. op' = [op EXCEPT ![o] = t] /\ op \in [Ops -> Supervisor!OpRecords]
      /\ op[o] \in Supervisor!OpRecords
  BY <1>1, <1>2, ProcessTypesAre DEF Supervisor!StartUnproved
<1>4. t \in Supervisor!OpRecords /\ t.pc = "unproved"
  BY <1>1, <1>2, <1>3 DEF Supervisor!OpRecords
<1>5. PICK x \in {"none", "live"} : tree' = [tree EXCEPT ![o].parent = x]
  BY DEF Supervisor!StartUnproved
<1>6. PICK r : r = [tree[o] EXCEPT !.parent = x]
  OBVIOUS
<1>7. tree' = [tree EXCEPT ![o] = r] /\ r \in ProcessTrees
  BY <1>1, <1>5, <1>6, ProcessTypesAre DEF ProcessTrees
<1>8. open' = open \cup {o} /\ registered' \in {registered, registered \cup {o}}
  BY DEF Supervisor!StartUnproved
<1>9. Supervisor!Types'
  BY <1>1, <1>3, <1>4, <1>7, <1>8, ProcessTypesAre, ProcessTypesNext
<1>10. ProcessBeside(o)
  BY <1>1, <1>3, <1>7, <1>8, ProcessTypesAre DEF ProcessBeside
<1>11. term[o] = "no" /\ op'[o] = t
  BY <1>1, <1>3 DEF Supervisor!CallHolds, Supervisor!PC
<1>12. Supervisor!CallHolds(o)'
  BY <1>1, <1>4, <1>11 DEF Supervisor!CallHolds, Supervisor!PC
<1> QED BY <1>1, <1>9, <1>10, <1>12, ProcessCallMove

-----------------------------------------------------------------------------
(* Processes and threads *)

LEMMA ProcessProcessStep ==
    ASSUME Supervisor!SupervisorInv, NEW o \in Ops, Supervisor!Spawn(o)
           \/ Supervisor!ParentExits(o) \/ Supervisor!ChildExits(o)
    PROVE  Supervisor!SupervisorInv'
<1>1. /\ Supervisor!Types /\ Supervisor!CallHolds(o) /\ Supervisor!CloseHolds
         /\ tree[o] \in ProcessTrees
      /\ UNCHANGED <<op, reader, term, kills, open, registered, failed, process_closing,
                     process_close>>
  BY ProcessTypesAre DEF Supervisor!SupervisorInv, Supervisor!Spawn, Supervisor!ParentExits,
     Supervisor!ChildExits, Supervisor!Closed
<1>2. PICK r \in ProcessTrees : /\ tree' = [tree EXCEPT ![o] = r]
                                /\ \/ tree[o].parent = "live" /\ r.parent = "live"
                                   \/ tree[o].parent = "live" /\ r.parent = "exited"
                                      /\ r.child = tree[o].child
                                   \/ /\ r.parent = tree[o].parent /\ r.child = "none"
                                      /\ tree[o].child # "none"
  <2>1. CASE Supervisor!Spawn(o)
    <3>1. PICK c \in {"member", "escaped"} : tree' = [tree EXCEPT ![o].child = c]
      BY <2>1 DEF Supervisor!Spawn
    <3>2. PICK r : r = [tree[o] EXCEPT !.child = c]
      OBVIOUS
    <3>3. tree' = [tree EXCEPT ![o] = r] /\ tree[o].parent = "live"
      BY <2>1, <3>1, <3>2 DEF Supervisor!Spawn
    <3>4. r \in ProcessTrees /\ r.parent = tree[o].parent
      BY <1>1, <3>2 DEF ProcessTrees
    <3> QED BY <3>3, <3>4
  <2>2. CASE Supervisor!ParentExits(o)
    <3>1. PICK r : r = [tree[o] EXCEPT !.parent = "exited"]
      OBVIOUS
    <3>2. tree' = [tree EXCEPT ![o] = r] /\ tree[o].parent = "live"
      BY <2>2, <3>1 DEF Supervisor!ParentExits
    <3>3. r \in ProcessTrees /\ r.parent = "exited" /\ r.child = tree[o].child
      BY <1>1, <3>1 DEF ProcessTrees
    <3> QED BY <3>2, <3>3
  <2>3. CASE Supervisor!ChildExits(o)
    <3>1. PICK r : r = [tree[o] EXCEPT !.child = "none"]
      OBVIOUS
    <3>2. tree' = [tree EXCEPT ![o] = r] /\ tree[o].child # "none"
      BY <2>3, <3>1 DEF Supervisor!ChildExits
    <3>3. r \in ProcessTrees /\ r.parent = tree[o].parent /\ r.child = "none"
      BY <1>1, <3>1 DEF ProcessTrees
    <3> QED BY <3>2, <3>3
  <2> QED BY <2>1, <2>2, <2>3
<1>3. Supervisor!Types'
  BY <1>1, <1>2, ProcessTypesAre, ProcessTypesNext
<1>30. ProcessBeside(o)
  BY <1>1, <1>2, ProcessTypesAre DEF ProcessBeside
<1>4. tree'[o] = r
  BY <1>1, <1>2, ProcessTypesAre
<1>5. op[o].pc \notin {"idle", "refused"}
  <2>1. op[o].pc \in {"idle", "refused"} => tree[o].parent = "none" /\ tree[o].child = "none"
    BY <1>1 DEF Supervisor!CallHolds, Supervisor!PC
  <2> QED BY <1>2, <2>1
<1>6. Supervisor!CallHolds(o)'
  BY <1>1, <1>2, <1>4, <1>5 DEF Supervisor!CallHolds, Supervisor!PC
<1>7. process_close.pc = "ok" => /\ o \notin registered' /\ o \notin open'
                                 /\ op'[o].pc \in {"idle", "refused", "done"}
  BY <1>1 DEF Supervisor!CloseHolds, Supervisor!PC
<1> QED BY <1>1, <1>3, <1>30, <1>6, <1>7, ProcessCallMove

LEMMA ProcessThreadStep ==
    ASSUME Supervisor!SupervisorInv, NEW o \in Ops,
           Supervisor!Read(o) \/ Supervisor!Overflow(o) \/ Supervisor!OverflowKills(o)
               \/ Supervisor!OverflowKillFails(o) \/ Supervisor!OverflowJoins(o)
    PROVE  Supervisor!SupervisorInv'
<1>1. /\ Supervisor!Types /\ Supervisor!CallHolds(o) /\ Supervisor!CloseHolds
         /\ reader[o] \in {"reading", "overflowing"}
      /\ UNCHANGED <<open, registered, process_closing, process_close>>
      /\ op[o].pc \notin {"idle", "refused"}
  BY DEF Supervisor!SupervisorInv, Supervisor!Read, Supervisor!Overflow, Supervisor!OverflowKills,
     Supervisor!OverflowKillFails, Supervisor!OverflowJoins, Supervisor!Closed,
     Supervisor!CallHolds, Supervisor!PC
<1>2. /\ op \in [Ops -> Supervisor!OpRecords] /\ kills \in [Ops -> 0..1]
         /\ tree \in [Ops -> ProcessTrees]
      /\ reader \in [Ops -> ProcessReaders] /\ term \in [Ops -> ProcessTerms]
         /\ op[o].uncertain \in BOOLEAN
  BY <1>1, ProcessTypesAre DEF Supervisor!OpRecords
<1>3. process_close.pc = "ok" => /\ o \notin registered' /\ o \notin open'
                                    /\ op[o].pc \in {"idle", "refused", "done"}
  BY <1>1 DEF Supervisor!CloseHolds, Supervisor!PC
<1>4. CASE Supervisor!Read(o)
  <2>1. UNCHANGED <<op, tree, term, kills, failed>>
    BY <1>4 DEF Supervisor!Read
  <2>2. PICK x \in ProcessReaders : reader' = [reader EXCEPT ![o] = x]
    BY <1>4 DEF Supervisor!Read, ProcessReaders
  <2>3. Supervisor!Types'
    BY <1>1, <1>2, <2>1, <2>2, ProcessTypesAre, ProcessTypesNext
  <2>30. ProcessBeside(o)
    BY <1>1, <1>2, <2>1, <2>2 DEF ProcessBeside
  <2>4. Supervisor!CallHolds(o)'
    BY <1>1, <2>1 DEF Supervisor!CallHolds, Supervisor!PC
  <2> QED BY <1>1, <1>3, <2>1, <2>3, <2>30, <2>4, ProcessCallMove
<1>5. CASE Supervisor!Overflow(o)
  <2>1. UNCHANGED <<op, tree, failed>> /\ reader' = [reader EXCEPT ![o] = "overflowing"]
    BY <1>5 DEF Supervisor!Overflow
  <2>2. \/ UNCHANGED <<term, kills>>
        \/ /\ term[o] = "no" /\ term' = [term EXCEPT ![o] = "running"]
           /\ kills' = [kills EXCEPT ![o] = @ + 1]
    BY <1>5 DEF Supervisor!Overflow
  <2>3. PICK n \in 0..1 : /\ kills' = [kills EXCEPT ![o] = n]
                          /\ term'[o] = "no" => n = 0
    <3>1. CASE UNCHANGED <<term, kills>>
      BY <1>1, <1>2, <3>1 DEF Supervisor!CallHolds
    <3>2. CASE /\ term[o] = "no" /\ term' = [term EXCEPT ![o] = "running"]
               /\ kills' = [kills EXCEPT ![o] = @ + 1]
      <4>1. kills[o] = 0
        BY <1>1, <3>2 DEF Supervisor!CallHolds
      <4>2. kills' = [kills EXCEPT ![o] = 1] /\ term'[o] = "running"
        BY <1>2, <3>2, <4>1
      <4> QED BY <4>2
    <3> QED BY <2>2, <3>1, <3>2
  <2>4. term' \in [Ops -> ProcessTerms] /\ \A p \in Ops : p # o => term'[p] = term[p]
    BY <1>2, <2>2 DEF ProcessTerms
  <2>5. Supervisor!Types'
    BY <1>1, <1>2, <2>1, <2>3, <2>4, ProcessTypesAre, ProcessTypesNext DEF ProcessReaders
  <2>6. ProcessBeside(o)
    BY <1>1, <1>2, <2>1, <2>3, <2>4 DEF ProcessBeside
  <2>7. kills'[o] = n /\ (term'[o] = term[o] \/ (term[o] = "no" /\ term'[o] = "running"))
    BY <1>2, <2>2, <2>3
  <2>8. Supervisor!CallHolds(o)'
    BY <1>1, <2>1, <2>3, <2>7 DEF Supervisor!CallHolds, Supervisor!PC
  <2> QED BY <1>1, <1>3, <2>1, <2>5, <2>6, <2>8, ProcessCallMove
<1>6. CASE Supervisor!OverflowKills(o) \/ Supervisor!OverflowKillFails(o)
           \/ Supervisor!OverflowJoins(o)
  <2>1. PICK x \in {"ok", "failed"}, y \in {"overflow", "bad"} :
          /\ term' = [term EXCEPT ![o] = x] /\ reader' = [reader EXCEPT ![o] = y]
          /\ x = "ok" => \/ term[o] = "ok" /\ UNCHANGED tree
                         \/ Supervisor!Kill(o)
          /\ x = "failed" => term[o] \in {"running", "failed"}
    <3>1. CASE Supervisor!OverflowKills(o)
      BY <3>1 DEF Supervisor!OverflowKills
    <3>2. CASE Supervisor!OverflowKillFails(o)
      BY <3>2 DEF Supervisor!OverflowKillFails
    <3>3. CASE Supervisor!OverflowJoins(o)
      <4>1. term[o] \in {"ok", "failed"} /\ UNCHANGED <<tree, term>>
        BY <3>3 DEF Supervisor!OverflowJoins
      <4>2. term' = [term EXCEPT ![o] = term[o]]
        BY <1>2, <4>1
      <4>3. PICK y \in {"overflow", "bad"} : reader' = [reader EXCEPT ![o] = y]
        BY <3>3 DEF Supervisor!OverflowJoins
      <4> QED BY <4>1, <4>2, <4>3
    <3> QED BY <1>6, <3>1, <3>2, <3>3
  <2>2. PICK t : ProcessCut(o, t)
    <3>1. tree' = tree \/ Supervisor!Kill(o)
      BY <1>6 DEF Supervisor!OverflowKills, Supervisor!OverflowKillFails, Supervisor!OverflowJoins
    <3> QED BY <1>1, <3>1, ProcessCutIs
  <2>3. UNCHANGED kills /\ (failed => failed')
    BY <1>6 DEF Supervisor!OverflowKills, Supervisor!OverflowKillFails, Supervisor!OverflowJoins
  <2>4. /\ op' \in [Ops -> Supervisor!OpRecords] /\ \A p \in Ops : p # o => op'[p] = op[p]
        /\ op'[o].pc = op[o].pc /\ op'[o].kind = op[o].kind /\ op'[o].sup = op[o].sup
        /\ op'[o].uncertain => failed'
    <3>1. CASE op' = op
      BY <1>1, <1>2, <2>3, <3>1 DEF Supervisor!CallHolds
    <3>2. CASE op' = [op EXCEPT ![o].uncertain = TRUE] /\ failed'
      BY <1>1, <3>2, ProcessUncertainIs
    <3>3. CASE Supervisor!OverflowKills(o)
      <4>1. PICK u \in BOOLEAN : u = (op[o].uncertain \/ failed)
        BY <1>2
      <4>2. op' = [op EXCEPT ![o].uncertain = u] /\ UNCHANGED failed
        BY <3>3, <4>1 DEF Supervisor!OverflowKills
      <4>3. u => failed
        BY <1>1, <4>1 DEF Supervisor!CallHolds
      <4> QED BY <1>1, <4>2, <4>3, ProcessUncertainIs
    <3> QED BY <1>6, <3>1, <3>2, <3>3 DEF Supervisor!OverflowKillFails, Supervisor!OverflowJoins
  <2>5. tree'[o] = t /\ term'[o] = x
    BY <1>2, <2>1, <2>2 DEF ProcessCut
  <2>6. x = "ok" /\ op[o].sup = "group" => t.parent = "exited" /\ t.child # "member"
    <3>1. CASE term[o] = "ok" /\ UNCHANGED tree
      BY <1>1, <2>5, <3>1 DEF Supervisor!CallHolds
    <3>2. CASE Supervisor!Kill(o)
      <4>1. PICK u \in Supervisor!Killed(o) : tree' = [tree EXCEPT ![o] = u]
        BY <3>2 DEF Supervisor!Kill
      <4>2. t = u
        BY <1>2, <2>5, <4>1
      <4> QED BY <1>1, <4>1, <4>2, ProcessKilledIs
    <3> QED BY <2>1, <3>1, <3>2
  <2>7. Supervisor!Types'
    BY <1>1, <1>2, <2>1, <2>2, <2>3, <2>4, ProcessTypesAre, ProcessTypesNext DEF ProcessCut,
       ProcessTerms, ProcessReaders
  <2>8. ProcessBeside(o)
    BY <1>1, <1>2, <2>1, <2>2, <2>3, <2>4 DEF ProcessBeside, ProcessCut
  <2>9. Supervisor!CallHolds(o)'
    BY <1>1, <2>1, <2>2, <2>3, <2>4, <2>5, <2>6 DEF Supervisor!CallHolds, Supervisor!PC,
       ProcessCut
  <2> QED BY <1>1, <1>3, <2>3, <2>4, <2>7, <2>8, <2>9, ProcessCallMove
<1> QED BY <1>4, <1>5, <1>6

-----------------------------------------------------------------------------
(* Terminations asked for on the loop *)

\* A termination of a registered call that goes on, at the same place or to join.
LEMMA ProcessTerminatedCall ==
    ASSUME Supervisor!SupervisorInv, NEW o \in Ops, o \in registered, Supervisor!Terminates(o),
           op' \in [Ops -> Supervisor!OpRecords], op'[o].kind = op[o].kind, op'[o].sup = op[o].sup,
           op'[o].uncertain = op[o].uncertain, \A p \in Ops : p # o => op'[p] = op[p],
           op'[o].pc = op[o].pc \/ (op[o].pc = "wait" /\ op'[o].pc = "join"),
           UNCHANGED <<reader, open, registered, failed>>, process_close' \in Supervisor!CloseTasks
    PROVE  Supervisor!Types' /\ ProcessBeside(o) /\ Supervisor!CallHolds(o)'
<1>1. Supervisor!Types /\ Supervisor!CallHolds(o) /\ term \in [Ops -> ProcessTerms]
      /\ tree \in [Ops -> ProcessTrees]
  BY ProcessTypesAre DEF Supervisor!SupervisorInv
<1>2. /\ ~failed /\ term' = [term EXCEPT ![o] = "ok"]
      /\ kills' \in [Ops -> 0..1] /\ \A p \in Ops : p # o => kills'[p] = kills[p]
  BY <1>1, ProcessTerminatesIs
<1>3. PICK t : ProcessCut(o, t) /\ (op[o].sup = "group" => t.parent = "exited"
      /\ t.child # "member")
  BY <1>1, ProcessTerminatesIs
<1>4. Supervisor!Types'
  BY <1>1, <1>2, <1>3, ProcessTypesAre, ProcessTypesNext DEF ProcessCut, ProcessTerms
<1>5. ProcessBeside(o)
  BY <1>1, <1>2, <1>3 DEF ProcessBeside, ProcessCut
<1>6. tree'[o] = t /\ term'[o] = "ok"
  BY <1>1, <1>2, <1>3 DEF ProcessCut
<1>7. op[o].pc \notin {"idle", "refused", "done"}
  BY <1>1 DEF Supervisor!CallHolds, Supervisor!PC
<1>8. (op'[o].kind = "strict" /\ op'[o].pc \in {"wait", "join", "empty", "close"}) =>
          op'[o].sup \in {"job", "group"}
  BY <1>1 DEF Supervisor!CallHolds, Supervisor!PC
<1>9. Supervisor!CallHolds(o)'
  BY <1>1, <1>2, <1>3, <1>6, <1>7, <1>8 DEF Supervisor!CallHolds, Supervisor!PC, ProcessCut
<1> QED BY <1>4, <1>5, <1>9
\* A termination that cannot be proved: the call is abandoned, or goes on uncertain.
LEMMA ProcessUnterminatedCall ==
    ASSUME Supervisor!SupervisorInv, NEW o \in Ops, o \in registered,
           Supervisor!TerminationFails(o),
           op' \in [Ops -> Supervisor!OpRecords], op'[o].kind = op[o].kind, op'[o].sup = op[o].sup,
           \A p \in Ops : p # o => op'[p] = op[p],
           op'[o].pc = op[o].pc \/ op'[o].pc = "unproved", failed',
           UNCHANGED <<reader, open, registered>>, process_close' \in Supervisor!CloseTasks
    PROVE  Supervisor!Types' /\ ProcessBeside(o) /\ Supervisor!CallHolds(o)'
<1>1. Supervisor!Types /\ Supervisor!CallHolds(o) /\ term \in [Ops -> ProcessTerms]
      /\ tree \in [Ops -> ProcessTrees]
  BY ProcessTypesAre DEF Supervisor!SupervisorInv
<1>2. PICK x \in ProcessTerms \ {"no"} : /\ term' = [term EXCEPT ![o] = x]
                                         /\ x = term[o] \/ (x = "failed" /\ term[o] = "no")
  BY <1>1, ProcessFailsIs
<1>3. kills' \in [Ops -> 0..1] /\ \A p \in Ops : p # o => kills'[p] = kills[p]
  BY <1>1, ProcessFailsIs
<1>4. PICK t : ProcessCut(o, t) /\ (term[o] # "no" => t = tree[o])
  BY <1>1, ProcessFailsIs
<1>5. Supervisor!Types'
  BY <1>1, <1>2, <1>3, <1>4, ProcessTypesAre, ProcessTypesNext DEF ProcessCut
<1>6. ProcessBeside(o)
  BY <1>1, <1>2, <1>3, <1>4 DEF ProcessBeside, ProcessCut
<1>7. tree'[o] = t /\ term'[o] = x
  BY <1>1, <1>2, <1>4 DEF ProcessCut
<1>8. op[o].pc \notin {"idle", "refused", "done"}
  BY <1>1 DEF Supervisor!CallHolds, Supervisor!PC
<1>9. term[o] = "ok" => term'[o] = "ok" /\ t = tree[o]
  BY <1>2, <1>4, <1>7
<1>10. term'[o] = "ok" => term[o] = "ok"
  BY <1>2, <1>7
<1>11. Supervisor!CallHolds(o)'
  BY <1>1, <1>2, <1>4, <1>7, <1>8, <1>9, <1>10 DEF Supervisor!CallHolds, Supervisor!PC, ProcessCut
<1> QED BY <1>5, <1>6, <1>11

LEMMA ProcessInterruptStep ==
    ASSUME Supervisor!SupervisorInv, NEW o \in Ops, Supervisor!Interrupt(o)
    PROVE  Supervisor!SupervisorInv'
<1>1. /\ Supervisor!Types /\ Supervisor!CallHolds(o) /\ Supervisor!CloseHolds
         /\ op[o].pc = "wait" /\ o \in registered
      /\ process_close' \in Supervisor!CloseTasks /\ UNCHANGED <<reader, open, registered,
                                                                 process_closing, process_close>>
  BY ProcessTypesAre DEF Supervisor!SupervisorInv, Supervisor!Interrupt, Supervisor!Closed,
     Supervisor!CallHolds, Supervisor!PC
<1>2. process_close.pc # "ok"
  BY <1>1 DEF Supervisor!CloseHolds
<1>3. CASE Supervisor!Terminates(o) /\ Supervisor!Goto(o, "join") /\ UNCHANGED failed
  <2>1. /\ op' \in [Ops -> Supervisor!OpRecords] /\ \A p \in Ops : p # o => op'[p] = op[p]
        /\ op'[o].pc = "join" /\ op'[o].kind = op[o].kind /\ op'[o].sup = op[o].sup
        /\ op'[o].uncertain = op[o].uncertain
    BY <1>1, <1>3, ProcessGotoIs
  <2>2. Supervisor!Types' /\ ProcessBeside(o) /\ Supervisor!CallHolds(o)'
    BY <1>1, <1>3, <2>1, ProcessTerminatedCall
  <2> QED BY <1>1, <1>2, <1>3, <2>2, ProcessCallMove
<1>4. CASE Supervisor!TerminationFails(o) /\ Supervisor!Abandon(o)
  <2>1. /\ op' \in [Ops -> Supervisor!OpRecords] /\ \A p \in Ops : p # o => op'[p] = op[p]
        /\ op'[o].pc = "unproved" /\ op'[o].kind = op[o].kind /\ op'[o].sup = op[o].sup /\ failed'
    BY <1>1, <1>4, ProcessAbandonIs
  <2>2. Supervisor!Types' /\ ProcessBeside(o) /\ Supervisor!CallHolds(o)'
    BY <1>1, <1>4, <2>1, ProcessUnterminatedCall
  <2> QED BY <1>1, <1>2, <2>1, <2>2, ProcessCallMove
<1> QED BY <1>3, <1>4 DEF Supervisor!Interrupt

LEMMA ProcessCancelRunStep ==
    ASSUME Supervisor!SupervisorInv, NEW o \in Ops, Supervisor!CancelRun(o)
    PROVE  Supervisor!SupervisorInv'
<1>1. /\ Supervisor!Types /\ Supervisor!CallHolds(o) /\ Supervisor!CloseHolds /\ o \in registered
      /\ op \in [Ops -> Supervisor!OpRecords] /\ process_close' \in Supervisor!CloseTasks
      /\ UNCHANGED <<reader, open, registered, process_closing, process_close>>
  BY ProcessTypesAre DEF Supervisor!SupervisorInv, Supervisor!CancelRun, Supervisor!Closed
<1>2. process_close.pc # "ok"
  BY <1>1 DEF Supervisor!CloseHolds
<1>3. CASE Supervisor!Terminates(o) /\ UNCHANGED <<op, failed>>
  <2>1. Supervisor!Types' /\ ProcessBeside(o) /\ Supervisor!CallHolds(o)'
    BY <1>1, <1>3, ProcessTerminatedCall
  <2> QED BY <1>1, <1>2, <1>3, <2>1, ProcessCallMove
<1>4. CASE Supervisor!TerminationFails(o) /\ op' = [op EXCEPT ![o].uncertain = TRUE] /\ failed'
  <2>1. /\ op' \in [Ops -> Supervisor!OpRecords] /\ \A p \in Ops : p # o => op'[p] = op[p]
        /\ op'[o].pc = op[o].pc /\ op'[o].kind = op[o].kind /\ op'[o].sup = op[o].sup
    BY <1>1, <1>4, ProcessUncertainIs
  <2>2. Supervisor!Types' /\ ProcessBeside(o) /\ Supervisor!CallHolds(o)'
    BY <1>1, <1>4, <2>1, ProcessUnterminatedCall
  <2> QED BY <1>1, <1>2, <1>4, <2>2, ProcessCallMove
<1> QED BY <1>3, <1>4 DEF Supervisor!CancelRun

-----------------------------------------------------------------------------
(* The end of a call *)

\* Nothing but the place of the call and, when it is abandoned, the quarantine changes.
LEMMA ProcessPlaceStep ==
    ASSUME Supervisor!SupervisorInv, NEW o \in Ops, o \in registered,
           op' \in [Ops -> Supervisor!OpRecords], op'[o].kind = op[o].kind, op'[o].sup = op[o].sup,
           \A p \in Ops : p # o => op'[p] = op[p],
           \/ op'[o].pc = "unproved" /\ failed'
           \/ /\ op'[o].pc \in {"empty", "close"} /\ op[o].pc \in {"wait", "join", "empty"}
              /\ op'[o].uncertain = op[o].uncertain /\ UNCHANGED failed
              /\ tree[o].parent = "exited"
              /\ op[o].kind = "strict" => op[o].pc # "wait",
           open' \in {open, open \ {o}}, op'[o].pc = "unproved" \/ UNCHANGED open,
           UNCHANGED <<tree, reader, term, kills, registered, process_closing, process_close>>
    PROVE  Supervisor!SupervisorInv'
<1>1. Supervisor!Types /\ Supervisor!CallHolds(o) /\ Supervisor!CloseHolds
  BY DEF Supervisor!SupervisorInv
<1>2. Supervisor!Types'
  BY <1>1, ProcessTypesAre, ProcessTypesNext
<1>3. ProcessBeside(o)
  BY <1>1 DEF ProcessBeside
<1>4. op[o].pc \notin {"idle", "refused", "done"}
  BY <1>1 DEF Supervisor!CallHolds, Supervisor!PC
<1>5. Supervisor!CallHolds(o)'
  BY <1>1, <1>4 DEF Supervisor!CallHolds, Supervisor!PC
<1>6. process_close.pc # "ok" /\ (failed => failed')
  BY <1>1 DEF Supervisor!CloseHolds
<1> QED BY <1>2, <1>3, <1>5, <1>6, ProcessCallMove

LEMMA ProcessEndStep ==
    ASSUME Supervisor!SupervisorInv, NEW o \in Ops, Supervisor!TextReturns(o)
           \/ Supervisor!Join(o) \/ Supervisor!Empty(o) \/ Supervisor!RetireFails(o)
    PROVE  Supervisor!SupervisorInv'
<1>1. /\ Supervisor!Types /\ Supervisor!CallHolds(o)
      /\ UNCHANGED <<tree, reader, term, kills, registered, process_closing, process_close>>
  BY DEF Supervisor!SupervisorInv, Supervisor!TextReturns, Supervisor!Join, Supervisor!Empty,
     Supervisor!RetireFails, Supervisor!Closed
<1>2. op[o].pc \in {"wait", "join", "empty", "close"} /\ o \in registered
  BY <1>1 DEF Supervisor!TextReturns, Supervisor!Join, Supervisor!Empty, Supervisor!RetireFails,
     Supervisor!CallHolds, Supervisor!PC
<1>3. CASE Supervisor!Abandon(o)
  <2>1. open' \in {open, open \ {o}}
    BY DEF Supervisor!TextReturns, Supervisor!Join, Supervisor!Empty, Supervisor!RetireFails
  <2>2. /\ op' \in [Ops -> Supervisor!OpRecords] /\ \A p \in Ops : p # o => op'[p] = op[p]
        /\ op'[o].pc = "unproved" /\ op'[o].kind = op[o].kind /\ op'[o].sup = op[o].sup /\ failed'
    BY <1>1, <1>3, ProcessAbandonIs
  <2> QED BY <1>1, <1>2, <2>1, <2>2, ProcessPlaceStep
<1>4. CASE ~Supervisor!Abandon(o)
  <2>1. PICK place \in {"empty", "close"} : Supervisor!Goto(o, place)
    BY <1>4 DEF Supervisor!TextReturns, Supervisor!Join, Supervisor!Empty, Supervisor!RetireFails
  <2>2. /\ op[o].pc \in {"wait", "join", "empty"} /\ UNCHANGED <<open, failed>>
        /\ tree[o].parent = "exited" /\ (op[o].kind = "strict" => op[o].pc # "wait")
    BY <1>1, <1>4 DEF Supervisor!TextReturns, Supervisor!Join, Supervisor!Empty,
       Supervisor!RetireFails, Supervisor!CallHolds, Supervisor!PC
  <2>3. /\ op' \in [Ops -> Supervisor!OpRecords] /\ \A p \in Ops : p # o => op'[p] = op[p]
        /\ op'[o].pc = place /\ op'[o].kind = op[o].kind /\ op'[o].sup = op[o].sup
        /\ op'[o].uncertain = op[o].uncertain
    BY <1>1, <2>1, ProcessGotoIs
  <2> QED BY <1>1, <1>2, <2>1, <2>2, <2>3, ProcessPlaceStep
<1> QED BY <1>3, <1>4

LEMMA ProcessBinaryStep ==
    ASSUME Supervisor!SupervisorInv, NEW o \in Ops, Supervisor!BinaryReturns(o)
    PROVE  Supervisor!SupervisorInv'
<1>1. /\ Supervisor!Types /\ Supervisor!CallHolds(o) /\ Supervisor!CloseHolds
         /\ op[o].pc = "wait" /\ o \in registered
      /\ tree[o].parent = "exited" /\ process_close' \in Supervisor!CloseTasks
      /\ UNCHANGED <<reader, open, registered, process_closing, process_close>>
  BY ProcessTypesAre DEF Supervisor!SupervisorInv, Supervisor!BinaryReturns, Supervisor!Closed,
     Supervisor!CallHolds, Supervisor!PC
<1>2. process_close.pc # "ok"
  BY <1>1 DEF Supervisor!CloseHolds
<1>3. CASE Supervisor!Terminates(o) /\ Supervisor!Goto(o, "join") /\ UNCHANGED failed
  <2>1. /\ op' \in [Ops -> Supervisor!OpRecords] /\ \A p \in Ops : p # o => op'[p] = op[p]
        /\ op'[o].pc = "join" /\ op'[o].kind = op[o].kind /\ op'[o].sup = op[o].sup
        /\ op'[o].uncertain = op[o].uncertain
    BY <1>1, <1>3, ProcessGotoIs
  <2>2. Supervisor!Types' /\ ProcessBeside(o) /\ Supervisor!CallHolds(o)'
    BY <1>1, <1>3, <2>1, ProcessTerminatedCall
  <2> QED BY <1>1, <1>2, <1>3, <2>2, ProcessCallMove
<1>4. CASE Supervisor!TerminationFails(o) /\ Supervisor!Abandon(o)
  <2>1. /\ op' \in [Ops -> Supervisor!OpRecords] /\ \A p \in Ops : p # o => op'[p] = op[p]
        /\ op'[o].pc = "unproved" /\ op'[o].kind = op[o].kind /\ op'[o].sup = op[o].sup /\ failed'
    BY <1>1, <1>4, ProcessAbandonIs
  <2>2. Supervisor!Types' /\ ProcessBeside(o) /\ Supervisor!CallHolds(o)'
    BY <1>1, <1>4, <2>1, ProcessUnterminatedCall
  <2> QED BY <1>1, <1>2, <2>1, <2>2, ProcessCallMove
<1>5. CASE op[o].kind # "strict" /\ Supervisor!Goto(o, "close") /\ UNCHANGED <<tree, term, kills,
                                                                               failed>>
  <2>1. /\ op' \in [Ops -> Supervisor!OpRecords] /\ \A p \in Ops : p # o => op'[p] = op[p]
        /\ op'[o].pc = "close" /\ op'[o].kind = op[o].kind /\ op'[o].sup = op[o].sup
        /\ op'[o].uncertain = op[o].uncertain
    BY <1>1, <1>5, ProcessGotoIs
  <2> QED BY <1>1, <1>5, <2>1, ProcessPlaceStep
<1> QED BY <1>3, <1>4, <1>5 DEF Supervisor!BinaryReturns

LEMMA ProcessRetireStep ==
    ASSUME Supervisor!SupervisorInv, NEW o \in Ops, Supervisor!Retire(o)
    PROVE  Supervisor!SupervisorInv'
<1>1. /\ Supervisor!Types /\ Supervisor!CallHolds(o) /\ Supervisor!CloseHolds
         /\ op[o].pc = "close" /\ ~op[o].uncertain
      /\ o \in registered /\ open' = open \ {o} /\ registered' = registered \ {o}
      /\ UNCHANGED <<reader, term, kills, failed, process_closing, process_close>>
  BY DEF Supervisor!SupervisorInv, Supervisor!Retire, Supervisor!Closed, Supervisor!CallHolds,
     Supervisor!PC
<1>2. /\ op' \in [Ops -> Supervisor!OpRecords] /\ \A p \in Ops : p # o => op'[p] = op[p]
      /\ op'[o].pc = "done" /\ op'[o].kind = op[o].kind /\ op'[o].sup = op[o].sup
      /\ op'[o].uncertain = op[o].uncertain
  BY <1>1, ProcessGotoIs DEF Supervisor!Retire
<1>3. tree \in [Ops -> ProcessTrees] /\ tree[o] \in ProcessTrees /\ op[o] \in Supervisor!OpRecords
  BY <1>1, ProcessTypesAre
<1>4. PICK r : /\ r \in ProcessTrees /\ tree' = [tree EXCEPT ![o] = r] /\ r.parent = tree[o].parent
               /\ r.child \in {tree[o].child, "none"} /\ (op[o].sup = "job" => r.child = "none")
  <2>1. CASE op[o].sup = "job"
    <3>1. PICK r : r = [tree[o] EXCEPT !.child = "none"]
      OBVIOUS
    <3>2. tree' = [tree EXCEPT ![o] = r]
      BY <2>1, <3>1 DEF Supervisor!Retire
    <3>3. r \in ProcessTrees /\ r.parent = tree[o].parent /\ r.child = "none"
      BY <1>3, <3>1 DEF ProcessTrees
    <3> QED BY <3>2, <3>3
  <2>2. CASE op[o].sup # "job"
    <3>1. tree' = [tree EXCEPT ![o] = tree[o]]
      BY <1>3, <2>2 DEF Supervisor!Retire
    <3> QED BY <1>3, <2>2, <3>1
  <2> QED BY <2>1, <2>2
<1>5. Supervisor!Types'
  BY <1>1, <1>2, <1>4, <1>3, ProcessTypesAre, ProcessTypesNext
<1>6. ProcessBeside(o)
  BY <1>1, <1>2, <1>3, <1>4 DEF ProcessBeside
<1>7. tree'[o] = r
  BY <1>3, <1>4
<1>8. op[o].kind = "strict" => r.child # "member"
  BY <1>1, <1>4 DEF Supervisor!CallHolds, Supervisor!PC
<1>9. Supervisor!CallHolds(o)'
  BY <1>1, <1>2, <1>4, <1>7, <1>8 DEF Supervisor!CallHolds, Supervisor!PC
<1> QED BY <1>1, <1>2, <1>5, <1>6, <1>9, ProcessCallMove

-----------------------------------------------------------------------------
(* close *)

LEMMA ProcessCloseStep ==
    ASSUME Supervisor!SupervisorInv, Supervisor!Close \/ Supervisor!CloseJoins
    PROVE  Supervisor!SupervisorInv'
<1>1. /\ Supervisor!Types /\ Supervisor!CloseHolds /\ process_close \in Supervisor!CloseTasks
         /\ registered \subseteq Ops
      /\ UNCHANGED <<op, tree, reader, term, kills, open, registered>>
  BY ProcessTypesAre DEF Supervisor!SupervisorInv, Supervisor!Close, Supervisor!CloseJoins
<1>2. process_closing'
  BY <1>1 DEF Supervisor!Close, Supervisor!CloseJoins, Supervisor!CloseHolds
<1>3. /\ process_close' \in Supervisor!CloseTasks /\ process_close'.pc \in {"raised", "cancel",
         "drain"} /\ (failed => failed')
  <2>1. CASE Supervisor!CloseRaises
    BY <1>1, <2>1 DEF Supervisor!CloseRaises, Supervisor!CloseTasks
  <2>2. CASE ~Supervisor!CloseRaises
    BY <1>1, <2>2 DEF Supervisor!Close, Supervisor!CloseJoins, Supervisor!CloseTasks
  <2> QED BY <2>1, <2>2
<1>4. Supervisor!Types'
  BY <1>1, <1>3, ProcessTypesAre, ProcessTypesNext
<1>5. ASSUME NEW p \in Ops PROVE Supervisor!CallHolds(p)'
  <2>1. Supervisor!CallHolds(p)
    BY DEF Supervisor!SupervisorInv
  <2> QED BY <1>1, <1>3, <2>1 DEF Supervisor!CallHolds, Supervisor!PC
<1> QED BY <1>2, <1>3, <1>4, <1>5 DEF Supervisor!SupervisorInv, Supervisor!CloseHolds

LEMMA ProcessCloseConcludesStep ==
    ASSUME Supervisor!SupervisorInv, Supervisor!CloseConcludes
    PROVE  Supervisor!SupervisorInv'
<1>1. /\ Supervisor!Types /\ Supervisor!CloseHolds /\ process_close \in Supervisor!CloseTasks
         /\ process_closing'
      /\ open \subseteq Ops /\ registered \subseteq Ops /\ op \in [Ops -> Supervisor!OpRecords]
      /\ UNCHANGED <<op, tree, reader, term, kills, open, registered>>
  BY ProcessTypesAre DEF Supervisor!SupervisorInv, Supervisor!CloseConcludes,
     Supervisor!CloseHolds
<1>2. /\ process_close' \in Supervisor!CloseTasks /\ (failed => failed')
      /\ process_close'.pc = "raised" \/ (process_close'.pc = "ok" /\ registered = {} /\ ~failed)
  BY <1>1 DEF Supervisor!CloseConcludes, Supervisor!CloseRaises, Supervisor!CloseTasks
<1>3. Supervisor!Types'
  BY <1>1, <1>2, ProcessTypesAre, ProcessTypesNext
<1>4. ASSUME NEW p \in Ops PROVE Supervisor!CallHolds(p)'
  <2>1. Supervisor!CallHolds(p)
    BY DEF Supervisor!SupervisorInv
  <2> QED BY <1>1, <1>2, <2>1 DEF Supervisor!CallHolds, Supervisor!PC
<1>5. ASSUME registered = {}, ~failed PROVE open = {}
             /\ \A p \in Ops : Supervisor!PC(p) \in {"idle", "refused", "done"}
  <2>1. ASSUME NEW p \in Ops PROVE p \notin open /\ Supervisor!PC(p) \in {"idle", "refused", "done"}
    <3>1. Supervisor!CallHolds(p) /\ op[p] \in Supervisor!OpRecords
      BY <1>1 DEF Supervisor!SupervisorInv
    <3>2. Supervisor!PC(p) \in {"idle", "wait", "join", "empty", "close", "done", "refused",
          "unproved"}
      BY <3>1 DEF Supervisor!OpRecords, Supervisor!PC
    <3> QED BY <1>5, <3>1, <3>2 DEF Supervisor!CallHolds
  <2> QED BY <1>1, <2>1
<1>6. Supervisor!CloseHolds'
  BY <1>1, <1>2, <1>5 DEF Supervisor!CloseHolds, Supervisor!PC
<1> QED BY <1>3, <1>4, <1>6 DEF Supervisor!SupervisorInv

LEMMA ProcessCloseCancelsStep ==
    ASSUME Supervisor!SupervisorInv, NEW o \in Ops, Supervisor!CloseCancels(o)
    PROVE  Supervisor!SupervisorInv'
<1>1. /\ Supervisor!Types /\ Supervisor!CallHolds(o) /\ Supervisor!CloseHolds
         /\ process_close \in Supervisor!CloseTasks /\ op \in [Ops -> Supervisor!OpRecords]
      /\ process_closing' /\ UNCHANGED <<reader, open, registered>>
  BY ProcessTypesAre DEF Supervisor!SupervisorInv, Supervisor!CloseCancels, Supervisor!CloseHolds
<1>2. process_close' \in Supervisor!CloseTasks /\ process_close'.pc \in {"cancel", "raised"}
      /\ (failed => failed')
  <2>1. CASE Supervisor!CloseRaises
    BY <1>1, <2>1 DEF Supervisor!CloseRaises, Supervisor!CloseTasks
  <2>2. CASE ~Supervisor!CloseRaises
    <3>1. PICK t : t = process_close.left \ {o}
      OBVIOUS
    <3>2. process_close' = [process_close EXCEPT !.left = t] /\ process_close.pc = "cancel"
          /\ UNCHANGED failed
      BY <2>2, <3>1 DEF Supervisor!CloseCancels
    <3> QED BY <1>1, <3>1, <3>2 DEF Supervisor!CloseTasks
  <2> QED BY <2>1, <2>2
<1>3. Supervisor!Types' /\ ProcessBeside(o) /\ Supervisor!CallHolds(o)'
  <2>1. CASE o \in registered /\ Supervisor!Terminates(o) /\ UNCHANGED <<op, failed>>
    BY <1>1, <1>2, <2>1, ProcessTerminatedCall
  <2>2. CASE o \in registered /\ Supervisor!TerminationFails(o)
             /\ op' = [op EXCEPT ![o].uncertain = TRUE] /\ failed'
    <3>1. /\ op' \in [Ops -> Supervisor!OpRecords] /\ \A p \in Ops : p # o => op'[p] = op[p]
          /\ op'[o].pc = op[o].pc /\ op'[o].kind = op[o].kind /\ op'[o].sup = op[o].sup
      BY <1>1, <2>2, ProcessUncertainIs
    <3> QED BY <1>1, <1>2, <2>2, <3>1, ProcessUnterminatedCall
  <2>3. CASE UNCHANGED <<tree, term, kills, op, failed>>
    <3>1. Supervisor!Types'
      BY <1>1, <1>2, <2>3, ProcessTypesAre, ProcessTypesNext
    <3>2. ProcessBeside(o)
      BY <1>1, <2>3 DEF ProcessBeside
    <3>3. Supervisor!CallHolds(o)'
      BY <1>1, <2>3 DEF Supervisor!CallHolds, Supervisor!PC
    <3> QED BY <3>1, <3>2, <3>3
  <2>4. CASE /\ o \in registered /\ op' = [op EXCEPT ![o].uncertain = TRUE] /\ failed'
             /\ UNCHANGED <<tree, term, kills>>
    <3>1. /\ op' \in [Ops -> Supervisor!OpRecords] /\ \A p \in Ops : p # o => op'[p] = op[p]
          /\ op'[o].pc = op[o].pc /\ op'[o].kind = op[o].kind /\ op'[o].sup = op[o].sup
      BY <1>1, <2>4, ProcessUncertainIs
    <3>2. Supervisor!Types'
      BY <1>1, <1>2, <2>4, <3>1, ProcessTypesAre, ProcessTypesNext
    <3>3. ProcessBeside(o)
      BY <1>1, <2>4, <3>1 DEF ProcessBeside
    <3>4. Supervisor!CallHolds(o)'
      BY <1>1, <2>4, <3>1 DEF Supervisor!CallHolds, Supervisor!PC
    <3> QED BY <3>2, <3>3, <3>4
  <2> QED BY <2>1, <2>2, <2>3, <2>4 DEF Supervisor!CloseCancels, Supervisor!CloseRaises
<1>4. \A p \in Ops : Supervisor!CallHolds(p)'
  BY <1>2, <1>3, ProcessCallsHold
<1>5. Supervisor!CloseHolds'
  BY <1>1, <1>2 DEF Supervisor!CloseHolds
<1> QED BY <1>3, <1>4, <1>5 DEF Supervisor!SupervisorInv

-----------------------------------------------------------------------------
(* The invariant *)

LEMMA ProcessInitInv == Supervisor!Init => Supervisor!SupervisorInv
<1> SUFFICES ASSUME Supervisor!Init PROVE Supervisor!SupervisorInv
  OBVIOUS
<1>1. Supervisor!Idle \in Supervisor!OpRecords
  BY DEF Supervisor!Idle, Supervisor!OpRecords
<1>2. op \in [Ops -> Supervisor!OpRecords]
  BY <1>1 DEF Supervisor!Init
<1>3. /\ kills \in [Ops -> 0..1] /\ tree \in [Ops -> ProcessTrees]
         /\ reader \in [Ops -> ProcessReaders]
      /\ term \in [Ops -> ProcessTerms] /\ open \subseteq Ops /\ registered \subseteq Ops
      /\ process_close \in Supervisor!CloseTasks
  BY DEF Supervisor!Init, ProcessTrees, ProcessReaders, ProcessTerms, Supervisor!CloseTasks
<1>4. Supervisor!Types
  BY <1>2, <1>3, ProcessTypesAre
<1>5. ASSUME NEW p \in Ops PROVE Supervisor!CallHolds(p)
  BY DEF Supervisor!Init, Supervisor!Idle, Supervisor!CallHolds, Supervisor!PC
<1> QED BY <1>4, <1>5 DEF Supervisor!Init, Supervisor!SupervisorInv, Supervisor!CloseHolds

LEMMA ProcessNextStep ==
    ASSUME Supervisor!KindsAreKnown, Supervisor!SupervisorInv, [Supervisor!Next]_(Supervisor!vars)
    PROVE  Supervisor!SupervisorInv'
<1>1. CASE Supervisor!Next
  <2>1. CASE \E o \in Ops : \E kind \in Kinds[o] : Supervisor!Start(o, kind)
             \/ Supervisor!StartUnproved(o, kind)
    BY <2>1, ProcessStartStep, ProcessUnprovedStep
  <2>2. CASE \E o \in Ops : Supervisor!StartRefused(o) \/ Supervisor!Interrupt(o)
             \/ Supervisor!CancelRun(o)
    BY <2>2, ProcessRefusedStep, ProcessInterruptStep, ProcessCancelRunStep
  <2>3. CASE \E o \in Ops : Supervisor!CallSteps(o)
    BY <2>3, ProcessEndStep, ProcessBinaryStep, ProcessRetireStep DEF Supervisor!CallSteps
  <2>4. CASE Supervisor!Processes \/ Supervisor!Threads
    BY <2>4, ProcessProcessStep, ProcessThreadStep DEF Supervisor!Processes, Supervisor!Threads
  <2>5. CASE Supervisor!Close \/ Supervisor!CloseSteps
    BY <2>5, ProcessCloseStep, ProcessCloseCancelsStep, ProcessCloseConcludesStep DEF
       Supervisor!CloseSteps
  <2> QED BY <1>1, <2>1, <2>2, <2>3, <2>4, <2>5 DEF Supervisor!Next
<1>2. CASE UNCHANGED Supervisor!vars
  <2>1. Supervisor!Types'
    BY <1>2 DEF Supervisor!SupervisorInv, Supervisor!Types, Supervisor!TypeOK, Supervisor!vars
  <2>2. ASSUME NEW p \in Ops PROVE Supervisor!CallHolds(p)'
    <3>1. Supervisor!CallHolds(p)
      BY DEF Supervisor!SupervisorInv
    <3> QED BY <1>2, <3>1 DEF Supervisor!CallHolds, Supervisor!PC, Supervisor!vars
  <2>3. Supervisor!CloseHolds'
    BY <1>2 DEF Supervisor!SupervisorInv, Supervisor!CloseHolds, Supervisor!PC, Supervisor!vars
  <2> QED BY <2>1, <2>2, <2>3 DEF Supervisor!SupervisorInv
<1> QED BY <1>1, <1>2

LEMMA ProcessSettled ==
    ASSUME Supervisor!SupervisorInv
    PROVE  Supervisor!TypeOK /\ Supervisor!ReleaseNeedsProof
<1>1. Supervisor!TypeOK /\ Supervisor!CloseHolds /\ kills \in [Ops -> 0..1]
  BY DEF Supervisor!SupervisorInv, Supervisor!Types
<1>2. ASSUME NEW p \in Ops
      PROVE  /\ Supervisor!PC(p) = "done" => /\ tree[p].parent = "exited" /\ p \notin open
                                             /\ op[p].sup = "job" => tree[p].child = "none"
                                             /\ op[p].kind = "strict" => tree[p].child # "member"
             /\ Supervisor!PC(p) \in {"idle", "refused", "done"} => tree[p].parent # "live"
             /\ kills[p] <= 1
  <2>1. Supervisor!CallHolds(p)
    BY DEF Supervisor!SupervisorInv
  <2> QED BY <1>1, <2>1 DEF Supervisor!CallHolds
<1>3. Supervisor!ReleasedIsSettled
  BY <1>2 DEF Supervisor!ReleasedIsSettled
<1>4. Supervisor!CloseIsProof
  BY <1>1, <1>2 DEF Supervisor!CloseIsProof, Supervisor!CloseHolds
<1> QED BY <1>1, <1>3, <1>4 DEF Supervisor!ReleaseNeedsProof

-----------------------------------------------------------------------------
(* The components in their sum *)

LEMMA LockMoves == [SumNext]_allVars => [Next]_vars
BY DEF SumNext, allVars

LEMMA LegacyMoves == [SumNext]_allVars => [Legacy!Next]_(Legacy!vars)
BY DEF SumNext, allVars, jobsVars, Legacy!vars

LEMMA ProcessMoves == [SumNext]_allVars => [Supervisor!Next]_(Supervisor!vars)
BY DEF SumNext, allVars, processVars, Supervisor!vars

\* The page, the disk and the approvals of a job tell how it ended, and when close has
\* returned nothing works or will (web/server.py).
THEOREM JobsHold == SumSpec => []JobsAreAccounted
<1>1. SumInit => Legacy!JobsInv
  BY LegacyInitInv DEF SumInit
<1>2. Legacy!JobsInv /\ [Legacy!Next]_(Legacy!vars) => Legacy!JobsInv'
  BY LegacyNextStep
<1>3. Legacy!JobsInv => JobsAreAccounted
  BY LegacyAccounted DEF JobsAreAccounted
<1> QED BY <1>1, <1>2, <1>3, LegacyMoves, PTL DEF SumSpec

\* A call gives its registration back only with the proof that nothing of it is left,
\* terminates its tree at most once, and close returns only when no call is left
\* (process_supervisor.py).
THEOREM ReleasesHold == SumSpec => []ReleaseNeedsProof
<1>1. SumInit => Supervisor!SupervisorInv
  BY ProcessInitInv DEF SumInit
<1>2. Supervisor!KindsAreKnown
  BY ProgressAssumption
<1>3. Supervisor!SupervisorInv /\ [Supervisor!Next]_(Supervisor!vars) => Supervisor!SupervisorInv'
  BY <1>2, ProcessNextStep
<1>4. Supervisor!SupervisorInv => ReleaseNeedsProof
  BY ProcessSettled DEF ReleaseNeedsProof
<1> QED BY <1>1, <1>3, <1>4, ProcessMoves, PTL DEF SumSpec

\* The lock in the sum of components.
THEOREM LockInSum == SumSpec => []LockSafe
<1>1. SumInit => LockInv
  BY InitInv DEF SumInit
<1>2. LockInv => LockSafe
  BY DEF LockInv, LockSafe
<1> QED BY <1>1, <1>2, LockInvStep, LockMoves, PTL DEF SumSpec
=============================================================================
