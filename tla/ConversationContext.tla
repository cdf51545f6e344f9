-------------------------- MODULE ConversationContext --------------------------
(***************************************************************************)
(* What a turn of a conversation gives the model to read.                   *)
(*                                                                         *)
(* A turn is bound to the conversation's thread, whose checkpoint holds the *)
(* messages of the earlier turns.  Each runtime keeps its own checkpoints;  *)
(* the deep runtime falls back to a graph runtime with a third file.  After *)
(* any turn that did not complete, or that fell back, the next turn is bound *)
(* to a new thread, and starts from the stored history instead.             *)
(*                                                                         *)
(* A list of messages begins with the request of its first turn; then come  *)
(* its groups, each an answer or a call with all that follows it, up to the *)
(* next.  A group is written as the turn whose request ends it, or as Tool. *)
(* The legacy and the graph runtimes drop the oldest groups of a list that  *)
(* is too long and leave a Note in their place (context/policy.py).         *)
(***************************************************************************)
EXTENDS Integers, Sequences, SequencesExt

CONSTANTS
    Conversations,
    MaxTurns,       \* bound on the turns; a turn is the number of its acceptance
    MaxGroups,      \* bound on the groups of a list that a tool call may still extend
    MaxCrashes      \* bound on restarts of the service

VARIABLES
    row,        \* conversation -> its row: [mode, thread, archived, deleted]; mode "none": no row
    accepted,   \* conversation -> its turns, oldest first
    status,     \* turn -> status of its run
    thread,     \* turn -> the thread that it is bound to
    lease,      \* turn -> lease_active
    fallback,   \* turn -> the metadata name a fallback runtime
    at,         \* turn -> where its operation is, "off" without one
    outcome,    \* turn -> the result that its runtime returned
    checkpoint, \* file -> conversation -> thread -> [list, pending]
    context,    \* turn -> the list that it last gave the model, empty before
    crashes

vars == <<row, accepted, status, thread, lease, fallback, at, outcome, checkpoint, context, crashes>>

Modes == {"legacy", "graph", "deep"}
Files == {"graph", "deep", "fallback"}
\* "stopped" is failed, cancelled or interrupted_expired, which nothing here tells apart
Terminal == {"completed", "stopped"}
Turns == 1..MaxTurns
Tool == 0
Note == -1
Entries == Turns \cup {Tool, Note}
Threads == 0..MaxTurns

Init ==
    /\ row = [c \in Conversations |-> [mode |-> "none", thread |-> 0, archived |-> FALSE, deleted |-> FALSE]]
    /\ accepted = [c \in Conversations |-> <<>>]
    /\ status = [t \in Turns |-> "none"] /\ thread = [t \in Turns |-> 0]
    /\ lease = [t \in Turns |-> FALSE] /\ fallback = [t \in Turns |-> FALSE]
    /\ at = [t \in Turns |-> "off"] /\ outcome = [t \in Turns |-> "none"]
    /\ checkpoint = [f \in Files |-> [c \in Conversations |-> [n \in Threads |->
                        [list |-> <<>>, pending |-> FALSE]]]]
    /\ context = [t \in Turns |-> <<>>]
    /\ crashes = 0

rows == <<row, accepted>>
results == <<outcome, fallback>>
reading == <<checkpoint, context>>

Conversation(t) == CHOOSE c \in Conversations : Contains(accepted[c], t)
Mode(t) == row[Conversation(t)].mode

\* NativeConversationStore.history: the turns that completed, oldest first
Completed(turns, s) ==
    LET among[n \in 0..Len(turns)] ==
            IF n = 0 THEN <<>>
            ELSE IF s[turns[n]] = "completed" THEN Append(among[n - 1], turns[n]) ELSE among[n - 1]
    IN  among[Len(turns)]

History(c) == Completed(accepted[c], status)

\* require_conversation(idle=True)
Idle(c) ==
    \A t \in ToSet(accepted[c]) : ~lease[t] /\ status[t] \notin {"queued", "running", "interrupted"}

Live(c) == row[c].mode # "none" /\ ~row[c].deleted

\* Faults: a fallback is continued; a partial checkpoint is continued.
ContinuesCompleted(t) == status[t] = "completed"
ContinuesFinished(t) == status[t] \in Terminal /\ ~fallback[t]

\* bind_turn: partial checkpoints and fallbacks are not continued
Continues(t) == status[t] = "completed" /\ ~fallback[t]

NextThread(c) ==
    IF accepted[c] = <<>> \/ Continues(Last(accepted[c])) THEN row[c].thread ELSE row[c].thread + 1

-----------------------------------------------------------------------------
(* ContextPolicy.compact *)

\* How much is dropped depends on the sizes; the request and two groups stay.
Compacted(list) ==
    {<<Head(list), Note>> \o SubSeq(list, first, Len(list)) : first \in 3..(Len(list) - 1)}

\* What is read of a list: a second note makes the history invalid, which raises.
Reads(f, list) ==
    {list} \cup IF f = "deep" \/ Len(list) < 4 \/ list[2] = Note THEN {} ELSE Compacted(list)

-----------------------------------------------------------------------------
(* The conversation *)

CreateConversation(c) ==
    /\ row[c].mode = "none"
    /\ \E m \in Modes : row' = [row EXCEPT ![c].mode = m]
    /\ UNCHANGED <<accepted, status, thread, lease, at, crashes>>
    /\ UNCHANGED results /\ UNCHANGED reading

Archive(c) ==
    /\ Live(c) /\ Idle(c)
    /\ row' = [row EXCEPT ![c].archived = ~@]
    /\ UNCHANGED <<accepted, status, thread, lease, at, crashes>>
    /\ UNCHANGED results /\ UNCHANGED reading

Delete(c) ==
    /\ Live(c) /\ Idle(c) /\ accepted[c] # <<>>
    /\ row' = [row EXCEPT ![c].deleted = TRUE]
    /\ UNCHANGED <<accepted, status, thread, lease, at, crashes>>
    /\ UNCHANGED results /\ UNCHANGED reading

\* one transaction: the conversation is idle, the thread is chosen, the run is inserted
Accept(t, c) ==
    /\ status[t] = "none" /\ \A u \in 1..(t - 1) : status[u] # "none"
    /\ Live(c) /\ Idle(c) /\ ~row[c].archived
    /\ row' = [row EXCEPT ![c].thread = NextThread(c)]
    /\ thread' = [thread EXCEPT ![t] = NextThread(c)]
    /\ accepted' = [accepted EXCEPT ![c] = Append(@, t)]
    /\ status' = [status EXCEPT ![t] = "queued"] /\ lease' = [lease EXCEPT ![t] = TRUE]
    /\ at' = [at EXCEPT ![t] = "queued"]
    /\ UNCHANGED crashes /\ UNCHANGED results /\ UNCHANGED reading

-----------------------------------------------------------------------------
(* Its operation *)

To(t, pc) == at' = [at EXCEPT ![t] = pc]
Result(t, o) == outcome' = [outcome EXCEPT ![t] = o] /\ To(t, "returned")
Saved(t, f) == checkpoint[f][Conversation(t)][thread[t]]
Save(t, f, list, pending) ==
    checkpoint' = [checkpoint EXCEPT ![f][Conversation(t)][thread[t]] = [list |-> list, pending |-> pending]]

\* the file in which the turn's engine runs now
File(t) == IF at[t] = "fallback" THEN "fallback" ELSE Mode(t)

Start(t) ==
    /\ at[t] = "queued" /\ To(t, "begin")
    /\ status' = [status EXCEPT ![t] = "running"]
    /\ UNCHANGED <<thread, lease, crashes>> /\ UNCHANGED results /\ UNCHANGED reading /\ UNCHANGED rows

\* a checkpoint with messages is continued; without, the stored history is the beginning
Beginning(t, f) == IF Saved(t, f).list # <<>> THEN Saved(t, f).list ELSE History(Conversation(t))

\* reason: what is read is what is saved
Gives(t, list) == context' = [context EXCEPT ![t] = list]

Enter(t, f) ==
    \E list \in Reads(f, Append(Beginning(t, f), t)) : Gives(t, list) /\ Save(t, f, list, TRUE)

\* the legacy loop keeps no checkpoint
EnterLegacy(t) ==
    /\ at[t] = "begin" /\ Mode(t) = "legacy"
    /\ \E list \in Reads("legacy", Append(History(Conversation(t)), t)) : Gives(t, list)
    /\ To(t, "model")
    /\ UNCHANGED <<status, thread, lease, checkpoint, crashes>> /\ UNCHANGED results /\ UNCHANGED rows

EnterEngine(t) ==
    /\ at[t] = "begin" /\ Mode(t) # "legacy" /\ ~Saved(t, Mode(t)).pending
    /\ Enter(t, Mode(t)) /\ To(t, "model")
    /\ UNCHANGED <<status, thread, lease, crashes>> /\ UNCHANGED results /\ UNCHANGED rows

\* any exception of the first deep run: the graph runtime runs the request from its start
FallBack(t) ==
    /\ at[t] \in {"begin", "model"} /\ Mode(t) = "deep"
    /\ status[t] = "running" /\ ~Saved(t, "fallback").pending
    /\ Enter(t, "fallback")
    /\ fallback' = [fallback EXCEPT ![t] = TRUE]
    /\ To(t, "fallback")
    /\ UNCHANGED <<status, thread, lease, outcome, crashes>> /\ UNCHANGED rows

Running(t) == at[t] \in {"model", "fallback", "resumed"}

\* the model asks for tools, and reads the list again with what they said
Exchange(t) ==
    /\ Running(t) /\ File(t) # "deep"
    /\ Len(context[t]) < MaxGroups
    /\ \E list \in Reads(File(t), Append(context[t], Tool)) :
          /\ Gives(t, list)
          /\ IF Mode(t) = "legacy" THEN UNCHANGED checkpoint ELSE Save(t, File(t), list, TRUE)
    /\ UNCHANGED <<status, thread, lease, at, crashes>> /\ UNCHANGED results /\ UNCHANGED rows

\* the engine reaches its end: an answer, or the failed status of a spent budget
Finishes(t) ==
    /\ Running(t)
    /\ IF Mode(t) = "legacy" THEN UNCHANGED checkpoint
                             ELSE Save(t, File(t), Saved(t, File(t)).list, FALSE)
    /\ \E o \in {"completed"} \cup (IF File(t) = "deep" THEN {} ELSE {"stopped"}) : Result(t, o)
    /\ UNCHANGED <<status, thread, lease, fallback, context, crashes>> /\ UNCHANGED rows

\* an interrupt of the engine; the fallback has read tools only and asks nothing
Interrupts(t) ==
    /\ at[t] \in {"model", "resumed"} /\ Result(t, "interrupted")
    /\ UNCHANGED <<status, thread, lease, fallback, crashes>> /\ UNCHANGED reading /\ UNCHANGED rows

\* an exception or a cancellation leaves the checkpoint as the last step wrote it
Raises(t) ==
    /\ at[t] \in {"queued", "begin", "model", "fallback", "resumed"}
    /\ Result(t, "stopped")
    /\ fallback' = [fallback EXCEPT ![t] = FALSE]
    /\ UNCHANGED <<status, thread, lease, crashes>> /\ UNCHANGED reading /\ UNCHANGED rows

Write(t) ==
    /\ at[t] = "returned" /\ To(t, "written")
    /\ status' = [status EXCEPT ![t] = outcome[t]]
    /\ UNCHANGED <<thread, lease, crashes>> /\ UNCHANGED results /\ UNCHANGED reading /\ UNCHANGED rows

\* a cancellation that was drained behind the write of the result
WriteCancelled(t) ==
    /\ at[t] = "written" /\ status[t] \in {"completed", "interrupted"}
    /\ status' = [status EXCEPT ![t] = "stopped"]
    /\ fallback' = [fallback EXCEPT ![t] = FALSE]
    /\ UNCHANGED <<thread, lease, at, outcome, crashes>> /\ UNCHANGED reading /\ UNCHANGED rows

\* release_conversation_turn: an interrupted turn keeps its lease
Release(t) ==
    /\ at[t] = "written" /\ To(t, "off")
    /\ lease' = [lease EXCEPT ![t] = status[t] \notin Terminal]
    /\ UNCHANGED <<status, thread, crashes>> /\ UNCHANGED results /\ UNCHANGED reading /\ UNCHANGED rows

-----------------------------------------------------------------------------
(* Decisions and restarts *)

Waiting(t) == at[t] = "off" /\ status[t] = "interrupted"

\* claim_interrupt, then the resumed operation: the engine continues its own checkpoint
Resume(t) ==
    /\ Waiting(t) /\ To(t, "resumed")
    /\ status' = [status EXCEPT ![t] = "running"]
    /\ UNCHANGED <<thread, lease, crashes>> /\ UNCHANGED results /\ UNCHANGED reading /\ UNCHANGED rows

\* the decision came too late, or the waiting turn is cancelled
Drop(t) ==
    /\ Waiting(t)
    /\ status' = [status EXCEPT ![t] = "stopped"]
    /\ lease' = [lease EXCEPT ![t] = FALSE]
    /\ UNCHANGED <<thread, at, crashes>> /\ UNCHANGED results /\ UNCHANGED reading /\ UNCHANGED rows

\* recover_incomplete: a lost operation fails its run, terminal runs lose their lease
Restart ==
    /\ crashes < MaxCrashes /\ crashes' = crashes + 1
    /\ at' = [t \in Turns |-> "off"]
    /\ LET lost == {t \in Turns : status[t] \in {"queued", "running"}} IN
       /\ status' = [t \in Turns |-> IF t \in lost THEN "stopped" ELSE status[t]]
       /\ lease' = [t \in Turns |-> lease[t] /\ status[t] = "interrupted"]
    /\ UNCHANGED thread /\ UNCHANGED results /\ UNCHANGED reading /\ UNCHANGED rows

Operation(t) ==
    \/ Start(t) \/ EnterLegacy(t) \/ EnterEngine(t) \/ FallBack(t)
    \/ Exchange(t) \/ Finishes(t) \/ Interrupts(t) \/ Raises(t)
    \/ Write(t) \/ WriteCancelled(t) \/ Release(t)

Next ==
    \/ \E c \in Conversations :
        CreateConversation(c) \/ Archive(c) \/ Delete(c) \/ \E t \in Turns : Accept(t, c)
    \/ \E t \in Turns : Operation(t) \/ Resume(t) \/ Drop(t)
    \/ Restart

Spec == Init /\ [][Next]_vars

-----------------------------------------------------------------------------
(* Properties *)

Earlier(c, n) == SubSeq(accepted[c], 1, n - 1)

\* The later requests of a list.
LaterRequests(list) == {list[i] : i \in 2..Len(list)} \cap Turns
Noted(list) == \E i \in DOMAIN list : list[i] = Note

\* A list holds the first of these turns and an unbroken end of the others, in
\* their order and once; all of them, unless it says that something was dropped.
Keeps(list, turns) ==
    /\ list # <<>> /\ turns # <<>> /\ Head(list) = Head(turns)
    /\ LaterRequests(list) \subseteq LaterRequests(turns)
    /\ \A i, j \in 2..Len(list) : i < j /\ list[i] \in Turns /\ list[j] \in Turns => list[i] < list[j]
    /\ \A u \in LaterRequests(turns) :
          ~Noted(list) \/ (\E v \in LaterRequests(list) : v <= u) => u \in LaterRequests(list)

\* What a turn gives the model are the completed turns of its conversation and
\* itself, and nothing of a turn that failed, was cancelled or ran elsewhere:
\* whatever mixture of checkpoints, threads, fallbacks, compactions and stored
\* history (bind_turn, GraphRuntime.run, DeepAgentRuntime.run) it began with.
ContextIsHistory ==
    \A c \in Conversations : \A n \in DOMAIN accepted[c] :
        LET t == accepted[c][n] IN
        context[t] # <<>> => Keeps(context[t], Append(Completed(Earlier(c, n), status), t))

\* No turn is bound to a thread whose checkpoint has pending work, which the
\* runtimes refuse: one interrupted or lost turn does not block the conversation.
ThreadIsFree ==
    \A t \in Turns : at[t] \in {"queued", "begin"} =>
        \A f \in Files : ~Saved(t, f).pending

TurnsContinueWhole == ContextIsHistory /\ ThreadIsFree

-----------------------------------------------------------------------------
(* Why TurnsContinueWhole: only the last turn of a conversation may still move, *)
(* and while it may be continued its thread holds what it has read.             *)

TurnBound == MaxTurns \in Nat /\ MaxGroups \in Nat

Rows == [mode : Modes \cup {"none"}, thread : Threads, archived : BOOLEAN, deleted : BOOLEAN]
Checkpoints == [list : Seq(Entries), pending : BOOLEAN]

ContextTypes ==
    /\ row \in [Conversations -> Rows] /\ accepted \in [Conversations -> Seq(Turns)]
    /\ status \in [Turns -> Terminal \cup {"none", "queued", "running", "interrupted"}]
    /\ thread \in [Turns -> Threads] /\ lease \in [Turns -> BOOLEAN] /\ fallback \in [Turns -> BOOLEAN]
    /\ at \in [Turns -> {"off", "queued", "begin", "model", "fallback", "resumed", "returned", "written"}]
    /\ outcome \in [Turns -> {"none", "completed", "stopped", "interrupted"}]
    /\ checkpoint \in [Files -> [Conversations -> [Threads -> Checkpoints]]]
    /\ context \in [Turns -> Seq(Entries)]

\* Turns are numbered as they are accepted, each in one conversation.
Numbered ==
    /\ \A t, u \in Turns : u < t /\ status[t] # "none" => status[u] # "none"
    /\ \A t \in Turns : status[t] # "none" <=>
            \E c \in Conversations : \E n \in DOMAIN accepted[c] : accepted[c][n] = t
    /\ \A c \in Conversations : \A m, n \in DOMAIN accepted[c] :
            m < n => accepted[c][m] < accepted[c][n]
    /\ \A c, d \in Conversations : \A m \in DOMAIN accepted[c], n \in DOMAIN accepted[d] :
            accepted[c][m] = accepted[d][n] => c = d

\* The engine runs, or has stopped at an interrupt.
Entered(t) ==
    \/ at[t] \in {"model", "fallback", "resumed"}
    \/ at[t] = "returned" /\ outcome[t] = "interrupted"
    \/ at[t] \in {"written", "off"} /\ status[t] = "interrupted"

\* What the run and its lease say of an operation.
StageSound(t) ==
    /\ at[t] = "queued" => status[t] = "queued"
    /\ at[t] \in {"begin", "model", "fallback", "resumed"} => status[t] = "running"
    /\ at[t] = "returned" => status[t] \in {"queued", "running"} /\ outcome[t] # "none"
    /\ at[t] = "written" => status[t] \in Terminal \cup {"interrupted"}
    /\ at[t] = "off" => status[t] \in Terminal \cup {"none", "interrupted"}
    /\ at[t] # "off" \/ status[t] = "interrupted" => lease[t] /\ status[t] # "none"
    /\ at[t] = "fallback" => fallback[t]
    /\ status[t] = "none" => context[t] = <<>>
    /\ Entered(t) => context[t] # <<>>

Settled(t) == at[t] = "off" /\ ~lease[t] /\ status[t] \in Terminal

OnlyLastMoves ==
    \A c \in Conversations : \A n \in DOMAIN accepted[c] :
        n < Len(accepted[c]) => Settled(accepted[c][n])

\* The next turn may continue the thread of this one.
MayContinue(t) ==
    \/ at[t] \in {"queued", "begin", "model", "resumed"}
    \/ at[t] = "returned" /\ (outcome[t] = "interrupted" \/ (outcome[t] = "completed" /\ ~fallback[t]))
    \/ at[t] \in {"written", "off"} /\ (status[t] = "interrupted" \/ Continues(t))

Answered(t) ==
    \/ at[t] = "returned" /\ outcome[t] = "completed"
    \/ at[t] \in {"written", "off"} /\ status[t] = "completed"

Reached(t, saved, before) ==
    IF at[t] \in {"queued", "begin"}
    THEN ~saved.pending /\ (saved.list = <<>> \/ Keeps(saved.list, before))
    ELSE /\ saved.list = context[t] /\ context[t] # <<>>
         /\ Answered(t) => ~saved.pending

Fresh(f, c, n) == checkpoint[f][c][n] = [list |-> <<>>, pending |-> FALSE]

LastOf(c) == Last(accepted[c])

ThreadSound(c) ==
    /\ \A f \in Files, n \in Threads : accepted[c] = <<>> \/ row[c].thread < n => Fresh(f, c, n)
    /\ accepted[c] = <<>> => row[c].thread = 0
    /\ accepted[c] # <<>> =>
        /\ row[c].mode # "none" /\ thread[LastOf(c)] = row[c].thread /\ row[c].thread < LastOf(c)
        /\ MayContinue(LastOf(c)) =>
            /\ \A f \in Files \ {row[c].mode} : Fresh(f, c, row[c].thread)
            /\ row[c].mode \in Files =>
                    Reached(LastOf(c), checkpoint[row[c].mode][c][row[c].thread],
                            Completed(accepted[c], status))

ContextInv ==
    /\ ContextTypes /\ Numbered /\ OnlyLastMoves /\ ContextIsHistory
    /\ \A t \in Turns : StageSound(t)
    /\ \A c \in Conversations : ThreadSound(c)

=============================================================================
