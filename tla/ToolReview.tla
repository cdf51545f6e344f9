------------------------------ MODULE ToolReview ------------------------------
(***************************************************************************)
(* One run of an agent: model turns, the review of the tools that a turn     *)
(* asks for, and their execution, as the three engines do it.                *)
(*                                                                         *)
(* The focused graph prepares the arguments in a node of its own, asks in    *)
(* the next and runs all calls after one decision; resuming enters the       *)
(* asking node again from its start.  The deep runtime asks with the raw     *)
(* arguments, prepares a copy for the user and sends the copy back with the  *)
(* decision.  The reviewed legacy loop runs the calls in order and stops at  *)
(* each one that needs a decision, with the frame of the loop stored.        *)
(***************************************************************************)
EXTENDS Naturals, Sequences

CONSTANTS
    Plans,      \* the kinds of the calls that a model turn may ask for
    MaxSteps,   \* max_steps of the run
    MaxEdits    \* bound on changes of the workspace by others

VARIABLES
    engine,
    at,         \* where the run is
    step,
    calls,      \* the calls of the latest model turn: [kind, args]
    done,       \* how many of them have their tool message
    saved,      \* the checkpoint or the stored frame: [step, calls, done]
    review,     \* the legacy row: "none", "pending" or "consumed"
    asked,      \* call -> the arguments that the user was shown, or Nothing
    verdict,    \* call -> the decision about it, or "none"
    effects,    \* the calls that took effect, in their order: [call, args]
    workspace   \* version of the files that arguments are prepared from

vars == <<engine, at, step, calls, done, saved, review, asked, verdict, effects, workspace>>
frame == <<step, calls, done>>
user == <<asked, verdict>>

Widths == {Len(p) : p \in Plans}
Width == CHOOSE n \in Widths : \A m \in Widths : m <= n
Ids == (1..MaxSteps) \X (1..Width)

\* A plan is a sequence of kinds, and there is a longest one.
PlansAreBounded ==
    /\ Plans \subseteq Seq(STRING)
    /\ MaxSteps \in Nat
    /\ \E n \in Widths : \A m \in Widths : m <= n

Nothing == <<>>

Init ==
    /\ engine \in {"graph", "deep", "legacy"}
    /\ at = "reason" /\ step = 1 /\ calls = <<>> /\ done = 0
    /\ saved = [step |-> 1, calls |-> <<>>, done |-> 0]
    /\ review = "none"
    /\ asked = [i \in Ids |-> Nothing] /\ verdict = [i \in Ids |-> "none"]
    /\ effects = <<>> /\ workspace = 0

Ended == {"completed", "failed"}

\* SENSITIVE_CAPABILITIES; "denied" is one that the run has no permission for
Sensitive(kind) == kind \in {"write", "denied"}

\* prepare_approval freezes what the files are now; other tools keep their arguments
Prepared(c) == IF Sensitive(c.kind) THEN [c EXCEPT !.args = <<"prepared", workspace>>] ELSE c
Edited(c) == [c EXCEPT !.args = <<"edited", workspace>>]
All(Op(_), cs) == [k \in 1..Len(cs) |-> Op(cs[k])]

Indices(cs) == {k \in 1..Len(cs) : Sensitive(cs[k].kind)}
Here(k) == <<step, k>>
Save(cs, n) == saved' = [step |-> step, calls |-> cs, done |-> n]

\* the user sees the arguments of these calls
Show(cs, ks) == asked' = [i \in Ids |-> IF i[1] = step /\ i[2] \in ks THEN cs[i[2]].args ELSE asked[i]]
Rule(ks, action) == verdict' = [i \in Ids |-> IF i[1] = step /\ i[2] \in ks THEN action ELSE verdict[i]]

-----------------------------------------------------------------------------
(* A model turn *)

\* the last step is for an answer: tools that it asks for end the run
Reason ==
    /\ at = "reason"
    /\ \/ at' = "completed" /\ UNCHANGED frame /\ UNCHANGED saved
       \/ /\ step >= MaxSteps /\ at' = "failed"
          /\ UNCHANGED frame /\ UNCHANGED saved
       \/ /\ step < MaxSteps
          /\ \E p \in Plans :
              LET turn == [k \in 1..Len(p) |-> [kind |-> p[k], args |-> <<"raw", 0>>]] IN
              /\ calls' = turn /\ done' = 0 /\ step' = step
              /\ Save(turn, 0)
              /\ at' = IF engine = "legacy" \/ Indices(turn) = {} THEN "tools"
                       ELSE IF engine = "graph" THEN "prepare" ELSE "ask"
    /\ UNCHANGED <<engine, review, effects, workspace>> /\ UNCHANGED user

-----------------------------------------------------------------------------
(* Asking *)

\* prepare_approval, a node whose result is in the checkpoint before the next one asks
Prepare ==
    /\ at = "prepare" /\ at' = "ask"
    /\ calls' = All(Prepared, calls) /\ Save(All(Prepared, calls), 0)
    /\ UNCHANGED <<engine, step, done, review, effects, workspace>> /\ UNCHANGED user

\* request_approval: the interrupt
AskGraph ==
    /\ at = "ask" /\ engine = "graph" /\ at' = "waiting"
    /\ Show(calls, Indices(calls))
    /\ UNCHANGED <<engine, saved, review, verdict, effects, workspace>> /\ UNCHANGED frame

\* the middleware interrupts with the raw calls; _result prepares the user's copy
AskDeep ==
    /\ at = "ask" /\ engine = "deep" /\ at' = "waiting"
    /\ Show(All(Prepared, calls), Indices(calls))
    /\ UNCHANGED <<engine, saved, review, verdict, effects, workspace>> /\ UNCHANGED frame

Current == calls[done + 1]

\* a sensitive call that is permitted; its prepared arguments replace the raw ones
\* in the frame before the frame is stored
AskLegacy ==
    /\ at = "tools" /\ engine = "legacy" /\ done < Len(calls)
    /\ Current.kind = "write" /\ verdict[Here(done + 1)] = "none"
    /\ review \in {"none", "consumed"} /\ review' = "pending"
    /\ LET now == [calls EXCEPT ![done + 1] = Prepared(@)] IN
       /\ calls' = now /\ Save(now, done) /\ Show(now, {done + 1})
    /\ at' = "waiting"
    /\ UNCHANGED <<engine, step, done, verdict, effects, workspace>>

-----------------------------------------------------------------------------
(* The decision: the run continues from what is stored *)

Restore(cs) == step' = saved.step /\ calls' = cs /\ done' = saved.done

\* request_approval again, with its answer; a rejection answers every call of the turn
ResumeGraph ==
    /\ at = "waiting" /\ engine = "graph"
    /\ \/ /\ Restore(saved.calls) /\ Rule(Indices(calls), "approve") /\ at' = "tools"
       \/ /\ Restore(All(Edited, saved.calls)) /\ Rule(Indices(calls), "edit") /\ at' = "tools"
       \/ /\ calls' = saved.calls /\ done' = Len(saved.calls) /\ step' = step + 1
          /\ Rule(Indices(calls), "reject") /\ at' = "reason"
    /\ UNCHANGED <<engine, saved, review, asked, effects, workspace>>

\* _resume_value: an approval of a prepared patch returns the copy that was shown
Reviewed(cs) == [k \in 1..Len(cs) |-> IF k \in Indices(cs) THEN [cs[k] EXCEPT !.args = asked[Here(k)]] ELSE cs[k]]

\* Fault: an approval is passed on as it is.
ResumeDeepRaw ==
    /\ at = "waiting" /\ engine = "deep"
    /\ Restore(saved.calls) /\ Rule(Indices(calls), "approve") /\ at' = "tools"
    /\ UNCHANGED <<engine, saved, review, asked, effects, workspace>>

ResumeDeep ==
    /\ at = "waiting" /\ engine = "deep"
    /\ \/ /\ Restore(Reviewed(saved.calls)) /\ Rule(Indices(calls), "approve") /\ at' = "tools"
       \/ /\ Restore([k \in 1..Len(saved.calls) |->
                        IF k \in Indices(calls) THEN Edited(saved.calls[k]) ELSE saved.calls[k]])
          /\ Rule(Indices(calls), "edit") /\ at' = "tools"
       \/ /\ Restore(saved.calls) /\ Rule(Indices(calls), "reject") /\ at' = "tools"
    /\ UNCHANGED <<engine, saved, review, asked, effects, workspace>>

\* the first pending call takes the decision, after the review is consumed
ResumeLegacy ==
    /\ at = "waiting" /\ engine = "legacy" /\ review = "pending" /\ review' = "consumed"
    /\ LET k == saved.done + 1 IN
       \/ Restore(saved.calls) /\ Rule({k}, "approve")
       \/ Restore([saved.calls EXCEPT ![k] = Edited(@)]) /\ Rule({k}, "edit")
       \/ Restore(saved.calls) /\ Rule({k}, "reject")
    /\ at' = "tools"
    /\ UNCHANGED <<engine, saved, asked, effects, workspace>>

\* an edit that does not name every call, or changes one: the run fails
BadDecision ==
    /\ at = "waiting" /\ at' = "failed"
    /\ UNCHANGED <<engine, saved, review, effects, workspace>> /\ UNCHANGED frame /\ UNCHANGED user

-----------------------------------------------------------------------------
(* Running the calls *)

\* the legacy loop asks before it runs a permitted sensitive call
NeedsReview(k) == engine = "legacy" /\ calls[k].kind = "write" /\ verdict[Here(k)] = "none"
MayRun(k) == calls[k].kind # "denied" /\ verdict[Here(k)] # "reject"

\* a refused or failed call has its error as the tool message
RunTool ==
    /\ at = "tools" /\ done < Len(calls) /\ ~NeedsReview(done + 1)
    /\ done' = done + 1
    /\ effects' = IF MayRun(done + 1) THEN Append(effects, [call |-> Here(done + 1), args |-> Current.args])
                  ELSE effects
    /\ UNCHANGED <<engine, at, step, calls, saved, review, workspace>> /\ UNCHANGED user

\* the node of the graph returns, the loop goes to its next step
ToolsDone ==
    /\ at = "tools" /\ done = Len(calls)
    /\ at' = "reason" /\ step' = step + 1
    /\ UNCHANGED <<engine, calls, done, saved, review, effects, workspace>> /\ UNCHANGED user

\* a cancellation, the deadline, a failed provider call or a crash: the run is not continued
Stop ==
    /\ at \notin Ended /\ at' = "failed"
    /\ UNCHANGED <<engine, saved, review, effects, workspace>> /\ UNCHANGED frame /\ UNCHANGED user

\* someone changes a file while the run goes on or waits
OthersWrite ==
    /\ workspace < MaxEdits /\ at \notin Ended /\ workspace' = workspace + 1
    /\ UNCHANGED <<engine, at, saved, review, effects>> /\ UNCHANGED frame /\ UNCHANGED user

Next ==
    \/ Reason \/ Prepare \/ AskGraph \/ AskDeep \/ AskLegacy
    \/ ResumeGraph \/ ResumeDeep \/ ResumeLegacy \/ BadDecision
    \/ RunTool \/ ToolsDone \/ Stop \/ OthersWrite

Spec == Init /\ [][Next]_vars

-----------------------------------------------------------------------------
(* Properties *)

KindOf(i) == IF i[1] = step THEN calls[i[2]].kind ELSE "earlier"

\* A sensitive call takes effect only after the user was asked about it, and with
\* exactly the arguments that were shown or with the user's edit of them, though
\* the files changed between the question, the decision and the effect.
EffectsAreReviewed ==
    \A e \in {effects[m] : m \in 1..Len(effects)} :
        \/ verdict[e.call] = "approve" /\ e.args = asked[e.call]
        \/ verdict[e.call] = "edit" /\ e.args[1] = "edited"
        \/ verdict[e.call] = "none" /\ asked[e.call] = Nothing /\ ~Sensitive(KindOf(e.call))

\* No call takes effect twice, and calls take effect in the order of the turns.
EffectsInOrder ==
    \A m, n \in 1..Len(effects) : m < n =>
        LET a == effects[m].call
            b == effects[n].call
        IN a[1] < b[1] \/ (a[1] = b[1] /\ a[2] < b[2])

\* The model is asked again only when each call of its last turn has its message:
\* providers refuse a transcript with a call that nobody answered.
TranscriptIsWhole == at = "reason" => done = Len(calls)

ReviewDecides == EffectsAreReviewed /\ EffectsInOrder /\ TranscriptIsWhole

(***************************************************************************)
(* Why ReviewDecides holds: what is stored while the run waits is what was   *)
(* asked about, and every call ahead of the run in its turn is ready: no     *)
(* question is due, or its arguments are those of its decision.              *)
(***************************************************************************)
Args == {"raw", "prepared", "edited"} \X Nat
Call == [kind : STRING, args : Args]

ReviewTypes ==
    /\ engine \in {"graph", "deep", "legacy"}
    /\ at \in {"reason", "prepare", "ask", "waiting", "tools"} \cup Ended
    /\ step \in Nat \ {0}
    /\ calls \in Seq(Call) /\ Len(calls) <= Width
    /\ done \in 0..Len(calls)
    /\ asked \in [Ids -> Args \cup {Nothing}]
    /\ verdict \in [Ids -> {"none", "approve", "edit", "reject"}]
    /\ effects \in Seq([call : Ids, args : Args])
    /\ workspace \in Nat

Fresh(i) == verdict[i] = "none" /\ asked[i] = Nothing

\* The call k of a run that waits: shown if it needs a decision, not yet decided.
\* The deep runtime shows a copy of its own, the others show what they stored.
Due(k) == IF engine = "legacy" THEN k = done + 1 ELSE Sensitive(calls[k].kind)
Waits(k) ==
    /\ verdict[Here(k)] = "none"
    /\ IF Due(k)
       THEN asked[Here(k)] \in Args /\ (engine # "deep" => asked[Here(k)] = calls[k].args)
       ELSE Fresh(Here(k))

\* The call k of a run that executes its turn.
Ready(k) ==
    \/ Fresh(Here(k)) /\ (engine = "legacy" \/ ~Sensitive(calls[k].kind))
    \/ verdict[Here(k)] = "approve" /\ calls[k].args = asked[Here(k)]
    \/ verdict[Here(k)] = "edit" /\ calls[k].args[1] = "edited"
    \/ verdict[Here(k)] = "reject"

\* What is stored, and how far the turn is.
Placed ==
    /\ at \in {"prepare", "ask", "waiting", "tools"} => step < MaxSteps
    /\ at \in {"prepare", "ask", "waiting"} => saved = [step |-> step, calls |-> calls, done |-> done]
    /\ at \in {"prepare", "ask"} => engine # "legacy" /\ done = 0
    /\ at = "waiting" => IF engine = "legacy" THEN done < Len(calls) ELSE done = 0
    /\ at = "tools" => saved.step = step /\ saved.done \in Nat

\* What the user was shown and has ruled, for the calls that did not run yet.
Ahead ==
    /\ \A i \in Ids : i[1] > step => Fresh(i)
    /\ at \in {"reason", "prepare", "ask"} => \A i \in Ids : i[1] = step => Fresh(i)
    /\ at = "waiting" => \A k \in 1..Len(calls) : k > done => Waits(k)
    /\ at = "tools" => \A k \in 1..Len(calls) : k > done => Ready(k)
    /\ at = "tools" /\ engine = "legacy" =>
          \A k \in 1..Len(calls) : k > done + 1 => Fresh(Here(k))

\* Every effect belongs to a call that the run has passed.
Passed ==
    \A m \in 1..Len(effects) :
        LET i == effects[m].call
        IN i[1] < step \/ (i[1] = step /\ at # "reason" /\ i[2] <= done)

ReviewInv ==
    ReviewTypes /\ Placed /\ Ahead /\ Passed /\ ReviewDecides

=============================================================================
