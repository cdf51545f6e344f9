---------------------------- MODULE SessionProofs ----------------------------
(***************************************************************************)
(* What holds of the components a session meets, for every value of their   *)
(* constants: the review of tools, the desktop's kernels, the undoing of    *)
(* patches, the settings, the Git inspection, the calls of a provider.      *)
(* Each section shows an invariant of one component inductive; the last one *)
(* carries the results over to SumSpec, whose steps are steps or stutters   *)
(* of every component.                                                      *)
(***************************************************************************)
EXTENDS Components, FiniteSetTheorems, TLAPS

-----------------------------------------------------------------------------
(* ToolReview: any plans, any number of edits *)

\* No turn asks for more calls than the longest plan.
LEMMA ToolsWidthBound ==
    ASSUME Tools!PlansAreBounded
    PROVE  /\ Tools!Width \in Nat
           /\ \A p \in Plans : p \in Seq(STRING) /\ Len(p) \in Nat /\ Len(p) <= Tools!Width
<1>1. \A p \in Plans : p \in Seq(STRING) /\ Len(p) \in Nat
  BY DEF Tools!PlansAreBounded
<1>2. Tools!Width \in Tools!Widths /\ \A m \in Tools!Widths : m <= Tools!Width
  BY DEF Tools!PlansAreBounded, Tools!Width
<1> QED BY <1>1, <1>2 DEF Tools!Widths

\* Nothing was shown is not an argument.
LEMMA ToolsNothingIsNoArgs == Tools!Nothing \notin Tools!Args
<1>1. SUFFICES ASSUME Tools!Nothing \in {"raw", "prepared", "edited"} \X Nat PROVE FALSE
  BY DEF Tools!Args
<1>2. PICK a \in {"raw", "prepared", "edited"}, b \in Nat : Tools!Nothing = <<a, b>>
  BY <1>1
<1> QED BY <1>2 DEF Tools!Nothing

\* The calls of a turn before the last step have identifiers.
LEMMA ToolsIdShape ==
    ASSUME Tools!PlansAreBounded, step \in Nat \ {0}
    PROVE  /\ \A i \in Tools!Ids : i = <<i[1], i[2]>> /\ i[1] \in Nat /\ i[2] \in 1..Tools!Width
           /\ \A k \in 1..Tools!Width : step <= MaxSteps => Tools!Here(k) \in Tools!Ids
           /\ \A k : Tools!Here(k)[1] = step /\ Tools!Here(k)[2] = k
<1>1. Tools!Width \in Nat /\ MaxSteps \in Nat
  BY ToolsWidthBound DEF Tools!PlansAreBounded
<1> QED BY <1>1 DEF Tools!Ids, Tools!Here

\* Preparing or editing a call keeps its kind.
LEMMA ToolsCallShape ==
    ASSUME NEW c \in Tools!Call
    PROVE  /\ c.kind \in STRING /\ c.args \in Tools!Args
           /\ \A x \in Tools!Args : /\ [c EXCEPT !.args = x] \in Tools!Call
                                    /\ [c EXCEPT !.args = x].kind = c.kind
                                    /\ [c EXCEPT !.args = x].args = x
BY DEF Tools!Call

LEMMA ToolsPreparedShape ==
    ASSUME workspace \in Nat, NEW c \in Tools!Call
    PROVE  /\ Tools!Prepared(c) \in Tools!Call /\ Tools!Prepared(c).kind = c.kind
           /\ Tools!Edited(c) \in Tools!Call /\ Tools!Edited(c).kind = c.kind
              /\ Tools!Edited(c).args[1] = "edited"
<1>1. <<"prepared", workspace>> \in Tools!Args /\ <<"edited", workspace>> \in Tools!Args
  BY DEF Tools!Args
<1> QED BY <1>1, ToolsCallShape DEF Tools!Prepared, Tools!Edited

\* The members of a sequence, and of one with a member appended.
LEMMA ToolsSeqMember == ASSUME NEW S, NEW q \in Seq(S), NEW m \in 1..Len(q) PROVE q[m] \in S
OBVIOUS

LEMMA ToolsSeqAppend ==
    ASSUME NEW S, NEW q \in Seq(S), NEW x \in S
    PROVE  /\ Len(q) \in Nat
           /\ Len(Append(q, x)) = Len(q) + 1
           /\ \A m \in 1..Len(q) : Append(q, x)[m] = q[m]
           /\ Append(q, x)[Len(q) + 1] = x
           /\ Append(q, x) \in Seq(S)
OBVIOUS

\* The same calls with other arguments.
ToolsLike(ds, cs) ==
    /\ ds \in Seq(Tools!Call) /\ Len(ds) = Len(cs)
    /\ \A k \in 1..Len(cs) : ds[k].kind = cs[k].kind

LEMMA ToolsLikeTurn ==
    ASSUME NEW cs \in Seq(Tools!Call), NEW ds, ds = [k \in 1..Len(cs) |-> ds[k]],
           \A k \in 1..Len(cs) : ds[k] \in Tools!Call /\ ds[k].kind = cs[k].kind
    PROVE  ToolsLike(ds, cs)
BY DEF ToolsLike

\* An effect stays reviewed while what the user was shown and ruled about its
\* call stays, and its call does not become a sensitive one.
ToolsStays(i) ==
    /\ verdict'[i] = verdict[i] /\ asked'[i] = asked[i]
    /\ ~Tools!Sensitive(Tools!KindOf(i)) => ~Tools!Sensitive(Tools!KindOf(i)')

LEMMA ToolsEffectsStay ==
    ASSUME Tools!ReviewInv, effects' = effects,
           \A m \in 1..Len(effects) : ToolsStays(effects[m].call)
    PROVE  Tools!EffectsAreReviewed' /\ Tools!EffectsInOrder'
<1>1. Tools!EffectsInOrder'
  BY DEF Tools!ReviewInv, Tools!ReviewDecides, Tools!EffectsInOrder
<1>2. ASSUME NEW m \in 1..Len(effects)
      PROVE  LET e == effects[m] IN
             \/ verdict'[e.call] = "approve" /\ e.args = asked'[e.call]
             \/ verdict'[e.call] = "edit" /\ e.args[1] = "edited"
             \/ verdict'[e.call] = "none" /\ asked'[e.call] = Tools!Nothing
                /\ ~Tools!Sensitive(Tools!KindOf(e.call)')
  <2>1. PICK e : e = effects[m]
    OBVIOUS
  <2>2. \/ verdict[e.call] = "approve" /\ e.args = asked[e.call]
        \/ verdict[e.call] = "edit" /\ e.args[1] = "edited"
        \/ verdict[e.call] = "none" /\ asked[e.call] = Tools!Nothing
           /\ ~Tools!Sensitive(Tools!KindOf(e.call))
    BY <2>1 DEF Tools!ReviewInv, Tools!ReviewDecides, Tools!EffectsAreReviewed
  <2>3. ToolsStays(e.call)
    BY <2>1
  <2>4. \/ verdict'[e.call] = "approve" /\ e.args = asked'[e.call]
        \/ verdict'[e.call] = "edit" /\ e.args[1] = "edited"
        \/ verdict'[e.call] = "none" /\ asked'[e.call] = Tools!Nothing
           /\ ~Tools!Sensitive(Tools!KindOf(e.call)')
    BY <2>2, <2>3 DEF ToolsStays
  <2> QED BY <2>1, <2>4
<1>3. Tools!EffectsAreReviewed'
  <2> SUFFICES ASSUME NEW e \in {effects'[m] : m \in 1..Len(effects')}
               PROVE  \/ verdict'[e.call] = "approve" /\ e.args = asked'[e.call]
                      \/ verdict'[e.call] = "edit" /\ e.args[1] = "edited"
                      \/ verdict'[e.call] = "none" /\ asked'[e.call] = Tools!Nothing
                         /\ ~Tools!Sensitive(Tools!KindOf(e.call)')
    BY DEF Tools!EffectsAreReviewed, Tools!KindOf
  <2>1. PICK m \in 1..Len(effects) : e = effects[m]
    OBVIOUS
  <2> QED BY <1>2, <2>1
<1> QED BY <1>1, <1>3

\* Where the effects of a run belong.
LEMMA ToolsEffectPlaces ==
    ASSUME Tools!PlansAreBounded, Tools!ReviewInv, NEW m \in 1..Len(effects)
    PROVE  LET i == effects[m].call IN
           /\ i \in Tools!Ids /\ i[1] \in Nat /\ i[2] \in 1..Tools!Width /\ step \in Nat
           /\ i[1] < step \/ (i[1] = step /\ tools_at # "reason" /\ i[2] <= done
              /\ i[2] \in 1..Len(calls))
<1>1. effects[m].call \in Tools!Ids
  <2>1. effects[m] \in [call : Tools!Ids, args : Tools!Args]
    BY ToolsSeqMember DEF Tools!ReviewInv, Tools!ReviewTypes
  <2> QED BY <2>1
<1>2. done \in 0..Len(calls) /\ step \in Nat /\ Len(calls) \in Nat
  BY DEF Tools!ReviewInv, Tools!ReviewTypes
<1> QED BY <1>1, <1>2, ToolsIdShape DEF Tools!ReviewInv, Tools!ReviewTypes, Tools!Passed

\* A step that leaves the user's part alone and keeps the kinds of the calls the
\* run has passed, or goes on to the next step of the run.
LEMMA ToolsUserStays ==
    ASSUME Tools!PlansAreBounded, Tools!ReviewInv, UNCHANGED <<asked, verdict, effects>>,
           \/ tools_at = "reason" /\ step' = step
           \/ step' = step /\ \A k \in 1..Len(calls) : k <= done => calls'[k].kind = calls[k].kind
           \/ step' = step + 1
    PROVE  Tools!EffectsAreReviewed' /\ Tools!EffectsInOrder'
<1>1. ASSUME NEW m \in 1..Len(effects) PROVE ToolsStays(effects[m].call)
  <2>1. PICK i : i = effects[m].call
    OBVIOUS
  <2>2. /\ i[1] \in Nat /\ step \in Nat
        /\ i[1] < step \/ (i[1] = step /\ tools_at # "reason" /\ i[2] <= done
           /\ i[2] \in 1..Len(calls))
    BY <2>1, ToolsEffectPlaces
  <2>3. Tools!KindOf(i)' = IF i[1] = step' THEN calls'[i[2]].kind ELSE "earlier"
    BY DEF Tools!KindOf
  <2>4. ~Tools!Sensitive(Tools!KindOf(i)) => ~Tools!Sensitive(Tools!KindOf(i)')
    BY <2>2, <2>3 DEF Tools!KindOf, Tools!Sensitive
  <2>5. ToolsStays(i)
    BY <2>4 DEF ToolsStays
  <2> QED BY <2>1, <2>5
<1> QED BY <1>1, ToolsEffectsStay

\* A question or a decision about the calls ahead of the run.
LEMMA ToolsAheadStays ==
    ASSUME Tools!PlansAreBounded, Tools!ReviewInv, effects' = effects, step' = step
           \/ step' = step + 1,
           step' = step => \A k \in 1..Len(calls) : k <= done => calls'[k].kind = calls[k].kind,
           \A i \in Tools!Ids : i[1] # step \/ i[2] <= done => verdict'[i] = verdict[i]
               /\ asked'[i] = asked[i]
    PROVE  Tools!EffectsAreReviewed' /\ Tools!EffectsInOrder'
<1>1. ASSUME NEW m \in 1..Len(effects) PROVE ToolsStays(effects[m].call)
  <2>1. PICK i : i = effects[m].call
    OBVIOUS
  <2>2. /\ i \in Tools!Ids /\ i[1] \in Nat /\ step \in Nat
        /\ i[1] < step \/ (i[1] = step /\ tools_at # "reason" /\ i[2] <= done
           /\ i[2] \in 1..Len(calls))
    BY <2>1, ToolsEffectPlaces
  <2>3. Tools!KindOf(i)' = IF i[1] = step' THEN calls'[i[2]].kind ELSE "earlier"
    BY DEF Tools!KindOf
  <2>4. ~Tools!Sensitive(Tools!KindOf(i)) => ~Tools!Sensitive(Tools!KindOf(i)')
    BY <2>2, <2>3 DEF Tools!KindOf, Tools!Sensitive
  <2>5. i[1] # step \/ i[2] <= done
    BY <2>2
  <2>6. ToolsStays(i)
    BY <2>2, <2>4, <2>5 DEF ToolsStays
  <2> QED BY <2>1, <2>6
<1> QED BY <1>1, ToolsEffectsStay

-----------------------------------------------------------------------------
\* A run that begins has asked for nothing.
LEMMA ToolsInitInv == ASSUME Tools!PlansAreBounded, Tools!Init PROVE Tools!ReviewInv
<1>1. Tools!Width \in Nat
  BY ToolsWidthBound
<1>2. Tools!ReviewTypes
  BY <1>1 DEF Tools!Init, Tools!ReviewTypes, Tools!Ended
<1>3. Tools!Placed /\ Tools!Passed /\ Tools!ReviewDecides
  BY DEF Tools!Init, Tools!Placed, Tools!Passed, Tools!ReviewDecides, Tools!EffectsAreReviewed,
     Tools!EffectsInOrder, Tools!TranscriptIsWhole
<1>4. Tools!Ahead
  BY DEF Tools!Init, Tools!Ahead, Tools!Fresh
<1> QED BY <1>2, <1>3, <1>4 DEF Tools!ReviewInv

\* A new turn: none of its calls was shown or decided.
LEMMA ToolsReasonStep == ASSUME Tools!PlansAreBounded, Tools!ReviewInv, Tools!Reason
                                PROVE Tools!ReviewInv'
<1>u. /\ tools_at = "reason" /\ step' = step /\ UNCHANGED <<engine, effects, workspace, asked,
                                                            verdict>>
  BY DEF Tools!Reason, Tools!frame, Tools!user
<1>0. /\ step \in Nat \ {0} /\ done = Len(calls) /\ Len(calls) \in Nat
      /\ \A i \in Tools!Ids : i[1] >= step => Tools!Fresh(i)
  <2>1. \A i \in Tools!Ids : i[1] \in Nat /\ step \in Nat \ {0}
    BY ToolsIdShape DEF Tools!ReviewInv, Tools!ReviewTypes
  <2> QED BY <1>u, <2>1 DEF Tools!ReviewInv, Tools!ReviewTypes, Tools!ReviewDecides,
      Tools!TranscriptIsWhole, Tools!Ahead
<1>1. Tools!EffectsAreReviewed' /\ Tools!EffectsInOrder'
  BY <1>u, ToolsUserStays
<1>2. CASE tools_at' \in Tools!Ended /\ UNCHANGED <<calls, done, saved>>
  <2>1. Tools!ReviewTypes'
    BY <1>u, <1>2 DEF Tools!ReviewInv, Tools!ReviewTypes, Tools!Ended
  <2>2. Tools!Placed' /\ Tools!TranscriptIsWhole'
    BY <1>u, <1>2 DEF Tools!Placed, Tools!TranscriptIsWhole, Tools!Ended
  <2>3. Tools!Ahead'
    BY <1>u, <1>2 DEF Tools!ReviewInv, Tools!Ahead, Tools!Ended, Tools!Fresh
  <2>4. Tools!Passed'
    BY <1>u, <1>2 DEF Tools!ReviewInv, Tools!Passed, Tools!Ended
  <2> QED BY <1>1, <2>1, <2>2, <2>3, <2>4 DEF Tools!ReviewInv, Tools!ReviewDecides
<1>3. ASSUME NEW p \in Plans, NEW turn, step < MaxSteps,
             turn = [k \in 1..Len(p) |-> [kind |-> p[k], args |-> <<"raw", 0>>]],
             calls' = turn, done' = 0, Tools!Save(turn, 0),
             tools_at' = IF engine = "legacy" \/ Tools!Indices(turn) = {} THEN "tools"
                   ELSE IF engine = "graph" THEN "prepare" ELSE "ask"
      PROVE  Tools!ReviewInv'
  <2>1. turn \in Seq(Tools!Call) /\ Len(turn) = Len(p) /\ Len(p) \in Nat /\ Len(p) <= Tools!Width
    <3>1. p \in Seq(STRING) /\ Len(p) \in Nat /\ Len(p) <= Tools!Width
      BY ToolsWidthBound
    <3>2. \A k \in 1..Len(p) : [kind |-> p[k], args |-> <<"raw", 0>>] \in Tools!Call
      BY <3>1 DEF Tools!Call, Tools!Args
    <3> QED BY <1>3, <3>1, <3>2
  <2>2. tools_at' \in {"tools", "prepare", "ask"}
    BY <1>3
  <2>3. Tools!ReviewTypes'
    BY <1>u, <1>3, <2>1, <2>2 DEF Tools!ReviewInv, Tools!ReviewTypes
  <2>4. Tools!Placed' /\ Tools!TranscriptIsWhole'
    <3>1. engine \in {"graph", "deep", "legacy"}
      BY DEF Tools!ReviewInv, Tools!ReviewTypes
    <3>2. tools_at' \in {"prepare", "ask"} => engine # "legacy"
      BY <1>3
    <3>3. saved' = [step |-> step, calls |-> turn, done |-> 0]
      BY <1>3 DEF Tools!Save
    <3> QED BY <1>u, <1>3, <2>2, <3>2, <3>3 DEF Tools!Placed, Tools!TranscriptIsWhole
  <2>5. Tools!Ahead'
    <3>1. \A i \in Tools!Ids : i[1] >= step => Tools!Fresh(i)'
      BY <1>u, <1>0 DEF Tools!Fresh
    <3>2. \A i \in Tools!Ids : i[1] \in Nat
      BY <1>0, ToolsIdShape
    <3>3. ASSUME tools_at' = "tools", NEW k \in 1..Len(turn) PROVE Tools!Ready(k)'
                 /\ Tools!Fresh(Tools!Here(k))'
      <4>1. Tools!Here(k)' \in Tools!Ids /\ Tools!Here(k)' = Tools!Here(k)
            /\ Tools!Here(k)[1] = step
        BY <1>0, <1>u, <1>3, <2>1, ToolsIdShape, ToolsWidthBound DEF Tools!Here,
           Tools!PlansAreBounded
      <4>2. Tools!Fresh(Tools!Here(k))'
        BY <1>0, <3>1, <4>1 DEF Tools!Fresh
      <4>3. engine = "legacy" \/ ~Tools!Sensitive(turn[k].kind)
        BY <1>3, <3>3 DEF Tools!Indices
      <4> QED BY <1>u, <1>3, <4>2, <4>3 DEF Tools!Ready
    <3> QED BY <1>u, <1>0, <1>3, <2>1, <2>2, <3>1, <3>2, <3>3 DEF Tools!Ahead
  <2>6. Tools!Passed'
    <3>1. \A m \in 1..Len(effects) : effects[m].call[1] < step
      BY <1>u DEF Tools!ReviewInv, Tools!Passed
    <3> QED BY <1>u, <3>1 DEF Tools!Passed
  <2> QED BY <1>1, <2>3, <2>4, <2>5, <2>6 DEF Tools!ReviewInv, Tools!ReviewDecides
<1> QED BY <1>2, <1>3 DEF Tools!Reason, Tools!Ended, Tools!frame

\* The stored calls get the arguments that the user will be asked about.
LEMMA ToolsPrepareStep == ASSUME Tools!PlansAreBounded, Tools!ReviewInv, Tools!Prepare
                                 PROVE Tools!ReviewInv'
<1>u. /\ tools_at = "prepare" /\ tools_at' = "ask" /\ calls' = Tools!All(Tools!Prepared, calls)
         /\ Tools!Save(Tools!All(Tools!Prepared, calls), 0)
      /\ UNCHANGED <<engine, step, done, effects, workspace, asked, verdict>>
  BY DEF Tools!Prepare, Tools!user
<1>0. /\ calls \in Seq(Tools!Call) /\ Len(calls) \in Nat /\ workspace \in Nat
         /\ engine # "legacy" /\ done = 0
      /\ step < MaxSteps
  BY <1>u DEF Tools!ReviewInv, Tools!ReviewTypes, Tools!Placed
<1>a. ToolsLike(calls', calls)
  <2>1. calls' = [k \in 1..Len(calls) |-> Tools!Prepared(calls[k])]
    BY <1>u DEF Tools!All
  <2>2. \A k \in 1..Len(calls) : calls[k] \in Tools!Call
    BY <1>0
  <2>3. \A k \in 1..Len(calls) : calls'[k] \in Tools!Call /\ calls'[k].kind = calls[k].kind
    BY <1>0, <2>1, <2>2, ToolsPreparedShape
  <2>4. calls' = [k \in 1..Len(calls) |-> calls'[k]]
    BY <2>1
  <2> QED BY <1>0, <2>3, <2>4, ToolsLikeTurn
<1>1. Tools!EffectsAreReviewed' /\ Tools!EffectsInOrder'
  BY <1>u, <1>a, ToolsUserStays DEF ToolsLike
<1>2. Tools!ReviewTypes'
  BY <1>u, <1>a DEF Tools!ReviewInv, Tools!ReviewTypes, ToolsLike
<1>3. Tools!Placed' /\ Tools!TranscriptIsWhole'
  BY <1>u, <1>0 DEF Tools!Placed, Tools!TranscriptIsWhole, Tools!Save
<1>4. Tools!Ahead'
  BY <1>u DEF Tools!ReviewInv, Tools!Ahead, Tools!Fresh
<1>5. Tools!Passed'
  BY <1>u DEF Tools!ReviewInv, Tools!Passed
<1> QED BY <1>1, <1>2, <1>3, <1>4, <1>5 DEF Tools!ReviewInv, Tools!ReviewDecides

\* What a run that asks has stored, and about which calls.
LEMMA ToolsAskFacts ==
    ASSUME Tools!PlansAreBounded, Tools!ReviewInv, tools_at \in {"ask", "waiting", "tools"}
    PROVE  /\ calls \in Seq(Tools!Call) /\ Len(calls) \in Nat /\ Len(calls) <= Tools!Width
              /\ workspace \in Nat
           /\ step \in Nat \ {0} /\ step < MaxSteps /\ done \in 0..Len(calls)
           /\ \A k \in 1..Len(calls) : Tools!Here(k) \in Tools!Ids /\ calls[k] \in Tools!Call
           /\ Tools!Width \in Nat /\ MaxSteps \in Nat
<1>1. /\ calls \in Seq(Tools!Call) /\ Len(calls) \in Nat /\ Len(calls) <= Tools!Width
         /\ workspace \in Nat
      /\ step \in Nat \ {0} /\ step < MaxSteps /\ done \in 0..Len(calls)
  BY DEF Tools!ReviewInv, Tools!ReviewTypes, Tools!Placed
<1>2. Tools!Width \in Nat /\ MaxSteps \in Nat
  BY ToolsWidthBound DEF Tools!PlansAreBounded
<1>3. \A k \in 1..Len(calls) : Tools!Here(k) \in Tools!Ids /\ calls[k] \in Tools!Call
  BY <1>1, <1>2, ToolsIdShape
<1> QED BY <1>1, <1>2, <1>3

\* The questions of the graph and of the deep runtime, about cs: every sensitive
\* call of the turn is shown.
LEMMA ToolsAskStep ==
    ASSUME Tools!PlansAreBounded, Tools!ReviewInv, tools_at = "ask", tools_at' = "waiting",
           NEW cs, ToolsLike(cs, calls),
           Tools!Show(cs, Tools!Indices(calls)), engine = "deep" \/ cs = calls,
           UNCHANGED <<engine, saved, verdict, effects, workspace, step, calls, done>>
    PROVE  Tools!ReviewInv'
<1>0. /\ calls \in Seq(Tools!Call) /\ Len(calls) \in Nat /\ Len(calls) <= Tools!Width
         /\ workspace \in Nat
      /\ step \in Nat \ {0} /\ step < MaxSteps /\ done \in 0..Len(calls)
      /\ \A k \in 1..Len(calls) : Tools!Here(k) \in Tools!Ids /\ calls[k] \in Tools!Call
  BY ToolsAskFacts
<1>a. done = 0 /\ engine # "legacy" /\ \A i \in Tools!Ids : i[1] = step => Tools!Fresh(i)
  BY DEF Tools!ReviewInv, Tools!Placed, Tools!Ahead
<1>b. \A i \in Tools!Ids : asked'[i] = IF i[1] = step
      /\ i[2] \in Tools!Indices(calls) THEN cs[i[2]].args ELSE asked[i]
  BY DEF Tools!Show
<1>c. \A k \in 1..Len(calls) : cs[k] \in Tools!Call /\ cs[k].args \in Tools!Args
  BY <1>0, ToolsCallShape DEF ToolsLike
<1>d. \A i \in Tools!Ids : i[1] \in Nat /\ i[2] \in 1..Tools!Width
  BY <1>0, ToolsIdShape
<1>1. Tools!EffectsAreReviewed' /\ Tools!EffectsInOrder'
  <2>1. \A i \in Tools!Ids : i[1] # step \/ i[2] <= done => asked'[i] = asked[i]
    BY <1>a, <1>b, <1>d
  <2> QED BY <2>1, ToolsAheadStays
<1>2. Tools!ReviewTypes'
  <2>1. asked' \in [Tools!Ids -> Tools!Args \cup {Tools!Nothing}]
    <3>1. \A i \in Tools!Ids : asked'[i] \in Tools!Args \cup {Tools!Nothing}
      BY <1>b, <1>c DEF Tools!ReviewInv, Tools!ReviewTypes, Tools!Indices
    <3>2. asked' = [i \in Tools!Ids |-> asked'[i]]
      BY DEF Tools!Show
    <3> QED BY <3>1, <3>2
  <2> QED BY <2>1 DEF Tools!ReviewInv, Tools!ReviewTypes
<1>3. Tools!Placed' /\ Tools!TranscriptIsWhole'
  BY <1>a DEF Tools!ReviewInv, Tools!Placed, Tools!TranscriptIsWhole
<1>4. Tools!Ahead'
  <2>1. \A i \in Tools!Ids : i[1] > step => Tools!Fresh(i)'
    BY <1>b, <1>d, <1>0 DEF Tools!ReviewInv, Tools!Ahead, Tools!Fresh
  <2>2. ASSUME NEW k \in 1..Len(calls) PROVE Tools!Waits(k)'
    <3>1. PICK i \in Tools!Ids : i = Tools!Here(k) /\ i[1] = step /\ i[2] = k
      BY <1>0, ToolsIdShape
    <3>2. Tools!Here(k)' = i
      BY <3>1 DEF Tools!Here
    <3>3. Tools!Fresh(i)
      BY <1>a, <3>1
    <3>4. k \in Tools!Indices(calls) <=> Tools!Sensitive(calls[k].kind)
      BY DEF Tools!Indices
    <3>5. Tools!Sensitive(calls[k].kind) => asked'[i] = cs[k].args /\ cs[k].args \in Tools!Args
      BY <1>b, <1>c, <3>1, <3>4
    <3>6. ~Tools!Sensitive(calls[k].kind) => asked'[i] = Tools!Nothing
      BY <1>b, <3>1, <3>3, <3>4 DEF Tools!Fresh
    <3>7. Tools!Due(k)' <=> Tools!Sensitive(calls[k].kind)
      BY <1>a DEF Tools!Due, Tools!Sensitive
    <3>8. verdict'[i] = "none"
      BY <3>3 DEF Tools!Fresh
    <3>9. engine' # "deep" => cs = calls
      OBVIOUS
    <3> QED BY <3>2, <3>5, <3>6, <3>7, <3>8, <3>9 DEF Tools!Waits, Tools!Fresh
  <2> QED BY <2>1, <2>2 DEF Tools!Ahead
<1>5. Tools!Passed'
  BY DEF Tools!ReviewInv, Tools!Passed
<1> QED BY <1>1, <1>2, <1>3, <1>4, <1>5 DEF Tools!ReviewInv, Tools!ReviewDecides

\* The graph shows what is stored, the deep runtime a prepared copy.
LEMMA ToolsAskNodeStep == ASSUME Tools!PlansAreBounded, Tools!ReviewInv, Tools!AskGraph
                                 \/ Tools!AskDeep PROVE Tools!ReviewInv'
<1>1. CASE Tools!AskGraph
  <2>1. tools_at = "ask" /\ tools_at' = "waiting" /\ Tools!Show(calls, Tools!Indices(calls))
        /\ ToolsLike(calls, calls)
    BY <1>1, ToolsAskFacts DEF Tools!AskGraph, ToolsLike
  <2>2. UNCHANGED <<engine, saved, verdict, effects, workspace, step, calls, done>>
    BY <1>1 DEF Tools!AskGraph, Tools!frame
  <2> QED BY <2>1, <2>2, ToolsAskStep
<1>2. CASE Tools!AskDeep
  <2>1. PICK cs : cs = Tools!All(Tools!Prepared, calls)
    OBVIOUS
  <2>2. tools_at = "ask" /\ tools_at' = "waiting" /\ engine = "deep" /\ Tools!Show(cs,
        Tools!Indices(calls))
    BY <1>2, <2>1 DEF Tools!AskDeep
  <2>3. UNCHANGED <<engine, saved, verdict, effects, workspace, step, calls, done>>
    BY <1>2 DEF Tools!AskDeep, Tools!frame
  <2>4. cs = [k \in 1..Len(calls) |-> Tools!Prepared(calls[k])]
    BY <2>1 DEF Tools!All
  <2>5. \A k \in 1..Len(calls) : cs[k] \in Tools!Call /\ cs[k].kind = calls[k].kind
    BY <2>2, <2>4, ToolsAskFacts, ToolsPreparedShape
  <2>6. cs = [k \in 1..Len(calls) |-> cs[k]] /\ calls \in Seq(Tools!Call)
    BY <2>2, <2>4, ToolsAskFacts
  <2>7. ToolsLike(cs, calls)
    BY <2>5, <2>6, ToolsLikeTurn
  <2> QED BY <2>2, <2>3, <2>7, ToolsAskStep
<1> QED BY <1>1, <1>2

\* The reviewed loop stops at one call, whose prepared arguments replace the raw
\* ones in the frame that is stored and in the question.
LEMMA ToolsAskLegacyStep == ASSUME Tools!PlansAreBounded, Tools!ReviewInv, Tools!AskLegacy
                                   PROVE Tools!ReviewInv'
<1> DEFINE n == done + 1
<1>u. /\ tools_at = "tools" /\ engine = "legacy" /\ done < Len(calls) /\ tools_at' = "waiting"
      /\ verdict[Tools!Here(n)] = "none"
      /\ UNCHANGED <<engine, step, done, verdict, effects, workspace>>
      /\ calls' = [calls EXCEPT ![n] = Tools!Prepared(calls[n])]
      /\ Tools!Save(calls', done) /\ Tools!Show(calls', {n})
  BY DEF Tools!AskLegacy, Tools!Current
<1>0. /\ calls \in Seq(Tools!Call) /\ Len(calls) \in Nat /\ Len(calls) <= Tools!Width
         /\ workspace \in Nat
      /\ step \in Nat \ {0} /\ step < MaxSteps /\ done \in 0..Len(calls)
      /\ \A k \in 1..Len(calls) : Tools!Here(k) \in Tools!Ids /\ calls[k] \in Tools!Call
  BY <1>u, ToolsAskFacts
<1>n. n \in 1..Len(calls) /\ n > done /\ calls[n] \in Tools!Call
  BY <1>u, <1>0
<1>p. Tools!Prepared(calls[n]) \in Tools!Call /\ Tools!Prepared(calls[n]).kind = calls[n].kind
  BY <1>0, <1>n, ToolsPreparedShape
<1>a. ToolsLike(calls', calls)
  <2>1. calls' \in Seq(Tools!Call) /\ Len(calls') = Len(calls)
    BY <1>u, <1>0, <1>n, <1>p
  <2>2. \A k \in 1..Len(calls) : calls'[k].kind = calls[k].kind
    BY <1>u, <1>0, <1>n, <1>p
  <2> QED BY <2>1, <2>2 DEF ToolsLike
<1>b. \A i \in Tools!Ids : asked'[i] = IF i[1] = step /\ i[2] = n THEN calls'[n].args ELSE asked[i]
  BY <1>u DEF Tools!Show
<1>c. calls'[n] \in Tools!Call /\ calls'[n].args \in Tools!Args
  BY <1>a, <1>n, ToolsCallShape DEF ToolsLike
<1>d. \A i \in Tools!Ids : i[1] \in Nat /\ i[2] \in 1..Tools!Width
  BY <1>0, ToolsIdShape
<1>f. \A k \in 1..Len(calls) : k > done + 1 => Tools!Fresh(Tools!Here(k))
  BY <1>u DEF Tools!ReviewInv, Tools!Ahead
<1>1. Tools!EffectsAreReviewed' /\ Tools!EffectsInOrder'
  <2>1. \A i \in Tools!Ids : i[1] # step \/ i[2] <= done => asked'[i] = asked[i]
    BY <1>0, <1>b, <1>d
  <2> QED BY <1>u, <1>a, <2>1, ToolsAheadStays DEF ToolsLike
<1>2. Tools!ReviewTypes'
  <2>1. asked' \in [Tools!Ids -> Tools!Args \cup {Tools!Nothing}]
    <3>1. \A i \in Tools!Ids : asked'[i] \in Tools!Args \cup {Tools!Nothing}
      BY <1>b, <1>c DEF Tools!ReviewInv, Tools!ReviewTypes
    <3>2. asked' = [i \in Tools!Ids |-> asked'[i]]
      BY <1>u DEF Tools!Show
    <3> QED BY <3>1, <3>2
  <2> QED BY <1>u, <1>a, <2>1 DEF Tools!ReviewInv, Tools!ReviewTypes, ToolsLike
<1>3. Tools!Placed' /\ Tools!TranscriptIsWhole'
  BY <1>u, <1>0, <1>a DEF Tools!Placed, Tools!TranscriptIsWhole, Tools!Save, ToolsLike
<1>4. Tools!Ahead'
  <2>1. \A i \in Tools!Ids : i[1] > step => Tools!Fresh(i)'
    BY <1>u, <1>b, <1>d, <1>0 DEF Tools!ReviewInv, Tools!Ahead, Tools!Fresh
  <2>2. ASSUME NEW k \in 1..Len(calls), k > done PROVE Tools!Waits(k)'
    <3>1. PICK i \in Tools!Ids : i = Tools!Here(k) /\ i[1] = step /\ i[2] = k
      BY <1>0, ToolsIdShape
    <3>2. Tools!Here(k)' = i
      BY <1>u, <3>1 DEF Tools!Here
    <3>3. Tools!Due(k)' <=> k = n
      BY <1>u DEF Tools!Due
    <3>4. CASE k = n
      <4>1. verdict'[i] = "none" /\ asked'[i] = calls'[k].args /\ calls'[k].args \in Tools!Args
        BY <1>u, <1>b, <1>c, <3>1, <3>4
      <4> QED BY <3>2, <3>3, <3>4, <4>1 DEF Tools!Waits
    <3>5. CASE k # n
      <4>1. Tools!Fresh(i)
        BY <1>0, <1>u, <1>f, <2>2, <3>1, <3>5
      <4>2. Tools!Fresh(i)'
        BY <1>u, <1>b, <3>1, <3>5, <4>1 DEF Tools!Fresh
      <4>3. verdict'[i] = "none"
        BY <4>2 DEF Tools!Fresh
      <4> QED BY <3>2, <3>3, <3>5, <4>2, <4>3 DEF Tools!Waits, Tools!Fresh
    <3> QED BY <3>4, <3>5
  <2> QED BY <1>u, <1>a, <2>1, <2>2 DEF Tools!Ahead, ToolsLike
<1>5. Tools!Passed'
  BY <1>u DEF Tools!ReviewInv, Tools!Passed
<1> QED BY <1>1, <1>2, <1>3, <1>4, <1>5 DEF Tools!ReviewInv, Tools!ReviewDecides

-----------------------------------------------------------------------------
(* The decision *)

\* A run that waits has stored what it is about.
LEMMA ToolsWaitFacts ==
    ASSUME Tools!PlansAreBounded, Tools!ReviewInv, tools_at = "waiting"
    PROVE  /\ calls \in Seq(Tools!Call) /\ Len(calls) \in Nat /\ Len(calls) <= Tools!Width
              /\ workspace \in Nat
           /\ step \in Nat \ {0} /\ step < MaxSteps /\ done \in 0..Len(calls)
           /\ \A k \in 1..Len(calls) : Tools!Here(k) \in Tools!Ids /\ calls[k] \in Tools!Call
           /\ saved.step = step /\ saved.calls = calls /\ saved.done = done
           /\ IF engine = "legacy" THEN done < Len(calls) ELSE done = 0
           /\ \A k \in 1..Len(calls) : k > done => Tools!Waits(k)
           /\ engine \in {"graph", "deep", "legacy"}
<1>1. saved = [step |-> step, calls |-> calls, done |-> done]
  BY DEF Tools!ReviewInv, Tools!Placed
<1>2. saved.step = step /\ saved.calls = calls /\ saved.done = done
  BY <1>1
<1> QED BY <1>2, ToolsAskFacts DEF Tools!ReviewInv, Tools!ReviewTypes, Tools!Placed, Tools!Ahead

\* The run goes on with its calls, as decided about those in ks.
LEMMA ToolsDecideStep ==
    ASSUME Tools!PlansAreBounded, Tools!ReviewInv, tools_at = "waiting", tools_at' = "tools",
           step' = step, done' = done,
           UNCHANGED <<engine, saved, asked, effects, workspace>>,
           ToolsLike(calls', calls), NEW ks, NEW action \in {"approve", "edit", "reject"},
           Tools!Rule(ks, action), \A k \in 1..Len(calls) : k \in ks => k > done,
           \A k \in 1..Len(calls) : k > done => (k \in ks <=> Tools!Due(k)),
           action = "approve" => \A k \in ks : k \in 1..Len(calls)
               => calls'[k].args = asked[Tools!Here(k)],
           action = "edit" => \A k \in ks : k \in 1..Len(calls) => calls'[k].args[1] = "edited",
           ks \subseteq 1..Len(calls)
    PROVE  Tools!ReviewInv'
<1>0. /\ calls \in Seq(Tools!Call) /\ Len(calls) \in Nat /\ Len(calls) <= Tools!Width
         /\ workspace \in Nat
      /\ step \in Nat \ {0} /\ step < MaxSteps /\ done \in 0..Len(calls)
      /\ \A k \in 1..Len(calls) : Tools!Here(k) \in Tools!Ids /\ calls[k] \in Tools!Call
      /\ saved.step = step /\ saved.done = done
      /\ \A k \in 1..Len(calls) : k > done => Tools!Waits(k)
  BY ToolsWaitFacts
<1>b. \A i \in Tools!Ids : verdict'[i] = IF i[1] = step /\ i[2] \in ks THEN action ELSE verdict[i]
  BY DEF Tools!Rule
<1>d. \A i \in Tools!Ids : i[1] \in Nat /\ i[2] \in 1..Tools!Width
  BY <1>0, ToolsIdShape
<1>1. Tools!EffectsAreReviewed' /\ Tools!EffectsInOrder'
  <2>1. \A i \in Tools!Ids : i[1] # step \/ i[2] <= done => verdict'[i] = verdict[i]
    BY <1>0, <1>b, <1>d
  <2> QED BY <2>1, ToolsAheadStays DEF ToolsLike
<1>2. Tools!ReviewTypes'
  <2>1. verdict' \in [Tools!Ids -> {"none", "approve", "edit", "reject"}]
    <3>1. \A i \in Tools!Ids : verdict'[i] \in {"none", "approve", "edit", "reject"}
      BY <1>b DEF Tools!ReviewInv, Tools!ReviewTypes
    <3>2. verdict' = [i \in Tools!Ids |-> verdict'[i]]
      BY DEF Tools!Rule
    <3> QED BY <3>1, <3>2
  <2> QED BY <1>0, <2>1 DEF Tools!ReviewInv, Tools!ReviewTypes, ToolsLike
<1>3. Tools!Placed' /\ Tools!TranscriptIsWhole'
  BY <1>0 DEF Tools!Placed, Tools!TranscriptIsWhole
<1>4. Tools!Ahead'
  <2>1. \A i \in Tools!Ids : i[1] > step => Tools!Fresh(i)'
    BY <1>b, <1>d, <1>0 DEF Tools!ReviewInv, Tools!Ahead, Tools!Fresh
  <2>2. ASSUME NEW k \in 1..Len(calls), k > done, Tools!Due(k) PROVE Tools!Ready(k)'
    <3>1. PICK i \in Tools!Ids : i = Tools!Here(k) /\ i[1] = step /\ i[2] = k
      BY <1>0, ToolsIdShape
    <3>2. Tools!Here(k)' = i
      BY <3>1 DEF Tools!Here
    <3>3. k \in ks /\ verdict'[i] = action
      BY <1>b, <2>2, <3>1
    <3>4. action = "approve" => calls'[k].args = asked'[i]
      BY <3>1, <3>3
    <3>5. action = "edit" => calls'[k].args[1] = "edited"
      BY <3>3
    <3> QED BY <3>2, <3>3, <3>4, <3>5 DEF Tools!Ready
  <2>3. ASSUME NEW k \in 1..Len(calls), k > done, ~Tools!Due(k) PROVE Tools!Fresh(Tools!Here(k))'
    <3>1. PICK i \in Tools!Ids : i = Tools!Here(k) /\ i[1] = step /\ i[2] = k
      BY <1>0, ToolsIdShape
    <3>2. Tools!Here(k)' = i
      BY <3>1 DEF Tools!Here
    <3>3. Tools!Fresh(i)
      BY <1>0, <2>3, <3>1 DEF Tools!Waits
    <3> QED BY <1>b, <2>3, <3>1, <3>2, <3>3 DEF Tools!Fresh
  <2>4. ASSUME NEW k \in 1..Len(calls), k > done PROVE Tools!Ready(k)'
    <3>1. CASE Tools!Due(k)
      BY <2>2, <2>4, <3>1
    <3>2. CASE ~Tools!Due(k)
      <4>1. Tools!Fresh(Tools!Here(k))'
        BY <2>3, <2>4, <3>2
      <4>2. engine = "legacy" \/ ~Tools!Sensitive(calls[k].kind)
        BY <3>2 DEF Tools!Due
      <4>3. calls'[k].kind = calls[k].kind
        BY DEF ToolsLike
      <4> QED BY <4>1, <4>2, <4>3 DEF Tools!Ready, Tools!Sensitive
    <3> QED BY <3>1, <3>2
  <2>5. engine = "legacy" => \A k \in 1..Len(calls) : k > done + 1 => Tools!Fresh(Tools!Here(k))'
    BY <1>0, <2>3 DEF Tools!Due
  <2> QED BY <2>1, <2>4, <2>5 DEF Tools!Ahead, ToolsLike
<1>5. Tools!Passed'
  BY DEF Tools!ReviewInv, Tools!Passed
<1> QED BY <1>1, <1>2, <1>3, <1>4, <1>5 DEF Tools!ReviewInv, Tools!ReviewDecides

\* An edit of some of the stored calls leaves calls of the same kinds.
LEMMA ToolsEditedTurn ==
    ASSUME workspace \in Nat, NEW cs \in Seq(Tools!Call), NEW ds, NEW ks,
           ds = [k \in 1..Len(cs) |-> IF k \in ks THEN Tools!Edited(cs[k]) ELSE cs[k]]
    PROVE  ToolsLike(ds, cs) /\ \A k \in ks : k \in 1..Len(cs) => ds[k].args[1] = "edited"
<1>1. \A k \in 1..Len(cs) : cs[k] \in Tools!Call
  OBVIOUS
<1>2. \A k \in 1..Len(cs) : /\ Tools!Edited(cs[k]) \in Tools!Call
                               /\ Tools!Edited(cs[k]).kind = cs[k].kind
                            /\ Tools!Edited(cs[k]).args[1] = "edited"
  BY <1>1, ToolsPreparedShape
<1>3. \A k \in 1..Len(cs) : ds[k] = IF k \in ks THEN Tools!Edited(cs[k]) ELSE cs[k]
  OBVIOUS
<1>4. \A k \in 1..Len(cs) : ds[k] \in Tools!Call /\ ds[k].kind = cs[k].kind
  BY <1>1, <1>2, <1>3
<1>5. ds = [k \in 1..Len(cs) |-> ds[k]]
  OBVIOUS
<1> QED BY <1>2, <1>3, <1>4, <1>5, ToolsLikeTurn

\* The graph's answer is for every sensitive call of the turn.
LEMMA ToolsResumeGraphStep == ASSUME Tools!PlansAreBounded, Tools!ReviewInv,
                                     Tools!ResumeGraph PROVE Tools!ReviewInv'
<1>u. tools_at = "waiting" /\ engine = "graph" /\ UNCHANGED <<engine, saved, asked, effects,
                                                              workspace>>
  BY DEF Tools!ResumeGraph
<1>0. /\ calls \in Seq(Tools!Call) /\ Len(calls) \in Nat /\ Len(calls) <= Tools!Width
         /\ workspace \in Nat
      /\ step \in Nat \ {0} /\ step < MaxSteps /\ done = 0
      /\ \A k \in 1..Len(calls) : Tools!Here(k) \in Tools!Ids /\ calls[k] \in Tools!Call
      /\ saved.step = step /\ saved.calls = calls /\ saved.done = done
      /\ \A k \in 1..Len(calls) : k > done => Tools!Waits(k)
  BY <1>u, ToolsWaitFacts
<1> DEFINE ks == Tools!Indices(calls)
<1>a. /\ \A k \in 1..Len(calls) : k \in ks => k > done
      /\ \A k \in 1..Len(calls) : k > done => (k \in ks <=> Tools!Due(k))
      /\ ks \subseteq 1..Len(calls)
  BY <1>u, <1>0 DEF Tools!Indices, Tools!Due
<1>b. \A k \in ks : k \in 1..Len(calls) => calls[k].args = asked[Tools!Here(k)]
  BY <1>u, <1>0, <1>a DEF Tools!Waits
<1> HIDE DEF ks
<1>1. CASE Tools!Restore(saved.calls) /\ Tools!Rule(ks, "approve") /\ tools_at' = "tools"
  <2>1. step' = step /\ done' = done /\ calls' = calls
    BY <1>0, <1>1 DEF Tools!Restore
  <2>2. ToolsLike(calls', calls)
    BY <1>0, <2>1 DEF ToolsLike
  <2> QED BY <1>u, <1>a, <1>b, <1>1, <2>1, <2>2, ToolsDecideStep
<1>2. CASE Tools!Restore(Tools!All(Tools!Edited, saved.calls)) /\ Tools!Rule(ks, "edit")
           /\ tools_at' = "tools"
  <2>1. step' = step /\ done' = done /\ calls' = [k \in 1..Len(calls) |-> Tools!Edited(calls[k])]
    BY <1>0, <1>2 DEF Tools!Restore, Tools!All
  <2>2. calls' = [k \in 1..Len(calls) |-> IF k \in 1..Len(calls) THEN Tools!Edited(calls[k]) ELSE calls[k]]
    BY <2>1
  <2>3. ToolsLike(calls', calls) /\ \A k \in 1..Len(calls) : k \in 1..Len(calls)
        => calls'[k].args[1] = "edited"
    BY <1>0, <2>2, ToolsEditedTurn
  <2> QED BY <1>u, <1>a, <1>2, <2>1, <2>3, ToolsDecideStep
<1>3. CASE /\ calls' = saved.calls /\ done' = Len(saved.calls) /\ step' = step + 1
           /\ Tools!Rule(ks, "reject") /\ tools_at' = "reason"
  <2>b. \A i \in Tools!Ids : verdict'[i] = IF i[1] = step
        /\ i[2] \in ks THEN "reject" ELSE verdict[i]
    BY <1>3 DEF Tools!Rule
  <2>d. \A i \in Tools!Ids : i[1] \in Nat /\ i[2] \in 1..Tools!Width
    BY <1>0, ToolsIdShape
  <2>1. Tools!EffectsAreReviewed' /\ Tools!EffectsInOrder'
    <3>1. \A i \in Tools!Ids : i[1] # step \/ i[2] <= done => verdict'[i] = verdict[i]
      BY <1>0, <2>b, <2>d
    <3>2. step' # step
      BY <1>0, <1>3
    <3> QED BY <1>u, <1>3, <3>1, <3>2, ToolsAheadStays
  <2>2. Tools!ReviewTypes'
    <3>1. verdict' \in [Tools!Ids -> {"none", "approve", "edit", "reject"}]
      <4>1. \A i \in Tools!Ids : verdict'[i] \in {"none", "approve", "edit", "reject"}
        BY <2>b DEF Tools!ReviewInv, Tools!ReviewTypes
      <4>2. verdict' = [i \in Tools!Ids |-> verdict'[i]]
        BY <1>3 DEF Tools!Rule
      <4> QED BY <4>1, <4>2
    <3> QED BY <1>u, <1>0, <1>3, <3>1 DEF Tools!ReviewInv, Tools!ReviewTypes
  <2>3. Tools!Placed' /\ Tools!TranscriptIsWhole'
    BY <1>0, <1>3 DEF Tools!Placed, Tools!TranscriptIsWhole
  <2>4. Tools!Ahead'
    <3>1. \A i \in Tools!Ids : i[1] >= step + 1 => Tools!Fresh(i)'
      BY <1>u, <1>0, <2>b, <2>d DEF Tools!ReviewInv, Tools!Ahead, Tools!Fresh
    <3> QED BY <1>0, <1>3, <2>d, <3>1 DEF Tools!Ahead
  <2>5. Tools!Passed'
    <3>1. \A m \in 1..Len(effects) : effects[m].call[1] \in Nat /\ effects[m].call[1] <= step
      BY ToolsEffectPlaces
    <3>2. \A m \in 1..Len(effects) : effects[m].call[1] < step + 1
      BY <1>0, <3>1
    <3> QED BY <1>u, <1>3, <3>2 DEF Tools!Passed
  <2> QED BY <2>1, <2>2, <2>3, <2>4, <2>5 DEF Tools!ReviewInv, Tools!ReviewDecides
<1> QED BY <1>1, <1>2, <1>3 DEF Tools!ResumeGraph, ks

\* The deep runtime sends back the copy that was shown with an approval.
LEMMA ToolsResumeDeepStep == ASSUME Tools!PlansAreBounded, Tools!ReviewInv, Tools!ResumeDeep
                                    PROVE Tools!ReviewInv'
<1>u. /\ tools_at = "waiting" /\ engine = "deep" /\ tools_at' = "tools"
      /\ UNCHANGED <<engine, saved, asked, effects, workspace>>
  BY DEF Tools!ResumeDeep
<1>0. /\ calls \in Seq(Tools!Call) /\ Len(calls) \in Nat /\ Len(calls) <= Tools!Width
         /\ workspace \in Nat
      /\ step \in Nat \ {0} /\ step < MaxSteps /\ done = 0
      /\ \A k \in 1..Len(calls) : Tools!Here(k) \in Tools!Ids /\ calls[k] \in Tools!Call
      /\ saved.step = step /\ saved.calls = calls /\ saved.done = done
      /\ \A k \in 1..Len(calls) : k > done => Tools!Waits(k)
  BY <1>u, ToolsWaitFacts
<1> DEFINE ks == Tools!Indices(calls)
<1>a. /\ \A k \in 1..Len(calls) : k \in ks => k > done
      /\ \A k \in 1..Len(calls) : k > done => (k \in ks <=> Tools!Due(k))
      /\ ks \subseteq 1..Len(calls)
  BY <1>u, <1>0 DEF Tools!Indices, Tools!Due
<1>b. \A k \in ks : k \in 1..Len(calls) /\ asked[Tools!Here(k)] \in Tools!Args
  BY <1>u, <1>0, <1>a DEF Tools!Waits
<1> HIDE DEF ks
<1>1. CASE Tools!Restore(Tools!Reviewed(saved.calls)) /\ Tools!Rule(ks, "approve")
  <2>1. /\ step' = step /\ done' = done
        /\ calls' = [k \in 1..Len(calls) |-> IF k \in ks THEN [calls[k] EXCEPT !.args = asked[Tools!Here(k)]]
                                              ELSE calls[k]]
    BY <1>0, <1>1 DEF Tools!Restore, Tools!Reviewed, ks
  <2>2. \A k \in 1..Len(calls) : calls'[k] = IF k \in ks THEN [calls[k] EXCEPT !.args = asked[Tools!Here(k)]]
                                             ELSE calls[k]
    BY <2>1
  <2>3. \A k \in 1..Len(calls) : /\ calls'[k] \in Tools!Call /\ calls'[k].kind = calls[k].kind
                                 /\ k \in ks => calls'[k].args = asked[Tools!Here(k)]
    <3> SUFFICES ASSUME NEW k \in 1..Len(calls)
                 PROVE  /\ calls'[k] \in Tools!Call /\ calls'[k].kind = calls[k].kind
                        /\ k \in ks => calls'[k].args = asked[Tools!Here(k)]
      OBVIOUS
    <3>1. calls[k] \in Tools!Call
      BY <1>0
    <3>2. k \in ks => asked[Tools!Here(k)] \in Tools!Args
      BY <1>b
    <3>3. CASE k \in ks
      <4>1. PICK x \in Tools!Args : x = asked[Tools!Here(k)]
        BY <3>2, <3>3
      <4>2. calls'[k] = [calls[k] EXCEPT !.args = x]
        BY <2>2, <3>3, <4>1
      <4> QED BY <3>1, <4>1, <4>2, ToolsCallShape
    <3>4. CASE k \notin ks
      BY <2>2, <3>1, <3>4
    <3> QED BY <3>3, <3>4
  <2>4. ToolsLike(calls', calls)
    <3>1. calls' = [k \in 1..Len(calls) |-> calls'[k]]
      BY <2>1
    <3> QED BY <1>0, <2>3, <3>1, ToolsLikeTurn
  <2> QED BY <1>u, <1>a, <1>1, <2>1, <2>3, <2>4, ToolsDecideStep
<1>2. CASE /\ Tools!Restore([k \in 1..Len(saved.calls) |->
                          IF k \in ks THEN Tools!Edited(saved.calls[k]) ELSE saved.calls[k]])
           /\ Tools!Rule(ks, "edit")
  <2>1. /\ step' = step /\ done' = done
        /\ calls' = [k \in 1..Len(calls) |-> IF k \in ks THEN Tools!Edited(calls[k]) ELSE calls[k]]
    BY <1>0, <1>2 DEF Tools!Restore
  <2>2. ToolsLike(calls', calls) /\ \A k \in ks : k \in 1..Len(calls)
        => calls'[k].args[1] = "edited"
    BY <1>0, <2>1, ToolsEditedTurn
  <2> QED BY <1>u, <1>a, <1>2, <2>1, <2>2, ToolsDecideStep
<1>3. CASE Tools!Restore(saved.calls) /\ Tools!Rule(ks, "reject")
  <2>1. step' = step /\ done' = done /\ calls' = calls
    BY <1>0, <1>3 DEF Tools!Restore
  <2>2. ToolsLike(calls', calls)
    BY <1>0, <2>1 DEF ToolsLike
  <2> QED BY <1>u, <1>a, <1>3, <2>1, <2>2, ToolsDecideStep
<1> QED BY <1>1, <1>2, <1>3 DEF Tools!ResumeDeep, ks

\* The decision of the reviewed loop is for the one call it stopped at.
LEMMA ToolsResumeLegacyStep == ASSUME Tools!PlansAreBounded, Tools!ReviewInv,
                                      Tools!ResumeLegacy PROVE Tools!ReviewInv'
<1>u. /\ tools_at = "waiting" /\ engine = "legacy" /\ tools_at' = "tools"
      /\ UNCHANGED <<engine, saved, asked, effects, workspace>>
  BY DEF Tools!ResumeLegacy
<1>0. /\ calls \in Seq(Tools!Call) /\ Len(calls) \in Nat /\ Len(calls) <= Tools!Width
         /\ workspace \in Nat
      /\ step \in Nat \ {0} /\ step < MaxSteps /\ done \in 0..Len(calls) /\ done < Len(calls)
      /\ \A k \in 1..Len(calls) : Tools!Here(k) \in Tools!Ids /\ calls[k] \in Tools!Call
      /\ saved.step = step /\ saved.calls = calls /\ saved.done = done
      /\ \A k \in 1..Len(calls) : k > done => Tools!Waits(k)
  BY <1>u, ToolsWaitFacts
<1> DEFINE n == done + 1
           ks == {n}
<1>a. /\ \A k \in 1..Len(calls) : k \in ks => k > done
      /\ \A k \in 1..Len(calls) : k > done => (k \in ks <=> Tools!Due(k))
      /\ ks \subseteq 1..Len(calls) /\ n \in 1..Len(calls) /\ n > done
  BY <1>u, <1>0 DEF Tools!Due
<1>b. calls[n].args = asked[Tools!Here(n)]
  BY <1>u, <1>0, <1>a DEF Tools!Waits
<1>c. \/ Tools!Restore(saved.calls) /\ Tools!Rule(ks, "approve")
      \/ Tools!Restore([saved.calls EXCEPT ![n] = Tools!Edited(saved.calls[n])]) /\ Tools!Rule(ks,
         "edit")
      \/ Tools!Restore(saved.calls) /\ Tools!Rule(ks, "reject")
  BY <1>0 DEF Tools!ResumeLegacy
<1>d. \A k \in ks : k = n
  OBVIOUS
<1> HIDE DEF ks, n
<1>1. CASE Tools!Restore(saved.calls) /\ Tools!Rule(ks, "approve")
  <2>1. step' = step /\ done' = done /\ calls' = calls
    BY <1>0, <1>1 DEF Tools!Restore
  <2>2. ToolsLike(calls', calls)
    BY <1>0, <2>1 DEF ToolsLike
  <2>3. \A k \in ks : k \in 1..Len(calls) => calls'[k].args = asked[Tools!Here(k)]
    BY <1>b, <1>d, <2>1
  <2> QED BY <1>u, <1>a, <1>1, <2>1, <2>2, <2>3, ToolsDecideStep
<1>2. CASE Tools!Restore([saved.calls EXCEPT ![n] = Tools!Edited(saved.calls[n])])
           /\ Tools!Rule(ks, "edit")
  <2>1. step' = step /\ done' = done /\ calls' = [calls EXCEPT ![n] = Tools!Edited(calls[n])]
    BY <1>0, <1>2 DEF Tools!Restore
  <2>2. calls' = [k \in 1..Len(calls) |-> IF k \in {n} THEN Tools!Edited(calls[k]) ELSE calls[k]]
    <3>1. DOMAIN calls = 1..Len(calls)
      BY <1>0
    <3>2. calls' = [k \in 1..Len(calls) |-> IF k = n THEN Tools!Edited(calls[n]) ELSE calls[k]]
      BY <2>1, <3>1
    <3> QED BY <3>2
  <2>3. ToolsLike(calls', calls) /\ \A k \in {n} : k \in 1..Len(calls)
        => calls'[k].args[1] = "edited"
    BY <1>0, <2>2, ToolsEditedTurn
  <2>4. \A k \in ks : k \in 1..Len(calls) => calls'[k].args[1] = "edited"
    BY <1>d, <2>3
  <2> QED BY <1>u, <1>a, <1>2, <2>1, <2>3, <2>4, ToolsDecideStep
<1>3. CASE Tools!Restore(saved.calls) /\ Tools!Rule(ks, "reject")
  <2>1. step' = step /\ done' = done /\ calls' = calls
    BY <1>0, <1>3 DEF Tools!Restore
  <2>2. ToolsLike(calls', calls)
    BY <1>0, <2>1 DEF ToolsLike
  <2> QED BY <1>u, <1>a, <1>3, <2>1, <2>2, ToolsDecideStep
<1> QED BY <1>c, <1>1, <1>2, <1>3

-----------------------------------------------------------------------------
(* Running the calls *)

\* A call that is ready takes effect as it was decided, after all before it.
LEMMA ToolsRunToolStep == ASSUME Tools!PlansAreBounded, Tools!ReviewInv, Tools!RunTool
                                 PROVE Tools!ReviewInv'
<1> DEFINE n == done + 1
<1>u. /\ tools_at = "tools" /\ tools_at' = "tools" /\ done < Len(calls) /\ done' = n
         /\ ~Tools!NeedsReview(n)
      /\ effects' = IF Tools!MayRun(n) THEN Append(effects, [call |-> Tools!Here(n),
         args |-> calls[n].args])
                    ELSE effects
      /\ UNCHANGED <<engine, step, calls, saved, workspace, asked, verdict>>
  BY DEF Tools!RunTool, Tools!Current, Tools!user
<1>0. /\ calls \in Seq(Tools!Call) /\ Len(calls) \in Nat /\ Len(calls) <= Tools!Width
      /\ step \in Nat \ {0} /\ step < MaxSteps /\ done \in 0..Len(calls)
      /\ \A k \in 1..Len(calls) : Tools!Here(k) \in Tools!Ids /\ calls[k] \in Tools!Call
  BY <1>u, ToolsAskFacts
<1>n. n \in 1..Len(calls) /\ n > done
  BY <1>u, <1>0
<1>h. PICK h \in Tools!Ids : h = Tools!Here(n) /\ h[1] = step /\ h[2] = n
  BY <1>0, <1>n, ToolsIdShape
<1>e. PICK e \in [call : Tools!Ids, args : Tools!Args] : e.call = h /\ e.args = calls[n].args
                                          /\ e = [call |-> Tools!Here(n), args |-> calls[n].args]
  BY <1>0, <1>n, <1>h, ToolsCallShape
<1>r. Tools!Ready(n)
  BY <1>u, <1>n DEF Tools!ReviewInv, Tools!Ahead
<1>k. Tools!KindOf(h) = calls[n].kind
  BY <1>h DEF Tools!KindOf
<1>s. Tools!MayRun(n) => \/ verdict[h] = "approve" /\ e.args = asked[h]
                         \/ verdict[h] = "edit" /\ e.args[1] = "edited"
                         \/ verdict[h] = "none" /\ asked[h] = Tools!Nothing
                            /\ ~Tools!Sensitive(Tools!KindOf(h))
  <2> SUFFICES ASSUME Tools!MayRun(n)
               PROVE  \/ verdict[h] = "approve" /\ e.args = asked[h]
                      \/ verdict[h] = "edit" /\ e.args[1] = "edited"
                      \/ verdict[h] = "none" /\ asked[h] = Tools!Nothing
                         /\ ~Tools!Sensitive(Tools!KindOf(h))
    OBVIOUS
  <2>1. calls[n].kind # "denied" /\ verdict[h] # "reject"
    BY <1>h DEF Tools!MayRun
  <2>2. ~(engine = "legacy" /\ calls[n].kind = "write" /\ verdict[h] = "none")
    BY <1>u, <1>h DEF Tools!NeedsReview
  <2>3. \/ Tools!Fresh(h) /\ (engine = "legacy" \/ ~Tools!Sensitive(calls[n].kind))
        \/ verdict[h] = "approve" /\ calls[n].args = asked[h]
        \/ verdict[h] = "edit" /\ calls[n].args[1] = "edited"
        \/ verdict[h] = "reject"
    BY <1>r, <1>h DEF Tools!Ready
  <2>4. CASE Tools!Fresh(h) /\ (engine = "legacy" \/ ~Tools!Sensitive(calls[n].kind))
    <3>1. ~Tools!Sensitive(calls[n].kind)
      BY <2>1, <2>2, <2>4 DEF Tools!Sensitive, Tools!Fresh
    <3> QED BY <1>k, <2>4, <3>1 DEF Tools!Fresh
  <2> QED BY <1>e, <2>1, <2>3, <2>4
<1>m. \/ effects' = effects /\ ~Tools!MayRun(n)
      \/ Tools!MayRun(n) /\ effects' = Append(effects, e)
  BY <1>u, <1>e
<1>q. effects \in Seq([call : Tools!Ids, args : Tools!Args]) /\ Len(effects) \in Nat
  BY DEF Tools!ReviewInv, Tools!ReviewTypes
<1>p. Tools!MayRun(n) => /\ Len(effects') = Len(effects) + 1
                         /\ \A m \in 1..Len(effects) : effects'[m] = effects[m]
                         /\ effects'[Len(effects) + 1] = e
                         /\ effects' \in Seq([call : Tools!Ids, args : Tools!Args])
  <2> SUFFICES ASSUME Tools!MayRun(n)
               PROVE  /\ Len(effects') = Len(effects) + 1
                      /\ \A m \in 1..Len(effects) : effects'[m] = effects[m]
                      /\ effects'[Len(effects) + 1] = e
                      /\ effects' \in Seq([call : Tools!Ids, args : Tools!Args])
    OBVIOUS
  <2>1. effects' = Append(effects, e)
    BY <1>m
  <2> HIDE DEF n
  <2> QED BY <1>q, <2>1, ToolsSeqAppend
<1>f. \A m \in 1..Len(effects) :
          LET i == effects[m].call IN
          i \in Tools!Ids /\ i[1] \in Nat /\ i[2] \in 1..Tools!Width
          /\ (i[1] < step \/ (i[1] = step /\ i[2] <= done))
  BY ToolsEffectPlaces
<1>v. \A i : Tools!KindOf(i)' = Tools!KindOf(i)
  BY <1>u DEF Tools!KindOf
<1> HIDE DEF n
<1>1. Tools!EffectsAreReviewed'
  <2> SUFFICES ASSUME NEW m \in 1..Len(effects')
               PROVE  LET x == effects'[m] IN
                      \/ verdict[x.call] = "approve" /\ x.args = asked[x.call]
                      \/ verdict[x.call] = "edit" /\ x.args[1] = "edited"
                      \/ verdict[x.call] = "none" /\ asked[x.call] = Tools!Nothing
                         /\ ~Tools!Sensitive(Tools!KindOf(x.call))
    BY <1>u, <1>v DEF Tools!EffectsAreReviewed
  <2>1. CASE m \in 1..Len(effects)
    <3>1. effects'[m] = effects[m]
      BY <1>m, <1>p, <2>1
    <3> QED BY <2>1, <3>1 DEF Tools!ReviewInv, Tools!ReviewDecides, Tools!EffectsAreReviewed
  <2>2. CASE m \notin 1..Len(effects)
    <3>1. Tools!MayRun(n) /\ m = Len(effects) + 1
      BY <1>m, <1>p, <1>q, <2>2
    <3>2. effects'[m] = e /\ e.call = h
      BY <1>e, <1>p, <3>1
    <3> QED BY <1>s, <3>1, <3>2
  <2> QED BY <2>1, <2>2
<1>2. Tools!EffectsInOrder'
  <2> SUFFICES ASSUME NEW l \in 1..Len(effects'), NEW m \in 1..Len(effects'), l < m
               PROVE  LET a == effects'[l].call
                          b == effects'[m].call
                      IN a[1] < b[1] \/ (a[1] = b[1] /\ a[2] < b[2])
    BY DEF Tools!EffectsInOrder
  <2>1. CASE m \in 1..Len(effects)
    <3>1. l \in 1..Len(effects)
      BY <1>q, <2>1, <1>m, <1>p
    <3>2. effects'[m] = effects[m] /\ effects'[l] = effects[l]
      BY <1>m, <1>p, <2>1, <3>1
    <3> QED BY <2>1, <3>1, <3>2 DEF Tools!ReviewInv, Tools!ReviewDecides, Tools!EffectsInOrder
  <2>2. CASE m \notin 1..Len(effects)
    <3>1. Tools!MayRun(n) /\ m = Len(effects) + 1 /\ l \in 1..Len(effects)
      BY <1>m, <1>p, <1>q, <2>2
    <3>2. effects'[m] = e /\ effects'[l] = effects[l]
      BY <1>p, <3>1
    <3>3. PICK a : a = effects[l].call
      OBVIOUS
    <3>4. a[1] < step \/ (a[1] = step /\ a[2] <= done /\ a[2] \in 1..Tools!Width)
      BY <1>f, <3>1, <3>3
    <3>5. a[1] < h[1] \/ (a[1] = h[1] /\ a[2] < h[2])
      BY <1>0, <1>h, <1>n, <3>4
    <3> QED BY <1>e, <3>2, <3>3, <3>5
  <2> QED BY <2>1, <2>2
<1>3. Tools!ReviewTypes'
  <2>1. effects' \in Seq([call : Tools!Ids, args : Tools!Args])
    BY <1>m, <1>p, <1>q
  <2> QED BY <1>u, <1>n, <2>1 DEF Tools!ReviewInv, Tools!ReviewTypes
<1>4. Tools!Placed' /\ Tools!TranscriptIsWhole'
  BY <1>u DEF Tools!ReviewInv, Tools!Placed, Tools!TranscriptIsWhole
<1>5. Tools!Ahead'
  <2>1. n = done + 1
    BY DEF n
  <2>2. \A k \in 1..Len(calls) : (k > n => k > done) /\ (k > n + 1 => k > done + 1)
    BY <1>0, <2>1
  <2>3. \A k : (Tools!Ready(k)' <=> Tools!Ready(k))
        /\ (Tools!Fresh(Tools!Here(k))' <=> Tools!Fresh(Tools!Here(k)))
    BY <1>u DEF Tools!Ready, Tools!Fresh, Tools!Here
  <2>4. \A i : Tools!Fresh(i)' <=> Tools!Fresh(i)
    BY <1>u DEF Tools!Fresh
  <2>5. /\ \A k \in 1..Len(calls) : k > done => Tools!Ready(k)
        /\ engine = "legacy" => \A k \in 1..Len(calls) : k > done + 1 => Tools!Fresh(Tools!Here(k))
        /\ \A i \in Tools!Ids : i[1] > step => Tools!Fresh(i)
    BY <1>u DEF Tools!ReviewInv, Tools!Ahead
  <2>6. \A k \in 1..Len(calls) : k > n => Tools!Ready(k)'
    BY <2>2, <2>3, <2>5
  <2>7. engine = "legacy" => \A k \in 1..Len(calls) : k > n + 1 => Tools!Fresh(Tools!Here(k))'
    BY <2>2, <2>3, <2>5
  <2> QED BY <1>u, <2>4, <2>5, <2>6, <2>7 DEF Tools!Ahead
<1>6. Tools!Passed'
  <2> SUFFICES ASSUME NEW m \in 1..Len(effects')
               PROVE  LET i == effects'[m].call
                      IN i[1] < step \/ (i[1] = step /\ i[2] <= n)
    BY <1>u DEF Tools!Passed
  <2>1. CASE m \in 1..Len(effects)
    <3>1. effects'[m] = effects[m]
      BY <1>m, <1>p, <2>1
    <3>2. PICK i : i = effects[m].call
      OBVIOUS
    <3>3. i[1] < step \/ (i[1] = step /\ i[2] <= done /\ i[2] \in 1..Tools!Width)
      BY <1>f, <2>1, <3>2
    <3>4. i[1] < step \/ (i[1] = step /\ i[2] <= n)
      BY <1>0, <1>n, <3>3
    <3> QED BY <3>1, <3>2, <3>4
  <2>2. CASE m \notin 1..Len(effects)
    <3>1. Tools!MayRun(n) /\ m = Len(effects) + 1
      BY <1>m, <1>p, <1>q, <2>2
    <3>2. effects'[m] = e
      BY <1>p, <3>1
    <3> QED BY <1>e, <1>h, <1>n, <3>2
  <2> QED BY <2>1, <2>2
<1> QED BY <1>1, <1>2, <1>3, <1>4, <1>5, <1>6 DEF Tools!ReviewInv, Tools!ReviewDecides

\* The turn is over when all its calls are.
LEMMA ToolsToolsDoneStep == ASSUME Tools!PlansAreBounded, Tools!ReviewInv, Tools!ToolsDone
                                   PROVE Tools!ReviewInv'
<1>u. /\ tools_at = "tools" /\ tools_at' = "reason" /\ done = Len(calls) /\ step' = step + 1
      /\ UNCHANGED <<engine, calls, done, saved, effects, workspace, asked, verdict>>
  BY DEF Tools!ToolsDone, Tools!user
<1>0. /\ step \in Nat \ {0} /\ step < MaxSteps /\ done \in 0..Len(calls)
  BY <1>u, ToolsAskFacts
<1>d. \A i \in Tools!Ids : i[1] \in Nat /\ i[2] \in 1..Tools!Width
  BY <1>0, ToolsIdShape
<1>1. Tools!EffectsAreReviewed' /\ Tools!EffectsInOrder'
  BY <1>u, ToolsUserStays
<1>2. Tools!ReviewTypes'
  BY <1>u, <1>0 DEF Tools!ReviewInv, Tools!ReviewTypes
<1>3. Tools!Placed' /\ Tools!TranscriptIsWhole'
  BY <1>u DEF Tools!Placed, Tools!TranscriptIsWhole
<1>4. Tools!Ahead'
  <2>1. \A i \in Tools!Ids : i[1] >= step + 1 => Tools!Fresh(i)'
    BY <1>u, <1>0, <1>d DEF Tools!ReviewInv, Tools!Ahead, Tools!Fresh
  <2> QED BY <1>u, <1>0, <1>d, <2>1 DEF Tools!Ahead
<1>5. Tools!Passed'
  <2>1. \A m \in 1..Len(effects) : effects[m].call[1] \in Nat /\ effects[m].call[1] <= step
    BY ToolsEffectPlaces
  <2>2. \A m \in 1..Len(effects) : effects[m].call[1] < step + 1
    BY <1>0, <2>1
  <2> QED BY <1>u, <2>2 DEF Tools!Passed
<1> QED BY <1>1, <1>2, <1>3, <1>4, <1>5 DEF Tools!ReviewInv, Tools!ReviewDecides

\* A run that ends, files that others change, and a stutter.
LEMMA ToolsOtherStep ==
    ASSUME Tools!PlansAreBounded, Tools!ReviewInv, Tools!BadDecision \/ Tools!Stop
           \/ Tools!OthersWrite \/ UNCHANGED Tools!vars
    PROVE  Tools!ReviewInv'
<1>u. /\ tools_at' = "failed" \/ tools_at' = tools_at
      /\ workspace' = workspace \/ workspace' = workspace + 1
      /\ UNCHANGED <<engine, step, calls, done, saved, asked, verdict, effects>>
  BY DEF Tools!BadDecision, Tools!Stop, Tools!OthersWrite, Tools!vars, Tools!frame, Tools!user
<1>1. Tools!EffectsAreReviewed' /\ Tools!EffectsInOrder'
  BY <1>u, ToolsUserStays
<1>2. Tools!ReviewTypes'
  BY <1>u DEF Tools!ReviewInv, Tools!ReviewTypes, Tools!Ended
<1>3. Tools!Placed' /\ Tools!TranscriptIsWhole'
  BY <1>u DEF Tools!ReviewInv, Tools!Placed, Tools!ReviewDecides, Tools!TranscriptIsWhole
<1>4. Tools!Ahead'
  <2>1. \A k : (Tools!Ready(k)' <=> Tools!Ready(k)) /\ (Tools!Waits(k)' <=> Tools!Waits(k))
        /\ (Tools!Fresh(Tools!Here(k))' <=> Tools!Fresh(Tools!Here(k)))
    BY <1>u DEF Tools!Ready, Tools!Waits, Tools!Due, Tools!Fresh, Tools!Here
  <2>2. \A i : Tools!Fresh(i)' <=> Tools!Fresh(i)
    BY <1>u DEF Tools!Fresh
  <2> QED BY <1>u, <2>1, <2>2 DEF Tools!ReviewInv, Tools!Ahead
<1>5. Tools!Passed'
  BY <1>u DEF Tools!ReviewInv, Tools!Passed
<1> QED BY <1>1, <1>2, <1>3, <1>4, <1>5 DEF Tools!ReviewInv, Tools!ReviewDecides

LEMMA ToolsNextStep == ASSUME Tools!PlansAreBounded, Tools!ReviewInv,
                              [Tools!Next]_(Tools!vars) PROVE Tools!ReviewInv'
BY ToolsReasonStep, ToolsPrepareStep, ToolsAskNodeStep, ToolsAskLegacyStep, ToolsResumeGraphStep,
   ToolsResumeDeepStep, ToolsResumeLegacyStep, ToolsRunToolStep, ToolsToolsDoneStep,
   ToolsOtherStep DEF Tools!Next

-----------------------------------------------------------------------------
(* ProjectSwitch: any projects and kernels *)

DesktopKernel == [pc : {"unborn", "made", "ready", "fenced", "closed"},
    project : Projects \cup {Desktop!None},
           workers : SUBSET {"legacy", "api"}, dirty : BOOLEAN]

\* Whose folder it is depends on the owners alone.
LEMMA DesktopHoldsKept == ASSUME desktop_owner' = desktop_owner
                                 PROVE \A k : Desktop!Holds(k)' <=> Desktop!Holds(k)
BY DEF Desktop!Holds

LEMMA DesktopInitInv == ASSUME Desktop!LaunchNames, Desktop!Init PROVE Desktop!DesktopInv
<1>0. PICK k \in Kernels :
          /\ kernel = [i \in Kernels |-> IF i = k
                 THEN [pc |-> "ready", project |-> HomeProject, workers |-> {"legacy", "api"},
                     dirty |-> FALSE]
                 ELSE Desktop!Unborn]
          /\ desktop_owner = [p \in Projects |-> IF p = HomeProject THEN k ELSE Desktop!None]
          /\ selected = k
  BY DEF Desktop!Init
<1>1. Desktop!DesktopTypes
  <2>1. kernel \in [Kernels -> DesktopKernel]
    BY <1>0 DEF Desktop!LaunchNames, Desktop!Unborn, DesktopKernel
  <2>2. desktop_owner \in [Projects -> Kernels \cup {Desktop!None, "other"}]
    BY <1>0
  <2>3. /\ act = Desktop!Idle /\ gone = FALSE /\ destroyed = FALSE /\ finished = FALSE
           /\ left = "open"
        /\ selected \in Kernels \cup {Desktop!None}
    BY <1>0 DEF Desktop!Init
  <2> QED BY <2>1, <2>2, <2>3 DEF Desktop!DesktopTypes, Desktop!Idle, DesktopKernel
<1>2. ASSUME NEW j \in Kernels PROVE Desktop!KernelSound(j)
  <2>1. Desktop!Holds(j) <=> j = k
    BY <1>0 DEF Desktop!Holds, Desktop!LaunchNames
  <2> QED BY <1>0, <2>1 DEF Desktop!KernelSound, Desktop!Running, Desktop!Unborn
<1>3. Desktop!ActionSound
  BY <1>0 DEF Desktop!Init, Desktop!ActionSound, Desktop!Idle, Desktop!Making
<1>4. Desktop!EndSound
  BY DEF Desktop!Init, Desktop!EndSound, Desktop!Idle
<1> QED BY <1>1, <1>2, <1>3, <1>4 DEF Desktop!DesktopInv

-----------------------------------------------------------------------------
(* What a step does to one kernel *)

\* A kernel that neither starts a worker nor closes, under the same owners.
LEMMA DesktopKernelMoves ==
    ASSUME Desktop!DesktopInv, NEW k \in Kernels, NEW r \in DesktopKernel,
           kernel' = [kernel EXCEPT ![k] = r],
           desktop_owner' = desktop_owner, selected' = selected,
               r.workers \subseteq kernel[k].workers,
           r.pc \in {"closed", "unborn"} => (r.pc = kernel[k].pc /\ r.dirty = kernel[k].dirty)
    PROVE  /\ kernel' \in [Kernels -> DesktopKernel]
           /\ \A j \in Kernels : Desktop!KernelSound(j)'
<1>1. kernel \in [Kernels -> DesktopKernel]
  BY DEF Desktop!DesktopInv, Desktop!DesktopTypes, DesktopKernel
<1>2. \A j : Desktop!Holds(j)' <=> Desktop!Holds(j)
  BY DesktopHoldsKept
<1>3. ASSUME NEW j \in Kernels PROVE Desktop!KernelSound(j)'
  <2>1. Desktop!KernelSound(j)
    BY DEF Desktop!DesktopInv
  <2>2. CASE j = k
    <3>1. kernel'[j] = r
      BY <1>1, <2>2
    <3>2. r.workers # {} => kernel[k].workers # {}
      OBVIOUS
    <3> QED BY <1>2, <2>1, <2>2, <3>1, <3>2 DEF Desktop!KernelSound, Desktop!Running
  <2>3. CASE j # k
    <3>1. kernel'[j] = kernel[j]
      BY <1>1, <2>3
    <3> QED BY <1>2, <2>1, <3>1 DEF Desktop!KernelSound, Desktop!Running
  <2> QED BY <2>2, <2>3
<1> QED BY <1>1, <1>3

\* The kernels stay as they are.
LEMMA DesktopKernelsRest ==
    ASSUME Desktop!DesktopInv, UNCHANGED <<kernel, desktop_owner>>,
           selected' = selected \/ \A j \in Kernels : ~Desktop!Running(j)
    PROVE  \A j \in Kernels : Desktop!KernelSound(j)'
<1>1. \A j : Desktop!Holds(j)' <=> Desktop!Holds(j)
  BY DesktopHoldsKept
<1> QED BY <1>1 DEF Desktop!DesktopInv, Desktop!KernelSound, Desktop!Running

\* The fence leaves the workers of its kernel running.
LEMMA DesktopFenceFacts ==
    ASSUME Desktop!DesktopInv, NEW k \in Kernels, kernel[k].pc # "unborn", Desktop!Fence(k),
           desktop_owner' = desktop_owner,
           selected' = selected
    PROVE  /\ kernel' \in [Kernels -> DesktopKernel]
           /\ \A j \in Kernels : Desktop!KernelSound(j)'
           /\ kernel'[k].pc # "unborn"
<1>1. kernel \in [Kernels -> DesktopKernel]
  BY DEF Desktop!DesktopInv, Desktop!DesktopTypes, DesktopKernel
<1>2. PICK r : r = [kernel[k] EXCEPT !.pc = IF @ = "closed" THEN @ ELSE "fenced"]
  OBVIOUS
<1>3. kernel' = [kernel EXCEPT ![k] = r]
  BY <1>2 DEF Desktop!Fence
<1>4. /\ r \in DesktopKernel /\ r.workers = kernel[k].workers /\ r.dirty = kernel[k].dirty
      /\ r.pc = IF kernel[k].pc = "closed" THEN "closed" ELSE "fenced"
  BY <1>1, <1>2 DEF DesktopKernel
<1>5. kernel'[k] = r
  BY <1>1, <1>3
<1> QED BY <1>3, <1>4, <1>5, DesktopKernelMoves

\* A kernel that closes had drained, and its folder is free.
LEMMA DesktopCloseFacts ==
    ASSUME Desktop!LaunchNames, Desktop!DesktopInv, NEW k \in Kernels, k = selected,
           Desktop!Closed(k),
           selected' \in {selected, Desktop!None}
    PROVE  /\ kernel' \in [Kernels -> DesktopKernel]
           /\ desktop_owner' \in [Projects -> Kernels \cup {Desktop!None, "other"}]
           /\ \A j \in Kernels : Desktop!KernelSound(j)' /\ ~Desktop!Running(j)'
           /\ kernel'[k].pc = "closed"
<1>1. kernel \in [Kernels -> DesktopKernel]
      /\ desktop_owner \in [Projects -> Kernels \cup {Desktop!None, "other"}]
  BY DEF Desktop!DesktopInv, Desktop!DesktopTypes, DesktopKernel
<1>n. Desktop!None \notin Kernels
  BY DEF Desktop!LaunchNames
<1>2. \A j \in Kernels : Desktop!KernelSound(j)
  BY DEF Desktop!DesktopInv
<1>3. CASE kernel[k].pc = "closed" /\ UNCHANGED <<kernel, desktop_owner>>
  <2>1. \A j \in Kernels : ~Desktop!Running(j)
    BY <1>2, <1>3 DEF Desktop!KernelSound, Desktop!Running
  <2>2. \A j : Desktop!Holds(j)' <=> Desktop!Holds(j)
    BY <1>3, DesktopHoldsKept
  <2>3. \A j \in Kernels : ~Desktop!Running(j)'
    BY <1>3, <2>1, <2>2 DEF Desktop!Running
  <2> QED BY <1>1, <1>3, <2>1, <2>3, DesktopKernelsRest
<1>4. CASE /\ Desktop!Drained(k) /\ kernel' = [kernel EXCEPT ![k].pc = "closed"]
           /\ desktop_owner' = [p \in Projects |-> IF desktop_owner[p] = k THEN Desktop!None ELSE desktop_owner[p]]
  <2>1. kernel' \in [Kernels -> DesktopKernel]
        /\ desktop_owner' \in [Projects -> Kernels \cup {Desktop!None, "other"}]
    BY <1>1, <1>4 DEF DesktopKernel
  <2>2. /\ kernel'[k].pc = "closed" /\ kernel'[k].workers = {} /\ ~kernel'[k].dirty
        /\ \A j \in Kernels : j # k => kernel'[j] = kernel[j]
    BY <1>1, <1>4 DEF Desktop!Drained, DesktopKernel
  <2>3. \A j \in Kernels : Desktop!Holds(j)' => j # k /\ Desktop!Holds(j)
    BY <1>4, <1>n DEF Desktop!Holds
  <2>4. \A j \in Kernels : ~Desktop!Running(j)'
    BY <1>2, <2>2, <2>3 DEF Desktop!KernelSound, Desktop!Running
  <2>5. \A j \in Kernels : Desktop!KernelSound(j)'
    BY <1>2, <2>2, <2>3, <2>4 DEF Desktop!KernelSound, Desktop!Running
  <2> QED BY <2>1, <2>2, <2>4, <2>5
<1> QED BY <1>3, <1>4 DEF Desktop!Closed

\* A close that raises leaves its kernel fenced.
LEMMA DesktopRaiseFacts ==
    ASSUME Desktop!DesktopInv, NEW k \in Kernels, Desktop!CloseRaises(k), selected' = selected
    PROVE  /\ kernel' \in [Kernels -> DesktopKernel] /\ desktop_owner' = desktop_owner
           /\ \A j \in Kernels : Desktop!KernelSound(j)' /\ kernel'[j].pc = kernel[j].pc
<1>1. kernel \in [Kernels -> DesktopKernel]
  BY DEF Desktop!DesktopInv, Desktop!DesktopTypes, DesktopKernel
<1>2. PICK r : r = IF kernel' = kernel THEN kernel[k] ELSE [kernel[k] EXCEPT !.dirty = TRUE]
  OBVIOUS
<1>3. kernel' = [kernel EXCEPT ![k] = r] /\ desktop_owner' = desktop_owner
  BY <1>1, <1>2 DEF Desktop!CloseRaises
<1>4. r \in DesktopKernel /\ r.workers = kernel[k].workers /\ r.pc = kernel[k].pc /\ r.pc = "fenced"
  BY <1>1, <1>2 DEF DesktopKernel, Desktop!CloseRaises
<1>5. \A j \in Kernels : kernel'[j].pc = kernel[j].pc
  BY <1>1, <1>3, <1>4
<1> QED BY <1>3, <1>4, <1>5, DesktopKernelMoves

-----------------------------------------------------------------------------
(* The steps *)

LEMMA DesktopTypes ==
    ASSUME Desktop!DesktopInv
    PROVE  /\ kernel \in [Kernels -> DesktopKernel]
           /\ desktop_owner \in [Projects -> Kernels \cup {Desktop!None, "other"}]
           /\ selected \in Kernels \cup {Desktop!None}
           /\ act \in [pc : {"idle", "construct", "restore", "close_old",
              "shut"} \cup Desktop!Making,
                       target : Projects \cup {Desktop!None},
                           previous : Projects \cup {Desktop!None},
                       made : Kernels \cup {Desktop!None}]
           /\ gone \in BOOLEAN /\ destroyed \in BOOLEAN /\ finished \in BOOLEAN
           /\ left \in {"open", "returned", "closing"}
BY DEF Desktop!DesktopInv, Desktop!DesktopTypes, DesktopKernel

LEMMA DesktopTypesAgain ==
    ASSUME kernel' \in [Kernels -> DesktopKernel],
           desktop_owner' \in [Projects -> Kernels \cup {Desktop!None, "other"}],
           selected' \in Kernels \cup {Desktop!None},
           act' \in [pc : {"idle", "construct", "restore", "close_old", "shut"} \cup Desktop!Making,
                    target : Projects \cup {Desktop!None}, previous : Projects \cup {Desktop!None},
                    made : Kernels \cup {Desktop!None}],
           gone' \in BOOLEAN, destroyed' \in BOOLEAN, finished' \in BOOLEAN,
           left' \in {"open", "returned", "closing"}
    PROVE  Desktop!DesktopTypes'
BY DEF Desktop!DesktopTypes, DesktopKernel

LEMMA DesktopIdleShape ==
    Desktop!Idle \in [pc : {"idle", "construct", "restore", "close_old",
        "shut"} \cup Desktop!Making,
             target : Projects \cup {Desktop!None}, previous : Projects \cup {Desktop!None},
             made : Kernels \cup {Desktop!None}] /\ Desktop!Idle.pc = "idle"
BY DEF Desktop!Idle

\* A worker that ends leaves its kernel with one worker less.
LEMMA DesktopWorkerEndsStep ==
    ASSUME Desktop!LaunchNames, Desktop!DesktopInv, NEW k \in Kernels, NEW w \in {"legacy",
           "api"}, Desktop!WorkerEnds(k, w)
    PROVE  Desktop!DesktopInv'
<1>u. UNCHANGED <<desktop_owner, selected, act, gone, destroyed, finished, left>>
  BY DEF Desktop!WorkerEnds, Desktop!window
<1>1. PICK spoilt \in BOOLEAN :
          kernel' = [kernel EXCEPT ![k].workers = @ \ {w}, ![k].dirty = @ \/ spoilt]
  BY DEF Desktop!WorkerEnds
<1>2. PICK r : r = [kernel[k] EXCEPT !.workers = @ \ {w}, !.dirty = @ \/ spoilt]
  OBVIOUS
<1>3. kernel' = [kernel EXCEPT ![k] = r] /\ r \in DesktopKernel /\ r.pc = kernel[k].pc
      /\ r.workers \subseteq kernel[k].workers
  BY <1>1, <1>2, DesktopTypes DEF DesktopKernel
<1>4. r.pc \notin {"closed", "unborn"}
  BY <1>3 DEF Desktop!WorkerEnds, Desktop!DesktopInv, Desktop!KernelSound
<1>5. kernel' \in [Kernels -> DesktopKernel] /\ \A j \in Kernels : Desktop!KernelSound(j)'
  BY <1>u, <1>3, <1>4, DesktopKernelMoves
<1>6. Desktop!DesktopTypes'
  BY <1>u, <1>5, DesktopTypes, DesktopTypesAgain
<1>7. \A j \in Kernels : kernel'[j].pc = kernel[j].pc
  BY <1>3, DesktopTypes
<1>8. Desktop!ActionSound'
  BY <1>u, <1>7, DesktopHoldsKept, DesktopTypes DEF Desktop!DesktopInv, Desktop!ActionSound
<1>9. Desktop!EndSound'
  BY <1>u DEF Desktop!DesktopInv, Desktop!EndSound
<1> QED BY <1>5, <1>6, <1>8, <1>9 DEF Desktop!DesktopInv

\* Another program's lock is never a kernel's.
LEMMA DesktopForeignStep ==
    ASSUME Desktop!LaunchNames, Desktop!DesktopInv, NEW p \in Projects, Desktop!Foreign(p)
    PROVE  Desktop!DesktopInv'
<1>u. /\ UNCHANGED <<kernel, selected, act, gone, destroyed, finished, left>>
      /\ desktop_owner[p] \in {Desktop!None, "other"}
      /\ desktop_owner' = [desktop_owner EXCEPT ![p] = IF desktop_owner[p] = Desktop!None THEN "other" ELSE Desktop!None]
  BY DEF Desktop!Foreign, Desktop!window
<1>1. \A k \in Kernels : Desktop!Holds(k)' <=> Desktop!Holds(k)
  BY <1>u, DesktopTypes DEF Desktop!Holds, Desktop!LaunchNames
<1>2. Desktop!DesktopTypes'
  <2>1. desktop_owner' \in [Projects -> Kernels \cup {Desktop!None, "other"}]
    BY <1>u, DesktopTypes
  <2> QED BY <1>u, <2>1, DesktopTypes, DesktopTypesAgain
<1>3. \A k \in Kernels : Desktop!KernelSound(k)'
  BY <1>u, <1>1 DEF Desktop!DesktopInv, Desktop!KernelSound, Desktop!Running
<1>4. Desktop!ActionSound'
  BY <1>u, <1>1, DesktopTypes DEF Desktop!DesktopInv, Desktop!ActionSound, Desktop!Making
<1>5. Desktop!EndSound'
  BY <1>u DEF Desktop!DesktopInv, Desktop!EndSound
<1> QED BY <1>2, <1>3, <1>4, <1>5 DEF Desktop!DesktopInv

\* The switch fences the old kernel and remembers its project.
LEMMA DesktopSwitchStep ==
    ASSUME Desktop!LaunchNames, Desktop!DesktopInv, NEW p \in Projects, Desktop!Switch(p)
    PROVE  Desktop!DesktopInv'
<1>u. /\ act.pc = "idle" /\ ~gone
      /\ UNCHANGED <<desktop_owner, selected, gone, destroyed, finished, left>>
  BY DEF Desktop!Switch, Desktop!Page, Desktop!window
<1>e. ~finished /\ ~destroyed /\ left = "open"
  BY <1>u, DesktopTypes DEF Desktop!DesktopInv, Desktop!EndSound
<1>1. CASE /\ selected = Desktop!None /\ UNCHANGED kernel
           /\ act' = [Desktop!Idle EXCEPT !.pc = "construct", !.target = p]
  <2>1. Desktop!DesktopTypes'
    BY <1>u, <1>1, DesktopTypes, DesktopTypesAgain DEF Desktop!Idle
  <2>2. \A j \in Kernels : Desktop!KernelSound(j)'
    BY <1>u, <1>1, DesktopKernelsRest
  <2>3. Desktop!ActionSound'
    BY <1>u, <1>1 DEF Desktop!ActionSound, Desktop!Idle, Desktop!Making
  <2>4. Desktop!EndSound'
    BY <1>u, <1>e, <1>1 DEF Desktop!EndSound, Desktop!Idle
  <2> QED BY <2>1, <2>2, <2>3, <2>4 DEF Desktop!DesktopInv
<1>2. CASE /\ selected # Desktop!None /\ Desktop!Fence(selected)
           /\ act' = [Desktop!Idle EXCEPT !.pc = "close_old", !.target = p,
                                 !.previous = kernel[selected].project]
  <2>1. PICK k \in Kernels : k = selected
    BY <1>2, DesktopTypes
  <2>2. kernel[k].pc # "unborn" /\ kernel[k].project \in Projects \cup {Desktop!None}
    BY <1>2, <2>1, DesktopTypes DEF Desktop!DesktopInv, Desktop!ActionSound, DesktopKernel
  <2>3. /\ kernel' \in [Kernels -> DesktopKernel]
        /\ \A j \in Kernels : Desktop!KernelSound(j)'
        /\ kernel'[k].pc # "unborn"
    BY <1>u, <1>2, <2>1, <2>2, DesktopFenceFacts
  <2>4. Desktop!DesktopTypes'
    BY <1>u, <1>2, <2>1, <2>2, <2>3, DesktopTypes, DesktopTypesAgain DEF Desktop!Idle
  <2>5. Desktop!ActionSound'
    BY <1>u, <1>2, <2>1, <2>3 DEF Desktop!ActionSound, Desktop!Idle, Desktop!Making
  <2>6. Desktop!EndSound'
    BY <1>u, <1>e, <1>2 DEF Desktop!EndSound, Desktop!Idle
  <2> QED BY <2>3, <2>4, <2>5, <2>6 DEF Desktop!DesktopInv
<1> QED BY <1>1, <1>2 DEF Desktop!Switch

\* The old kernel has closed, and nothing runs when the next one is made.
LEMMA DesktopOldClosedStep == ASSUME Desktop!LaunchNames, Desktop!DesktopInv,
                                     Desktop!OldClosed PROVE Desktop!DesktopInv'
<1>u. /\ act.pc = "close_old" /\ Desktop!Closed(selected) /\ selected' = Desktop!None
      /\ act' = [act EXCEPT !.pc = "construct"]
      /\ UNCHANGED <<gone, destroyed, finished, left>>
  BY DEF Desktop!OldClosed, Desktop!Page, Desktop!To, Desktop!window
<1>1. PICK k \in Kernels : k = selected
  BY <1>u, DesktopTypes DEF Desktop!DesktopInv, Desktop!ActionSound
<1>2. /\ kernel' \in [Kernels -> DesktopKernel]
      /\ desktop_owner' \in [Projects -> Kernels \cup {Desktop!None, "other"}]
      /\ \A j \in Kernels : Desktop!KernelSound(j)'
  BY <1>u, <1>1, DesktopCloseFacts
<1>3. Desktop!DesktopTypes'
  BY <1>u, <1>2, DesktopTypes, DesktopTypesAgain
<1>4. act'.pc = "construct" /\ act'.target \in Projects
  BY <1>u, DesktopTypes DEF Desktop!DesktopInv, Desktop!ActionSound
<1>5. Desktop!ActionSound'
  BY <1>u, <1>4 DEF Desktop!ActionSound, Desktop!Making
<1>6. Desktop!EndSound'
  BY <1>u, <1>4 DEF Desktop!DesktopInv, Desktop!EndSound
<1> QED BY <1>2, <1>3, <1>5, <1>6 DEF Desktop!DesktopInv

\* A close that raises ends the action, the kernel it was about still selected.
LEMMA DesktopStaysStep ==
    ASSUME Desktop!LaunchNames, Desktop!DesktopInv, Desktop!OldStays \/ Desktop!NewStays
           \/ Desktop!ShutFails
    PROVE  Desktop!DesktopInv'
<1>u. /\ act' = Desktop!Idle /\ act.pc # "idle" /\ Desktop!CloseRaises(selected)
         /\ selected # Desktop!None
      /\ UNCHANGED <<selected, gone, destroyed, finished, left>>
  BY DEF Desktop!OldStays, Desktop!NewStays, Desktop!ShutFails, Desktop!Page, Desktop!Return,
     Desktop!window, Desktop!DesktopInv, Desktop!ActionSound, Desktop!Making
<1>1. PICK k \in Kernels : k = selected
  BY <1>u, DesktopTypes
<1>2. /\ kernel' \in [Kernels -> DesktopKernel] /\ desktop_owner' = desktop_owner
      /\ \A j \in Kernels : Desktop!KernelSound(j)' /\ kernel'[j].pc = kernel[j].pc
  BY <1>u, <1>1, DesktopRaiseFacts
<1>3. Desktop!DesktopTypes'
  BY <1>u, <1>2, DesktopTypes, DesktopTypesAgain, DesktopIdleShape
<1>4. Desktop!ActionSound'
  BY <1>u, <1>1, <1>2, DesktopIdleShape DEF Desktop!DesktopInv, Desktop!ActionSound,
     Desktop!Making
<1>5. Desktop!EndSound'
  BY <1>u, DesktopIdleShape DEF Desktop!DesktopInv, Desktop!EndSound
<1> QED BY <1>2, <1>3, <1>4, <1>5 DEF Desktop!DesktopInv

\* A kernel is made when none is selected, so none runs.
LEMMA DesktopMadeStep ==
    ASSUME Desktop!LaunchNames, Desktop!DesktopInv, NEW k \in Kernels, Desktop!Construct(k)
           \/ Desktop!Restore(k)
    PROVE  Desktop!DesktopInv'
<1>0. PICK p : /\ Desktop!Made(k, p) /\ selected = Desktop!None
               /\ \/ act.pc = "construct" /\ p = act.target
                  \/ act.pc = "restore" /\ p = act.previous
  BY DEF Desktop!Construct, Desktop!Restore, Desktop!Page, Desktop!DesktopInv, Desktop!ActionSound
<1>u. /\ kernel[k].pc = "unborn" /\ selected' = k
      /\ kernel' = [kernel EXCEPT ![k].pc = "made", ![k].project = p]
      /\ act' = [act EXCEPT !.made = k, !.target = p,
                           !.pc = IF act.pc = "construct" THEN "acquire" ELSE "reacquire"]
      /\ UNCHANGED <<desktop_owner, gone, destroyed, finished, left>>
  BY <1>0 DEF Desktop!Made, Desktop!window
<1>p. p \in Projects
  BY <1>0 DEF Desktop!DesktopInv, Desktop!ActionSound
<1>1. kernel' \in [Kernels -> DesktopKernel] /\ kernel'[k].pc = "made"
      /\ kernel'[k].workers = kernel[k].workers
      /\ \A j \in Kernels : j # k => kernel'[j] = kernel[j]
  <2>1. PICK r : r = [kernel[k] EXCEPT !.pc = "made", !.project = p]
    OBVIOUS
  <2>2. r \in DesktopKernel /\ r.pc = "made" /\ r.workers = kernel[k].workers
    BY <1>p, <2>1, DesktopTypes DEF DesktopKernel
  <2>3. kernel' = [kernel EXCEPT ![k] = r]
    BY <1>u, <2>1, DesktopTypes DEF DesktopKernel
  <2> QED BY <2>2, <2>3, DesktopTypes
<1>2. \A j \in Kernels : ~Desktop!Running(j) /\ (Desktop!Holds(j)' <=> Desktop!Holds(j))
  BY <1>0, <1>u, DesktopHoldsKept DEF Desktop!DesktopInv, Desktop!KernelSound, Desktop!LaunchNames
<1>3. \A j \in Kernels : Desktop!KernelSound(j)'
  <2> SUFFICES ASSUME NEW j \in Kernels PROVE Desktop!KernelSound(j)'
    OBVIOUS
  <2>1. kernel'[j].workers = {} /\ ~Desktop!Holds(j)'
    BY <1>1, <1>2 DEF Desktop!Running
  <2>2. kernel'[j].pc = "closed" => ~kernel'[j].dirty
    BY <1>1 DEF Desktop!DesktopInv, Desktop!KernelSound
  <2> QED BY <2>1, <2>2 DEF Desktop!KernelSound, Desktop!Running
<1>4. /\ act'.pc = IF act.pc = "construct" THEN "acquire" ELSE "reacquire"
      /\ act'.target = p /\ act'.made = k
      /\ act' \in [pc : {"idle", "construct", "restore", "close_old", "shut"} \cup Desktop!Making,
                   target : Projects \cup {Desktop!None}, previous : Projects \cup {Desktop!None},
                   made : Kernels \cup {Desktop!None}]
  BY <1>u, <1>p, DesktopTypes DEF Desktop!Making
<1>5. Desktop!DesktopTypes'
  BY <1>u, <1>1, <1>4, DesktopTypes, DesktopTypesAgain
<1>6. Desktop!ActionSound'
  BY <1>u, <1>p, <1>1, <1>4 DEF Desktop!ActionSound, Desktop!Making, Desktop!LaunchNames
<1>7. Desktop!EndSound'
  BY <1>0, <1>u, <1>4 DEF Desktop!DesktopInv, Desktop!EndSound
<1> QED BY <1>3, <1>5, <1>6, <1>7 DEF Desktop!DesktopInv

\* The steps between, which move no kernel.
LEMMA DesktopBetweenStep ==
    ASSUME Desktop!LaunchNames, Desktop!DesktopInv, Desktop!ConstructUnclear \/ Desktop!TargetMoved
    PROVE  Desktop!DesktopInv'
<1>u. /\ act.pc \in {"construct", "restore"}
      /\ act' = Desktop!Idle \/ (act.previous # Desktop!None
         /\ act' = [act EXCEPT !.pc = "restore"])
      /\ UNCHANGED <<kernel, desktop_owner, selected, gone, destroyed, finished, left>>
  BY DEF Desktop!ConstructUnclear, Desktop!TargetMoved, Desktop!Page, Desktop!To, Desktop!Return,
     Desktop!window
<1>1. \A j \in Kernels : Desktop!KernelSound(j)'
  BY <1>u, DesktopKernelsRest
<1>2. Desktop!DesktopTypes'
  BY <1>u, DesktopTypes, DesktopTypesAgain, DesktopIdleShape
<1>3. act'.pc = "idle" \/ (act'.pc = "restore" /\ act'.previous \in Projects)
  BY <1>u, DesktopTypes, DesktopIdleShape
<1>4. Desktop!ActionSound'
  BY <1>u, <1>3 DEF Desktop!DesktopInv, Desktop!ActionSound, Desktop!Making
<1>5. Desktop!EndSound'
  BY <1>u, <1>3 DEF Desktop!DesktopInv, Desktop!EndSound
<1> QED BY <1>1, <1>2, <1>4, <1>5 DEF Desktop!DesktopInv

\* The candidate takes a folder that is free, and no other kernel has one.
LEMMA DesktopAcquireStep == ASSUME Desktop!LaunchNames, Desktop!DesktopInv, Desktop!Acquire
                                   PROVE Desktop!DesktopInv'
<1>u. /\ act.pc \in {"acquire", "reacquire"} /\ desktop_owner[act.target] = Desktop!None
      /\ desktop_owner' = [desktop_owner EXCEPT ![act.target] = act.made]
      /\ act' = [act EXCEPT !.pc = IF act.pc = "acquire" THEN "start" ELSE "restart"]
      /\ UNCHANGED <<kernel, selected, gone, destroyed, finished, left>>
  BY DEF Desktop!Acquire, Desktop!Page, Desktop!To, Desktop!window
<1>1. PICK k \in Kernels : k = selected /\ k = act.made /\ kernel[k].pc = "made"
  BY <1>u, DesktopTypes DEF Desktop!DesktopInv, Desktop!ActionSound, Desktop!Making
<1>2. PICK t \in Projects : t = act.target
  BY <1>u DEF Desktop!DesktopInv, Desktop!ActionSound
<1>3. desktop_owner' \in [Projects -> Kernels \cup {Desktop!None, "other"}]
      /\ desktop_owner' = [desktop_owner EXCEPT ![t] = k]
  BY <1>u, <1>1, <1>2, DesktopTypes
<1>4. Desktop!Holds(k)' /\ \A j \in Kernels : j # k => (Desktop!Holds(j)' <=> Desktop!Holds(j))
  BY <1>u, <1>2, <1>3, DesktopTypes DEF Desktop!Holds, Desktop!LaunchNames
<1>5. \A j \in Kernels : Desktop!KernelSound(j)'
  <2> SUFFICES ASSUME NEW j \in Kernels PROVE Desktop!KernelSound(j)'
    OBVIOUS
  <2>1. Desktop!KernelSound(j)
    BY DEF Desktop!DesktopInv
  <2> QED BY <1>u, <1>1, <1>4, <2>1 DEF Desktop!KernelSound, Desktop!Running
<1>6. act'.pc = (IF act.pc = "acquire" THEN "start" ELSE "restart") /\ act'.target = t
      /\ act'.made = k
  BY <1>u, <1>1, <1>2, DesktopTypes
<1>7. act' \in [pc : {"idle", "construct", "restore", "close_old", "shut"} \cup Desktop!Making,
               target : Projects \cup {Desktop!None}, previous : Projects \cup {Desktop!None},
               made : Kernels \cup {Desktop!None}]
  BY <1>u, DesktopTypes DEF Desktop!Making
<1>8. Desktop!DesktopTypes'
  BY <1>u, <1>3, <1>7, DesktopTypes, DesktopTypesAgain
<1>9. Desktop!ActionSound'
  BY <1>u, <1>1, <1>4, <1>6 DEF Desktop!ActionSound, Desktop!Making, Desktop!LaunchNames
<1>10. Desktop!EndSound'
  BY <1>u, <1>6 DEF Desktop!DesktopInv, Desktop!EndSound
<1> QED BY <1>5, <1>8, <1>9, <1>10 DEF Desktop!DesktopInv

\* A worker starts in a kernel that has its folder's lock.
LEMMA DesktopStartWorkerStep == ASSUME Desktop!LaunchNames, Desktop!DesktopInv,
                                       Desktop!StartWorker PROVE Desktop!DesktopInv'
<1>u. /\ act.pc \in {"start", "restart"}
      /\ kernel' = [kernel EXCEPT ![act.made].workers = IF @ = {} THEN {"legacy"} ELSE {"legacy",
         "api"}]
      /\ UNCHANGED <<desktop_owner, selected, act, gone, destroyed, finished, left>>
  BY DEF Desktop!StartWorker, Desktop!Page, Desktop!window
<1>1. PICK k \in Kernels : k = selected /\ k = act.made /\ kernel[k].pc = "made" /\ Desktop!Holds(k)
  BY <1>u, DesktopTypes DEF Desktop!DesktopInv, Desktop!ActionSound, Desktop!Making
<1>2. /\ kernel' \in [Kernels -> DesktopKernel] /\ kernel'[k].pc = "made"
      /\ \A j \in Kernels : j # k => kernel'[j] = kernel[j]
  BY <1>u, <1>1, DesktopTypes DEF DesktopKernel
<1>3. \A j : Desktop!Holds(j)' <=> Desktop!Holds(j)
  BY <1>u, DesktopHoldsKept
<1>4. \A j \in Kernels : Desktop!KernelSound(j)'
  <2> SUFFICES ASSUME NEW j \in Kernels PROVE Desktop!KernelSound(j)'
    OBVIOUS
  <2>1. Desktop!KernelSound(j)
    BY DEF Desktop!DesktopInv
  <2>2. CASE j = k
    BY <1>u, <1>1, <1>2, <1>3, <2>2 DEF Desktop!KernelSound, Desktop!Running
  <2>3. CASE j # k
    BY <1>u, <1>2, <1>3, <2>1, <2>3 DEF Desktop!KernelSound, Desktop!Running
  <2> QED BY <2>2, <2>3
<1>5. Desktop!DesktopTypes'
  BY <1>u, <1>2, DesktopTypes, DesktopTypesAgain
<1>6. Desktop!ActionSound'
  BY <1>u, <1>1, <1>2, <1>3 DEF Desktop!DesktopInv, Desktop!ActionSound
<1>7. Desktop!EndSound'
  BY <1>u DEF Desktop!DesktopInv, Desktop!EndSound
<1> QED BY <1>4, <1>5, <1>6, <1>7 DEF Desktop!DesktopInv

\* The candidate is ready, or is closed by its own start.
LEMMA DesktopStartEndsStep == ASSUME Desktop!LaunchNames, Desktop!DesktopInv, Desktop!Started
                                     \/ Desktop!StartFails PROVE Desktop!DesktopInv'
<1>u. /\ act.pc \in {"acquire", "reacquire", "start", "restart"}
      /\ UNCHANGED <<desktop_owner, selected, gone, destroyed, finished, left>>
  BY DEF Desktop!Started, Desktop!StartFails, Desktop!Page, Desktop!window
<1>1. PICK k \in Kernels : k = selected /\ k = act.made /\ kernel[k].pc = "made"
  BY <1>u, DesktopTypes DEF Desktop!DesktopInv, Desktop!ActionSound, Desktop!Making
<1>2. PICK r \in DesktopKernel :
          /\ kernel' = [kernel EXCEPT ![k] = r]
          /\ r.workers = kernel[k].workers /\ r.pc \in {"ready", "fenced"}
  <2>1. CASE Desktop!Started
    <3>1. PICK r : r = [kernel[k] EXCEPT !.pc = "ready"]
      OBVIOUS
    <3>2. kernel' = [kernel EXCEPT ![k] = r]
      BY <1>1, <2>1, <3>1 DEF Desktop!Started
    <3>3. r \in DesktopKernel /\ r.workers = kernel[k].workers /\ r.pc = "ready"
      BY <3>1, DesktopTypes DEF DesktopKernel
    <3> QED BY <3>2, <3>3
  <2>2. CASE Desktop!StartFails
    <3>1. PICK soiled \in BOOLEAN :
              kernel' = [kernel EXCEPT ![act.made].pc = "fenced", ![act.made].dirty = @ \/ soiled]
      BY <2>2 DEF Desktop!StartFails
    <3>2. PICK r : r = [kernel[k] EXCEPT !.pc = "fenced", !.dirty = @ \/ soiled]
      OBVIOUS
    <3>3. r \in DesktopKernel /\ r.workers = kernel[k].workers /\ r.pc = "fenced"
      BY <3>2, DesktopTypes DEF DesktopKernel
    <3>4. kernel' = [kernel EXCEPT ![k] = r]
      BY <1>1, <3>1, <3>2, DesktopTypes DEF DesktopKernel
    <3> QED BY <3>3, <3>4
  <2> QED BY <2>1, <2>2
<1>3. kernel' \in [Kernels -> DesktopKernel] /\ \A j \in Kernels : Desktop!KernelSound(j)'
  BY <1>u, <1>2, DesktopKernelMoves
<1>4. kernel'[k].pc \in {"ready", "fenced"}
  BY <1>2, DesktopTypes
<1>5. act' = Desktop!Idle \/ act' = [act EXCEPT !.pc = "close_new"]
      \/ act' = [act EXCEPT !.pc = "close_restored"]
  BY DEF Desktop!Started, Desktop!StartFails, Desktop!Return, Desktop!To
<1>6. /\ act'.pc = "idle" \/ (act'.pc \in {"close_new", "close_restored"} /\ act'.made = k)
      /\ act' \in [pc : {"idle", "construct", "restore", "close_old", "shut"} \cup Desktop!Making,
                   target : Projects \cup {Desktop!None}, previous : Projects \cup {Desktop!None},
                   made : Kernels \cup {Desktop!None}]
  BY <1>1, <1>5, DesktopTypes, DesktopIdleShape DEF Desktop!Making
<1>7. Desktop!DesktopTypes'
  BY <1>u, <1>3, <1>6, DesktopTypes, DesktopTypesAgain
<1>8. Desktop!ActionSound'
  BY <1>u, <1>1, <1>4, <1>6 DEF Desktop!ActionSound, Desktop!Making, Desktop!LaunchNames
<1>9. Desktop!EndSound'
  BY <1>u, <1>6 DEF Desktop!DesktopInv, Desktop!EndSound
<1> QED BY <1>3, <1>7, <1>8, <1>9 DEF Desktop!DesktopInv

\* A candidate that has closed makes room for the previous project, or stays closed.
LEMMA DesktopCandidateClosedStep ==
    ASSUME Desktop!LaunchNames, Desktop!DesktopInv, Desktop!NewClosed \/ Desktop!RestoredClosed
    PROVE  Desktop!DesktopInv'
<1>u. /\ act.pc \in {"close_new", "close_restored"} /\ Desktop!Closed(act.made)
      /\ \/ selected' = Desktop!None /\ act.previous # Desktop!None
            /\ act' = [act EXCEPT !.pc = "restore"]
         \/ selected' \in {Desktop!None, selected} /\ act' = Desktop!Idle
      /\ UNCHANGED <<gone, destroyed, finished, left>>
  <2>1. CASE Desktop!NewClosed
    <3>1. act.pc = "close_new" /\ Desktop!Closed(act.made) /\ selected' = Desktop!None
          /\ UNCHANGED Desktop!window
      BY <2>1 DEF Desktop!NewClosed, Desktop!Page
    <3>2. \/ act' = Desktop!Idle
          \/ act.previous # Desktop!None /\ act' = [act EXCEPT !.pc = "restore"]
      BY <2>1 DEF Desktop!NewClosed, Desktop!To, Desktop!Return
    <3> QED BY <3>1, <3>2 DEF Desktop!window
  <2>2. CASE Desktop!RestoredClosed
    BY <2>2 DEF Desktop!RestoredClosed, Desktop!Page, Desktop!Return, Desktop!window
  <2> QED BY <2>1, <2>2
<1>1. PICK k \in Kernels : k = selected /\ k = act.made
  BY <1>u, DesktopTypes DEF Desktop!DesktopInv, Desktop!ActionSound, Desktop!Making
<1>2. /\ kernel' \in [Kernels -> DesktopKernel]
      /\ desktop_owner' \in [Projects -> Kernels \cup {Desktop!None, "other"}]
      /\ \A j \in Kernels : Desktop!KernelSound(j)'
      /\ kernel'[k].pc = "closed"
  BY <1>u, <1>1, DesktopCloseFacts
<1>3. Desktop!DesktopTypes'
  BY <1>u, <1>1, <1>2, DesktopTypes, DesktopTypesAgain, DesktopIdleShape
<1>4. act'.pc = "idle" \/ (act'.pc = "restore" /\ selected' = Desktop!None
      /\ act'.previous \in Projects)
  BY <1>u, DesktopTypes, DesktopIdleShape
<1>5. Desktop!ActionSound'
  BY <1>u, <1>1, <1>2, <1>4 DEF Desktop!ActionSound, Desktop!Making, Desktop!LaunchNames
<1>6. Desktop!EndSound'
  BY <1>u, <1>4 DEF Desktop!DesktopInv, Desktop!EndSound
<1> QED BY <1>2, <1>3, <1>5, <1>6 DEF Desktop!DesktopInv

\* The close of the switcher fences what is selected.
LEMMA DesktopShutFacts ==
    ASSUME Desktop!LaunchNames, Desktop!DesktopInv, act.pc = "idle", Desktop!Shut,
           UNCHANGED <<desktop_owner, selected>>
    PROVE  /\ kernel' \in [Kernels -> DesktopKernel]
           /\ \A j \in Kernels : Desktop!KernelSound(j)'
           /\ act' \in [pc : {"idle", "construct", "restore", "close_old",
              "shut"} \cup Desktop!Making,
                        target : Projects \cup {Desktop!None},
                            previous : Projects \cup {Desktop!None},
                        made : Kernels \cup {Desktop!None}]
           /\ act'.pc \in {"idle", "shut"}
           /\ selected # Desktop!None => kernel'[selected].pc # "unborn"
<1>1. act' = act \/ act' = [act EXCEPT !.pc = "shut"]
  BY DEF Desktop!Shut, Desktop!To
<1>2. CASE kernel' = kernel
  <2>1. \A j \in Kernels : Desktop!KernelSound(j)'
    BY <1>2, DesktopKernelsRest
  <2> QED BY <1>1, <1>2, <2>1, DesktopTypes DEF Desktop!DesktopInv, Desktop!ActionSound
<1>3. CASE selected # Desktop!None /\ Desktop!Fence(selected)
  <2>1. PICK k \in Kernels : k = selected /\ kernel[k].pc # "unborn"
    BY <1>3, DesktopTypes DEF Desktop!DesktopInv, Desktop!ActionSound
  <2>2. /\ kernel' \in [Kernels -> DesktopKernel]
        /\ \A j \in Kernels : Desktop!KernelSound(j)'
        /\ kernel'[k].pc # "unborn"
    BY <1>3, <2>1, DesktopFenceFacts
  <2> QED BY <1>1, <2>1, <2>2, DesktopTypes
<1> QED BY <1>2, <1>3 DEF Desktop!Shut

\* The window closes or is lost; the page's action goes on.
LEMMA DesktopWindowStep ==
    ASSUME Desktop!LaunchNames, Desktop!DesktopInv, Desktop!NativeClosing \/ Desktop!WindowLost
           \/ Desktop!FinalClose
    PROVE  Desktop!DesktopInv'
<1>u. /\ UNCHANGED <<desktop_owner, selected, finished>>
      /\ gone' \in BOOLEAN /\ (gone => gone') /\ left' \in {"open", "returned", "closing"}
      /\ left' # "open" => gone'
  BY DesktopTypes DEF Desktop!NativeClosing, Desktop!WindowLost, Desktop!FinalClose, Desktop!Shut,
     Desktop!window, Desktop!DesktopInv, Desktop!EndSound
<1>1. \/ UNCHANGED <<kernel, act>> /\ (destroyed' = destroyed \/ (destroyed' = TRUE /\ finished))
      \/ Desktop!Shut /\ act.pc = "idle" /\ ~finished /\ destroyed' = destroyed /\ gone'
  <2>1. CASE Desktop!NativeClosing
    BY <2>1 DEF Desktop!NativeClosing, Desktop!Page
  <2>2. CASE Desktop!WindowLost
    BY <2>2 DEF Desktop!WindowLost
  <2>3. CASE Desktop!FinalClose
    BY <2>3 DEF Desktop!FinalClose, Desktop!Page, Desktop!DesktopInv, Desktop!EndSound
  <2> QED BY <2>1, <2>2, <2>3
<1>2. CASE UNCHANGED <<kernel, act>> /\ (destroyed' = destroyed \/ (destroyed' = TRUE /\ finished))
  <2>1. Desktop!DesktopTypes'
    BY <1>u, <1>2, DesktopTypes, DesktopTypesAgain
  <2>2. \A j \in Kernels : Desktop!KernelSound(j)'
    BY <1>u, <1>2, DesktopKernelsRest
  <2>3. Desktop!ActionSound'
    BY <1>u, <1>2, DesktopHoldsKept DEF Desktop!DesktopInv, Desktop!ActionSound
  <2>4. Desktop!EndSound'
    BY <1>u, <1>2 DEF Desktop!DesktopInv, Desktop!EndSound
  <2> QED BY <2>1, <2>2, <2>3, <2>4 DEF Desktop!DesktopInv
<1>3. CASE Desktop!Shut /\ act.pc = "idle" /\ ~finished /\ destroyed' = destroyed /\ gone'
  <2>1. /\ kernel' \in [Kernels -> DesktopKernel]
        /\ \A j \in Kernels : Desktop!KernelSound(j)'
        /\ act' \in [pc : {"idle", "construct", "restore", "close_old", "shut"} \cup Desktop!Making,
                     target : Projects \cup {Desktop!None}, previous : Projects \cup {Desktop!None},
                     made : Kernels \cup {Desktop!None}]
        /\ act'.pc \in {"idle", "shut"}
        /\ selected # Desktop!None => kernel'[selected].pc # "unborn"
    BY <1>u, <1>3, DesktopShutFacts
  <2>2. Desktop!DesktopTypes'
    BY <1>u, <1>3, <2>1, DesktopTypes, DesktopTypesAgain
  <2>3. Desktop!ActionSound'
    BY <1>u, <2>1 DEF Desktop!ActionSound, Desktop!Making
  <2>4. Desktop!EndSound'
    BY <1>u, <1>3 DEF Desktop!DesktopInv, Desktop!EndSound
  <2> QED BY <2>1, <2>2, <2>3, <2>4 DEF Desktop!DesktopInv
<1> QED BY <1>1, <1>2, <1>3

\* The desktop counts its projects as closed only when the last kernel has closed.
LEMMA DesktopShutDoneStep == ASSUME Desktop!LaunchNames, Desktop!DesktopInv, Desktop!ShutDone
                                    PROVE Desktop!DesktopInv'
<1>u. /\ act.pc = "shut" /\ selected' = Desktop!None /\ act' = Desktop!Idle
      /\ IF selected = Desktop!None THEN UNCHANGED <<kernel,
                                                     desktop_owner>> ELSE Desktop!Closed(selected)
      /\ finished' \in BOOLEAN /\ destroyed' \in BOOLEAN /\ (destroyed' => finished')
      /\ UNCHANGED <<gone, left>>
  BY DEF Desktop!ShutDone, Desktop!Page, Desktop!Return
<1>1. /\ kernel' \in [Kernels -> DesktopKernel]
      /\ desktop_owner' \in [Projects -> Kernels \cup {Desktop!None, "other"}]
      /\ \A j \in Kernels : Desktop!KernelSound(j)'
  <2>1. CASE selected = Desktop!None
    <3>1. \A j \in Kernels : Desktop!KernelSound(j)'
      BY <1>u, <2>1, DesktopKernelsRest
    <3> QED BY <1>u, <2>1, <3>1, DesktopTypes
  <2>2. CASE selected # Desktop!None
    <3>1. PICK k \in Kernels : k = selected
      BY <2>2, DesktopTypes
    <3> QED BY <1>u, <2>2, <3>1, DesktopCloseFacts
  <2> QED BY <2>1, <2>2
<1>2. Desktop!DesktopTypes'
  BY <1>u, <1>1, DesktopTypes, DesktopTypesAgain, DesktopIdleShape
<1>3. Desktop!ActionSound'
  BY <1>u, DesktopIdleShape DEF Desktop!ActionSound, Desktop!Making
<1>4. Desktop!EndSound'
  BY <1>u, DesktopIdleShape DEF Desktop!DesktopInv, Desktop!EndSound
<1> QED BY <1>1, <1>2, <1>3, <1>4 DEF Desktop!DesktopInv

\* The catalog's failures and a stutter are nothing to the kernels.
LEMMA DesktopRestStep == ASSUME Desktop!DesktopInv, Desktop!CatalogFails
                                \/ UNCHANGED Desktop!vars PROVE Desktop!DesktopInv'
<1>u. UNCHANGED <<kernel, desktop_owner, selected, act, gone, destroyed, finished, left>>
  BY DEF Desktop!CatalogFails, Desktop!vars, Desktop!window
<1>1. \A j \in Kernels : Desktop!KernelSound(j)'
  BY <1>u, DesktopKernelsRest
<1>2. Desktop!DesktopTypes'
  BY <1>u, DesktopTypes, DesktopTypesAgain
<1>3. Desktop!ActionSound' /\ Desktop!EndSound'
  BY <1>u, DesktopHoldsKept DEF Desktop!DesktopInv, Desktop!ActionSound, Desktop!EndSound
<1> QED BY <1>1, <1>2, <1>3 DEF Desktop!DesktopInv

LEMMA DesktopNextStep == ASSUME Desktop!LaunchNames, Desktop!DesktopInv,
                                [Desktop!Next]_(Desktop!vars) PROVE Desktop!DesktopInv'
<1>1. ASSUME NEW p \in Projects, Desktop!Switch(p) \/ Desktop!Foreign(p) PROVE Desktop!DesktopInv'
  BY <1>1, DesktopSwitchStep, DesktopForeignStep
<1>2. ASSUME NEW k \in Kernels, Desktop!Construct(k) \/ Desktop!Restore(k) PROVE Desktop!DesktopInv'
  BY <1>2, DesktopMadeStep
<1>3. ASSUME NEW k \in Kernels, NEW w \in {"legacy", "api"}, Desktop!WorkerEnds(k, w)
             PROVE Desktop!DesktopInv'
  BY <1>3, DesktopWorkerEndsStep
<1>4. CASE Desktop!OldClosed \/ Desktop!OldStays \/ Desktop!ConstructUnclear
           \/ Desktop!TargetMoved \/ Desktop!Acquire \/ Desktop!StartWorker \/ Desktop!Started
  BY <1>4, DesktopOldClosedStep, DesktopStaysStep, DesktopBetweenStep, DesktopAcquireStep,
     DesktopStartWorkerStep, DesktopStartEndsStep
<1>5. CASE Desktop!StartFails \/ Desktop!NewClosed \/ Desktop!NewStays \/ Desktop!RestoredClosed
           \/ Desktop!CatalogFails
  BY <1>5, DesktopStartEndsStep, DesktopCandidateClosedStep, DesktopStaysStep, DesktopRestStep
<1>6. CASE Desktop!NativeClosing \/ Desktop!WindowLost \/ Desktop!FinalClose \/ Desktop!ShutDone
           \/ Desktop!ShutFails \/ UNCHANGED Desktop!vars
  BY <1>6, DesktopWindowStep, DesktopShutDoneStep, DesktopStaysStep, DesktopRestStep
<1> QED BY <1>1, <1>2, <1>3, <1>4, <1>5, <1>6 DEF Desktop!Next

\* The invariant says what the desktop promises.
LEMMA DesktopSound == ASSUME Desktop!LaunchNames, Desktop!DesktopInv PROVE Desktop!DesktopOwnsOne
<1>1. Desktop!SingleKernel /\ Desktop!ReleasedIsDrained
  BY DEF Desktop!DesktopInv, Desktop!KernelSound, Desktop!SingleKernel, Desktop!ReleasedIsDrained
<1>2. Desktop!ClosedLeavesNothing
  BY DEF Desktop!DesktopInv, Desktop!KernelSound, Desktop!EndSound, Desktop!ClosedLeavesNothing,
     Desktop!LaunchNames
<1> QED BY <1>1, <1>2 DEF Desktop!DesktopOwnsOne

-----------------------------------------------------------------------------
(* InverseReviews: any reviews, edits and crashes *)

InverseRecord == [status : Undo!Statuses, overdue : BOOLEAN, decision : {"", "approve", "reject"}]
InverseUndecided == {"pending", "applying", "indeterminate"}

LEMMA InverseInitInv == Undo!Init => Undo!ReviewsInv
<1> SUFFICES ASSUME Undo!Init PROVE Undo!ReviewsInv
  OBVIOUS
<1>1. Undo!TypeOK
  BY DEF Undo!Init, Undo!TypeOK, Undo!Statuses
<1>2. ASSUME NEW r \in InverseIds PROVE Undo!ReviewSound(r)
  <2>1. review[r].status = "none" /\ review[r].decision = ""
    BY DEF Undo!Init
  <2>2. inverse_row[r] = "none" /\ entered[r] = 0
    BY DEF Undo!Init
  <2> QED BY <2>1, <2>2 DEF Undo!ReviewSound, Undo!Status
<1>3. Undo!WorkSound /\ Undo!UndecidedKeepsPreimage
  BY DEF Undo!Init, Undo!WorkSound, Undo!UndecidedKeepsPreimage
<1> QED BY <1>1, <1>2, <1>3 DEF Undo!ReviewsInv

\* One review moves that no operation applies; the other stores stay.
LEMMA InverseReviewStep ==
    ASSUME Undo!ReviewsInv, NEW r \in InverseIds, NEW v \in InverseRecord,
           review' = [review EXCEPT ![r] = v],
           UNCHANGED <<files, preimage, inverse_row, inverse_receipt, entered, inverse_work>>,
           inverse_work # Undo!Idle => inverse_work.r # r,
           Undo!ReviewSound(r)', v.status \in InverseUndecided => preimage
    PROVE  Undo!ReviewsInv'
<1>1. Undo!TypeOK'
  BY DEF Undo!ReviewsInv, Undo!TypeOK, InverseRecord
<1>2. ASSUME NEW d \in InverseIds, d # r PROVE Undo!ReviewSound(d)'
  BY <1>2 DEF Undo!ReviewsInv, Undo!TypeOK, Undo!ReviewSound, Undo!Status
<1>3. Undo!WorkSound'
  BY DEF Undo!ReviewsInv, Undo!TypeOK, Undo!WorkSound, Undo!Status, Undo!Idle
<1>4. Undo!UndecidedKeepsPreimage'
  BY DEF Undo!ReviewsInv, Undo!TypeOK, Undo!UndecidedKeepsPreimage, Undo!Status, InverseUndecided,
     InverseRecord
<1> QED BY <1>1, <1>2, <1>3, <1>4 DEF Undo!ReviewsInv

\* A review is prepared while the preimage is there, before anybody decided.
LEMMA InversePrepareStep ==
    ASSUME Undo!ReviewsInv, NEW r \in InverseIds, Undo!Prepare(r)
    PROVE  Undo!ReviewsInv'
<1> DEFINE v == [review[r] EXCEPT !.status = "pending"]
<1>1. /\ review \in [InverseIds -> InverseRecord] /\ Undo!ReviewSound(r)
      /\ Undo!WorkSound /\ Undo!UndecidedKeepsPreimage
  BY DEF Undo!ReviewsInv, Undo!TypeOK, InverseRecord
<1>2. /\ v \in InverseRecord
      /\ review' = [review EXCEPT ![r] = v]
  BY <1>1 DEF Undo!Prepare, Undo!SetStatus, InverseRecord, Undo!Statuses
<1>3. /\ UNCHANGED <<files, preimage, inverse_row, inverse_receipt, entered, inverse_work>>
      /\ inverse_work # Undo!Idle => inverse_work.r # r
  BY <1>1 DEF Undo!Prepare, Undo!Still, Undo!Free, Undo!Status
<1>4. review'[r] = v
  BY <1>1, <1>2
<1>5. Undo!ReviewSound(r)' /\ (v.status \in InverseUndecided => preimage)
  BY <1>1, <1>3, <1>4 DEF Undo!Prepare, Undo!ReviewSound, Undo!Status, InverseRecord,
     InverseUndecided
<1> QED BY <1>2, <1>3, <1>5, InverseReviewStep

\* A replayed preparation finds the review's time over and expires it.
LEMMA InversePrepareReplayStep ==
    ASSUME Undo!ReviewsInv, NEW r \in InverseIds, Undo!PrepareReplay(r)
    PROVE  Undo!ReviewsInv'
<1> DEFINE v == [review[r] EXCEPT !.status = "expired"]
<1>1. /\ review \in [InverseIds -> InverseRecord] /\ Undo!ReviewSound(r)
      /\ Undo!WorkSound /\ Undo!UndecidedKeepsPreimage
  BY DEF Undo!ReviewsInv, Undo!TypeOK, InverseRecord
<1>2. /\ v \in InverseRecord
      /\ review' = [review EXCEPT ![r] = v]
  BY <1>1 DEF Undo!PrepareReplay, Undo!SetStatus, InverseRecord, Undo!Statuses
<1>3. /\ UNCHANGED <<files, preimage, inverse_row, inverse_receipt, entered, inverse_work>>
      /\ inverse_work # Undo!Idle => inverse_work.r # r
  BY <1>1 DEF Undo!PrepareReplay, Undo!Still, Undo!Free, Undo!Status
<1>4. review'[r] = v
  BY <1>1, <1>2
<1>5. Undo!ReviewSound(r)' /\ (v.status \in InverseUndecided => preimage)
  BY <1>1, <1>3, <1>4 DEF Undo!PrepareReplay, Undo!ReviewSound, Undo!Status, InverseRecord,
     InverseUndecided, Undo!Lapsed
<1> QED BY <1>2, <1>3, <1>5, InverseReviewStep

\* A claim finds it over and expires the review.
LEMMA InverseClaimLapsedStep ==
    ASSUME Undo!ReviewsInv, NEW r \in InverseIds, Undo!ClaimLapsed(r)
    PROVE  Undo!ReviewsInv'
<1> DEFINE v == [review[r] EXCEPT !.status = "expired"]
<1>1. /\ review \in [InverseIds -> InverseRecord] /\ Undo!ReviewSound(r)
      /\ Undo!WorkSound /\ Undo!UndecidedKeepsPreimage
  BY DEF Undo!ReviewsInv, Undo!TypeOK, InverseRecord
<1>2. /\ v \in InverseRecord
      /\ review' = [review EXCEPT ![r] = v]
  BY <1>1 DEF Undo!ClaimLapsed, Undo!SetStatus, InverseRecord, Undo!Statuses
<1>3. /\ UNCHANGED <<files, preimage, inverse_row, inverse_receipt, entered, inverse_work>>
      /\ inverse_work # Undo!Idle => inverse_work.r # r
  BY <1>1 DEF Undo!ClaimLapsed, Undo!Still, Undo!Free, Undo!Status
<1>4. review'[r] = v
  BY <1>1, <1>2
<1>5. Undo!ReviewSound(r)' /\ (v.status \in InverseUndecided => preimage)
  BY <1>1, <1>3, <1>4 DEF Undo!ClaimLapsed, Undo!ReviewSound, Undo!Status, InverseRecord,
     InverseUndecided, Undo!Lapsed
<1> QED BY <1>2, <1>3, <1>5, InverseReviewStep

\* Retention expires it too.
LEMMA InverseRetainReviewsStep ==
    ASSUME Undo!ReviewsInv, NEW r \in InverseIds, Undo!RetainReviews(r)
    PROVE  Undo!ReviewsInv'
<1> DEFINE v == [review[r] EXCEPT !.status = "expired"]
<1>1. /\ review \in [InverseIds -> InverseRecord] /\ Undo!ReviewSound(r)
      /\ Undo!WorkSound /\ Undo!UndecidedKeepsPreimage
  BY DEF Undo!ReviewsInv, Undo!TypeOK, InverseRecord
<1>2. /\ v \in InverseRecord
      /\ review' = [review EXCEPT ![r] = v]
  BY <1>1 DEF Undo!RetainReviews, Undo!SetStatus, InverseRecord, Undo!Statuses
<1>3. /\ UNCHANGED <<files, preimage, inverse_row, inverse_receipt, entered, inverse_work>>
      /\ inverse_work # Undo!Idle => inverse_work.r # r
  BY <1>1 DEF Undo!RetainReviews, Undo!Still, Undo!Free, Undo!Status
<1>4. review'[r] = v
  BY <1>1, <1>2
<1>5. Undo!ReviewSound(r)' /\ (v.status \in InverseUndecided => preimage)
  BY <1>1, <1>3, <1>4 DEF Undo!RetainReviews, Undo!ReviewSound, Undo!Status, InverseRecord,
     InverseUndecided, Undo!Lapsed
<1> QED BY <1>2, <1>3, <1>5, InverseReviewStep

\* A rejected review has no row.
LEMMA InverseClaimRejectStep ==
    ASSUME Undo!ReviewsInv, NEW r \in InverseIds, Undo!ClaimReject(r)
    PROVE  Undo!ReviewsInv'
<1> DEFINE v == [review[r] EXCEPT !.status = "rejected", !.decision = "reject"]
<1>1. /\ review \in [InverseIds -> InverseRecord] /\ Undo!ReviewSound(r)
      /\ Undo!WorkSound /\ Undo!UndecidedKeepsPreimage
  BY DEF Undo!ReviewsInv, Undo!TypeOK, InverseRecord
<1>2. /\ v \in InverseRecord
      /\ review' = [review EXCEPT ![r] = v]
  BY <1>1 DEF Undo!ClaimReject, Undo!SetStatus, InverseRecord, Undo!Statuses
<1>3. /\ UNCHANGED <<files, preimage, inverse_row, inverse_receipt, entered, inverse_work>>
      /\ inverse_work # Undo!Idle => inverse_work.r # r
  BY <1>1 DEF Undo!ClaimReject, Undo!Still, Undo!Free, Undo!Status
<1>4. review'[r] = v
  BY <1>1, <1>2
<1>5. Undo!ReviewSound(r)' /\ (v.status \in InverseUndecided => preimage)
  <2>1. review[r].decision # "approve" /\ inverse_row[r] = "none"
    BY <1>1 DEF Undo!ClaimReject, Undo!ReviewSound, Undo!Status
  <2>2. inverse_row'[r] = "none" /\ entered'[r] = 0 /\ v.status = "rejected"
        /\ v.decision = "reject"
    BY <1>1, <1>3, <2>1 DEF Undo!ReviewSound, InverseRecord
  <2> QED BY <1>4, <2>2 DEF Undo!ReviewSound, Undo!Status, InverseUndecided
<1> QED BY <1>2, <1>3, <1>5, InverseReviewStep

\* Reconciliation concludes from the sealed row.
LEMMA InverseReconcileStep ==
    ASSUME Undo!ReviewsInv, NEW r \in InverseIds, Undo!Reconcile(r)
    PROVE  Undo!ReviewsInv'
<1> DEFINE v == [review[r] EXCEPT !.status = Undo!Evidence(r)]
<1>1. /\ review \in [InverseIds -> InverseRecord] /\ Undo!ReviewSound(r)
      /\ Undo!WorkSound /\ Undo!UndecidedKeepsPreimage
  BY DEF Undo!ReviewsInv, Undo!TypeOK, InverseRecord
<1>2. /\ v \in InverseRecord
      /\ review' = [review EXCEPT ![r] = v]
  BY <1>1 DEF Undo!Reconcile, Undo!SetStatus, InverseRecord, Undo!Statuses, Undo!Evidence
<1>3. /\ UNCHANGED <<files, preimage, inverse_row, inverse_receipt, entered, inverse_work>>
      /\ inverse_work # Undo!Idle => inverse_work.r # r
  BY <1>1 DEF Undo!Reconcile, Undo!Still, Undo!Free, Undo!Status
<1>4. review'[r] = v
  BY <1>1, <1>2
<1>5. Undo!ReviewSound(r)' /\ (v.status \in InverseUndecided => preimage)
  BY <1>1, <1>3, <1>4 DEF Undo!Reconcile, Undo!ReviewSound, Undo!Status, InverseRecord,
     InverseUndecided, Undo!Evidence, Undo!UndecidedKeepsPreimage
<1> QED BY <1>2, <1>3, <1>5, InverseReviewStep

\* The clock does not decide a review.
LEMMA InverseOverdueStep ==
    ASSUME Undo!ReviewsInv, NEW r \in InverseIds, Undo!Overdue(r)
    PROVE  Undo!ReviewsInv'
<1> DEFINE v == [review[r] EXCEPT !.overdue = TRUE]
<1>1. /\ review \in [InverseIds -> InverseRecord] /\ Undo!ReviewSound(r)
      /\ Undo!WorkSound /\ Undo!UndecidedKeepsPreimage
  BY DEF Undo!ReviewsInv, Undo!TypeOK, InverseRecord
<1>2. /\ v \in InverseRecord
      /\ review' = [review EXCEPT ![r] = v]
  BY <1>1 DEF Undo!Overdue, Undo!SetStatus, InverseRecord, Undo!Statuses
<1>3. /\ UNCHANGED <<files, preimage, inverse_row, inverse_receipt, entered, inverse_work>>
      /\ inverse_work # Undo!Idle => inverse_work.r # r
  BY <1>1 DEF Undo!Overdue, Undo!Still, Undo!WorkSound, Undo!Status
<1>4. review'[r] = v
  BY <1>1, <1>2
<1>5. Undo!ReviewSound(r)' /\ (v.status \in InverseUndecided => preimage)
  BY <1>1, <1>3, <1>4 DEF Undo!Overdue, Undo!ReviewSound, Undo!Status, InverseRecord,
     InverseUndecided, Undo!UndecidedKeepsPreimage
<1> QED BY <1>2, <1>3, <1>5, InverseReviewStep

-----------------------------------------------------------------------------
(* The operation that applies a review *)

\* What the invariant says of the review that is being applied.
LEMMA InverseWorkFacts ==
    ASSUME Undo!ReviewsInv, inverse_work # Undo!Idle
    PROVE  /\ inverse_work.r \in InverseIds
           /\ inverse_work \in [pc : {"bind", "reserve", "effect", "seal", "seal_failed", "except",
                             "finish"}, r : InverseIds]
           /\ Undo!ReviewSound(inverse_work.r) /\ Undo!WorkSound /\ Undo!UndecidedKeepsPreimage
BY DEF Undo!ReviewsInv, Undo!TypeOK

\* Its step changes the row, the receipt and the count of that review only.
LEMMA InverseRowStep ==
    ASSUME Undo!ReviewsInv, inverse_work # Undo!Idle, NEW r \in InverseIds, r = inverse_work.r,
           UNCHANGED <<preimage, review>>,
           files' \in {"after", "before", "other"},
           NEW w \in {"none", "running", "completed", "failed"},
           NEW e \in {"none", "prepared", "applied", "failed"}, NEW n \in Nat,
           inverse_row' = [inverse_row EXCEPT ![r] = w],
           inverse_receipt' = [inverse_receipt EXCEPT ![r] = e],
           entered' = [entered EXCEPT ![r] = n],
           inverse_work' \in {Undo!Idle} \cup [pc : {"bind", "reserve", "effect", "seal",
               "seal_failed",
                                      "except", "finish"}, r : {r}],
           Undo!ReviewSound(r)', Undo!WorkSound'
    PROVE  Undo!ReviewsInv'
<1>0. Undo!TypeOK
  BY DEF Undo!ReviewsInv
<1>1. Undo!TypeOK'
  <2>1. inverse_row' \in [InverseIds -> {"none", "running", "completed", "failed"}]
    BY <1>0 DEF Undo!TypeOK
  <2>2. inverse_receipt' \in [InverseIds -> {"none", "prepared", "applied", "failed"}]
    BY <1>0 DEF Undo!TypeOK
  <2>3. entered' \in [InverseIds -> Nat]
    BY <1>0 DEF Undo!TypeOK
  <2>4. inverse_work' \in {Undo!Idle} \cup [pc : {"bind", "reserve", "effect", "seal",
        "seal_failed",
                                  "except", "finish"}, r : InverseIds]
    OBVIOUS
  <2>5. review' \in [InverseIds -> [status : Undo!Statuses, overdue : BOOLEAN,
                                decision : {"", "approve", "reject"}]]
    BY <1>0 DEF Undo!TypeOK
  <2> QED BY <2>1, <2>2, <2>3, <2>4, <2>5 DEF Undo!TypeOK
<1>2. ASSUME NEW d \in InverseIds, d # r PROVE Undo!ReviewSound(d)'
  BY <1>2 DEF Undo!ReviewsInv, Undo!TypeOK, Undo!ReviewSound, Undo!Status
<1>3. Undo!UndecidedKeepsPreimage'
  <2>1. preimage' = preimage /\ review' = review /\ Undo!UndecidedKeepsPreimage
    BY DEF Undo!ReviewsInv
  <2> QED BY <2>1 DEF Undo!UndecidedKeepsPreimage, Undo!Status
<1> QED BY <1>1, <1>2, <1>3 DEF Undo!ReviewsInv

\* A step that only moves the operation on.
LEMMA InverseMoveStep ==
    ASSUME Undo!ReviewsInv, UNCHANGED <<files, preimage, review, inverse_row, inverse_receipt,
                                        entered>>,
           inverse_work' \in {Undo!Idle} \cup [pc : {"bind", "reserve", "effect", "seal",
               "seal_failed",
                                      "except", "finish"}, r : InverseIds],
           Undo!WorkSound'
    PROVE  Undo!ReviewsInv'
<1>1. Undo!TypeOK'
  BY DEF Undo!ReviewsInv, Undo!TypeOK
<1>2. ASSUME NEW d \in InverseIds PROVE Undo!ReviewSound(d)'
  BY <1>2 DEF Undo!ReviewsInv, Undo!ReviewSound, Undo!Status
<1>3. Undo!UndecidedKeepsPreimage'
  BY DEF Undo!ReviewsInv, Undo!UndecidedKeepsPreimage, Undo!Status
<1> QED BY <1>1, <1>2, <1>3 DEF Undo!ReviewsInv

\* An approval starts the operation of a review that has no row yet.
LEMMA InverseClaimApproveStep ==
    ASSUME Undo!ReviewsInv, NEW r \in InverseIds, Undo!ClaimApprove(r)
    PROVE  Undo!ReviewsInv'
<1> DEFINE v == [review[r] EXCEPT !.status = "applying", !.decision = "approve"]
<1>1. /\ review \in [InverseIds -> InverseRecord] /\ Undo!ReviewSound(r) /\ Undo!TypeOK
      /\ Undo!UndecidedKeepsPreimage
  BY DEF Undo!ReviewsInv, Undo!TypeOK, InverseRecord
<1>2. /\ v \in InverseRecord /\ v.status = "applying" /\ v.decision = "approve"
      /\ review' = [review EXCEPT ![r] = v]
  BY <1>1 DEF Undo!ClaimApprove, InverseRecord, Undo!Statuses
<1>3. /\ UNCHANGED <<files, preimage, inverse_row, inverse_receipt, entered>>
      /\ inverse_work' = [pc |-> "bind", r |-> r] /\ Undo!Status(r) = "pending"
  BY DEF Undo!ClaimApprove, Undo!Still
<1>4. review'[r] = v
  BY <1>1, <1>2
<1>5. inverse_row[r] = "none" /\ entered[r] = 0
  BY <1>1, <1>3 DEF Undo!ReviewSound
<1>6. Undo!TypeOK'
  BY <1>1, <1>2, <1>3 DEF Undo!TypeOK, InverseRecord
<1>7. ASSUME NEW d \in InverseIds PROVE Undo!ReviewSound(d)'
  <2>1. CASE d = r
    BY <1>2, <1>3, <1>4, <1>5, <2>1 DEF Undo!ReviewSound, Undo!Status
  <2>2. CASE d # r
    BY <1>1, <1>2, <1>3, <2>2 DEF Undo!ReviewsInv, Undo!ReviewSound, Undo!Status
  <2> QED BY <2>1, <2>2
<1>8. Undo!WorkSound'
  BY <1>2, <1>3, <1>4, <1>5 DEF Undo!WorkSound, Undo!Status
<1>9. Undo!UndecidedKeepsPreimage'
  BY <1>1, <1>2, <1>3 DEF Undo!UndecidedKeepsPreimage, Undo!Status
<1> QED BY <1>6, <1>7, <1>8, <1>9 DEF Undo!ReviewsInv

\* The source is checked again; nothing else happens.
LEMMA InverseBindStep ==
    ASSUME Undo!ReviewsInv, Undo!Bind
    PROVE  Undo!ReviewsInv'
<1>1. inverse_work # Undo!Idle
  BY DEF Undo!Bind, Undo!At, Undo!Idle
<1>2. PICK r \in InverseIds : r = inverse_work.r
  BY <1>1, InverseWorkFacts
<1>3. /\ inverse_work \in [pc : {"bind", "reserve", "effect", "seal", "seal_failed", "except",
                        "finish"}, r : InverseIds]
      /\ review \in [InverseIds -> InverseRecord]
      /\ inverse_row \in [InverseIds -> {"none", "running", "completed", "failed"}]
      /\ inverse_receipt \in [InverseIds -> {"none", "prepared", "applied", "failed"}]
      /\ entered \in [InverseIds -> Nat]
      /\ files \in {"after", "before", "other"}
      /\ Undo!WorkSound /\ Undo!ReviewSound(r) /\ Undo!UndecidedKeepsPreimage
  BY <1>1, <1>2, InverseWorkFacts DEF Undo!ReviewsInv, Undo!TypeOK, InverseRecord
<1>4. UNCHANGED <<files, preimage, review, inverse_row, inverse_receipt, entered>>
  BY DEF Undo!Bind, Undo!Still
<1>5. /\ inverse_work' \in [pc : {"reserve", "except", "seal_failed"}, r : InverseIds]
      /\ inverse_work'.r = r
      /\ inverse_work'.pc = "reserve" => inverse_work.pc = "bind"
      /\ inverse_work'.pc = "seal_failed" => inverse_work.pc = "effect"
  BY <1>2, <1>3 DEF Undo!Bind, Undo!Goto, Undo!At
<1>6. Undo!WorkSound'
  BY <1>1, <1>2, <1>3, <1>4, <1>5 DEF Undo!WorkSound, Undo!Status
<1> QED BY <1>4, <1>5, <1>6, InverseMoveStep

\* A refusal comes before any effect.
LEMMA InverseRefuseStep ==
    ASSUME Undo!ReviewsInv, Undo!Refuse
    PROVE  Undo!ReviewsInv'
<1>1. inverse_work # Undo!Idle
  BY DEF Undo!Refuse, Undo!At, Undo!Idle
<1>2. PICK r \in InverseIds : r = inverse_work.r
  BY <1>1, InverseWorkFacts
<1>3. /\ inverse_work \in [pc : {"bind", "reserve", "effect", "seal", "seal_failed", "except",
                        "finish"}, r : InverseIds]
      /\ review \in [InverseIds -> InverseRecord]
      /\ inverse_row \in [InverseIds -> {"none", "running", "completed", "failed"}]
      /\ inverse_receipt \in [InverseIds -> {"none", "prepared", "applied", "failed"}]
      /\ entered \in [InverseIds -> Nat]
      /\ files \in {"after", "before", "other"}
      /\ Undo!WorkSound /\ Undo!ReviewSound(r) /\ Undo!UndecidedKeepsPreimage
  BY <1>1, <1>2, InverseWorkFacts DEF Undo!ReviewsInv, Undo!TypeOK, InverseRecord
<1>4. UNCHANGED <<files, preimage, review, inverse_row, inverse_receipt, entered>>
  BY DEF Undo!Refuse, Undo!Still
<1>5. /\ inverse_work' \in [pc : {"reserve", "except", "seal_failed"}, r : InverseIds]
      /\ inverse_work'.r = r
      /\ inverse_work'.pc = "reserve" => inverse_work.pc = "bind"
      /\ inverse_work'.pc = "seal_failed" => inverse_work.pc = "effect"
  BY <1>2, <1>3 DEF Undo!Refuse, Undo!Goto, Undo!At
<1>6. Undo!WorkSound'
  BY <1>1, <1>2, <1>3, <1>4, <1>5 DEF Undo!WorkSound, Undo!Status
<1> QED BY <1>4, <1>5, <1>6, InverseMoveStep

\* _begin writes the row of a review that had none.
LEMMA InverseReserveStep ==
    ASSUME Undo!ReviewsInv, Undo!Reserve
    PROVE  Undo!ReviewsInv'
<1>1. inverse_work # Undo!Idle
  BY DEF Undo!Reserve, Undo!At, Undo!Idle
<1>2. PICK r \in InverseIds : r = inverse_work.r
  BY <1>1, InverseWorkFacts
<1>3. /\ inverse_work \in [pc : {"bind", "reserve", "effect", "seal", "seal_failed", "except",
                        "finish"}, r : InverseIds]
      /\ review \in [InverseIds -> InverseRecord]
      /\ inverse_row \in [InverseIds -> {"none", "running", "completed", "failed"}]
      /\ inverse_receipt \in [InverseIds -> {"none", "prepared", "applied", "failed"}]
      /\ entered \in [InverseIds -> Nat]
      /\ files \in {"after", "before", "other"}
      /\ Undo!WorkSound /\ Undo!ReviewSound(r) /\ Undo!UndecidedKeepsPreimage
  BY <1>1, <1>2, InverseWorkFacts DEF Undo!ReviewsInv, Undo!TypeOK, InverseRecord
<1>4. UNCHANGED <<files, preimage, review, inverse_receipt, entered>> /\ inverse_work.pc = "reserve"
  BY <1>1, <1>2, <1>3 DEF Undo!Reserve, Undo!Still, Undo!At, Undo!WorkSound
<1>5. CASE Undo!Goto("except") /\ UNCHANGED inverse_row
  <2>1. /\ inverse_row' = [inverse_row EXCEPT ![r] = inverse_row[r]]
        /\ inverse_receipt' = [inverse_receipt EXCEPT ![r] = inverse_receipt[r]]
        /\ entered' = [entered EXCEPT ![r] = entered[r]]
    BY <1>2, <1>3, <1>4, <1>5 DEF Undo!Reserve
  <2>2. /\ inverse_row'[r] = inverse_row[r] /\ inverse_receipt'[r] = inverse_receipt[r]
           /\ entered'[r] = entered[r]
        /\ inverse_row[r] \in {"none", "running", "completed", "failed"}
        /\ inverse_receipt[r] \in {"none", "prepared", "applied", "failed"} /\ entered[r] \in Nat
    BY <1>3, <2>1
  <2>3. inverse_work' \in [pc : {"except"}, r : {r}]
    BY <1>2, <1>3, <1>5 DEF Undo!Goto
  <2>4. Undo!ReviewSound(r)' /\ Undo!WorkSound'
    <3>1. Undo!ReviewSound(r)'
      BY <1>1, <1>2, <1>3, <1>4, <1>5, <2>2 DEF Undo!ReviewSound, Undo!WorkSound, Undo!Status
    <3>2. Undo!WorkSound'
      BY <1>1, <1>2, <1>3, <1>4, <1>5, <2>2, <2>3 DEF Undo!ReviewSound, Undo!WorkSound,
         Undo!Status
    <3> QED BY <3>1, <3>2
  <2>5. files' \in {"after", "before", "other"}
    BY <1>3, <1>4, <1>5
  <2>6. UNCHANGED <<preimage, review>>
    BY <1>4
  <2>7. inverse_work' \in {Undo!Idle} \cup [pc : {"bind", "reserve", "effect", "seal",
        "seal_failed",
                                  "except", "finish"}, r : {r}]
    BY <2>3
  <2> QED BY <1>1, <1>2, <2>1, <2>2, <2>4, <2>5, <2>6, <2>7, InverseRowStep
<1>6. CASE /\ inverse_row' = [inverse_row EXCEPT ![inverse_work.r] = "running"]
           /\ \E pc \in {"effect", "except"} : Undo!Goto(pc)
  <2>1. /\ inverse_row' = [inverse_row EXCEPT ![r] = "running"]
        /\ inverse_receipt' = [inverse_receipt EXCEPT ![r] = inverse_receipt[r]]
        /\ entered' = [entered EXCEPT ![r] = entered[r]]
    BY <1>2, <1>3, <1>4, <1>6 DEF Undo!Reserve
  <2>2. /\ inverse_row'[r] = "running" /\ inverse_receipt'[r] = inverse_receipt[r]
           /\ entered'[r] = entered[r]
        /\ "running" \in {"none", "running", "completed", "failed"}
        /\ inverse_receipt[r] \in {"none", "prepared", "applied", "failed"} /\ entered[r] \in Nat
    BY <1>3, <2>1
  <2>3. inverse_work' \in [pc : {"effect", "except"}, r : {r}]
    BY <1>2, <1>3, <1>6 DEF Undo!Goto
  <2>4. Undo!ReviewSound(r)' /\ Undo!WorkSound'
    <3>1. Undo!ReviewSound(r)'
      BY <1>1, <1>2, <1>3, <1>4, <1>6, <2>2 DEF Undo!ReviewSound, Undo!WorkSound, Undo!Status
    <3>2. Undo!WorkSound'
      BY <1>1, <1>2, <1>3, <1>4, <1>6, <2>2, <2>3 DEF Undo!ReviewSound, Undo!WorkSound,
         Undo!Status
    <3> QED BY <3>1, <3>2
  <2>5. files' \in {"after", "before", "other"}
    BY <1>3, <1>4, <1>6
  <2>6. UNCHANGED <<preimage, review>>
    BY <1>4
  <2>7. inverse_work' \in {Undo!Idle} \cup [pc : {"bind", "reserve", "effect", "seal",
        "seal_failed",
                                  "except", "finish"}, r : {r}]
    BY <2>3
  <2> QED BY <1>1, <1>2, <2>1, <2>2, <2>4, <2>5, <2>6, <2>7, InverseRowStep
<1> QED BY <1>5, <1>6 DEF Undo!Reserve

\* The files are reached for the first time.
LEMMA InverseEffectStep ==
    ASSUME Undo!ReviewsInv, Undo!Effect
    PROVE  Undo!ReviewsInv'
<1>1. inverse_work # Undo!Idle
  BY DEF Undo!Effect, Undo!At, Undo!Idle
<1>2. PICK r \in InverseIds : r = inverse_work.r
  BY <1>1, InverseWorkFacts
<1>3. /\ inverse_work \in [pc : {"bind", "reserve", "effect", "seal", "seal_failed", "except",
                        "finish"}, r : InverseIds]
      /\ review \in [InverseIds -> InverseRecord]
      /\ inverse_row \in [InverseIds -> {"none", "running", "completed", "failed"}]
      /\ inverse_receipt \in [InverseIds -> {"none", "prepared", "applied", "failed"}]
      /\ entered \in [InverseIds -> Nat]
      /\ files \in {"after", "before", "other"}
      /\ Undo!WorkSound /\ Undo!ReviewSound(r) /\ Undo!UndecidedKeepsPreimage
  BY <1>1, <1>2, InverseWorkFacts DEF Undo!ReviewsInv, Undo!TypeOK, InverseRecord
<1>4. UNCHANGED <<preimage, review, inverse_row>> /\ inverse_work.pc = "effect" /\ entered[r] = 0
  BY <1>1, <1>2, <1>3 DEF Undo!Effect, Undo!Still, Undo!At, Undo!WorkSound
<1>5. CASE files' = "before" /\ Undo!Goto("seal")
  <2>1. /\ inverse_row' = [inverse_row EXCEPT ![r] = inverse_row[r]]
        /\ inverse_receipt' = [inverse_receipt EXCEPT ![r] = "prepared"]
        /\ entered' = [entered EXCEPT ![r] = 1]
    BY <1>2, <1>3, <1>4, <1>5 DEF Undo!Effect
  <2>2. /\ inverse_row'[r] = inverse_row[r] /\ inverse_receipt'[r] = "prepared" /\ entered'[r] = 1
        /\ inverse_row[r] \in {"none", "running", "completed", "failed"}
        /\ "prepared" \in {"none", "prepared", "applied", "failed"} /\ 1 \in Nat
    BY <1>3, <2>1
  <2>3. inverse_work' \in [pc : {"seal"}, r : {r}]
    BY <1>2, <1>3, <1>5 DEF Undo!Goto
  <2>4. Undo!ReviewSound(r)' /\ Undo!WorkSound'
    <3>1. Undo!ReviewSound(r)'
      BY <1>1, <1>2, <1>3, <1>4, <1>5, <2>2 DEF Undo!ReviewSound, Undo!WorkSound, Undo!Status
    <3>2. Undo!WorkSound'
      BY <1>1, <1>2, <1>3, <1>4, <1>5, <2>2, <2>3 DEF Undo!ReviewSound, Undo!WorkSound,
         Undo!Status
    <3> QED BY <3>1, <3>2
  <2>5. files' \in {"after", "before", "other"}
    BY <1>3, <1>4, <1>5
  <2>6. UNCHANGED <<preimage, review>>
    BY <1>4
  <2>7. inverse_work' \in {Undo!Idle} \cup [pc : {"bind", "reserve", "effect", "seal",
        "seal_failed",
                                  "except", "finish"}, r : {r}]
    BY <2>3
  <2> QED BY <1>1, <1>2, <2>1, <2>2, <2>4, <2>5, <2>6, <2>7, InverseRowStep
<1>6. CASE files' \in {"after", "other"} /\ Undo!Goto("seal_failed")
  <2>1. /\ inverse_row' = [inverse_row EXCEPT ![r] = inverse_row[r]]
        /\ inverse_receipt' = [inverse_receipt EXCEPT ![r] = "prepared"]
        /\ entered' = [entered EXCEPT ![r] = 1]
    BY <1>2, <1>3, <1>4, <1>6 DEF Undo!Effect
  <2>2. /\ inverse_row'[r] = inverse_row[r] /\ inverse_receipt'[r] = "prepared" /\ entered'[r] = 1
        /\ inverse_row[r] \in {"none", "running", "completed", "failed"}
        /\ "prepared" \in {"none", "prepared", "applied", "failed"} /\ 1 \in Nat
    BY <1>3, <2>1
  <2>3. inverse_work' \in [pc : {"seal_failed"}, r : {r}]
    BY <1>2, <1>3, <1>6 DEF Undo!Goto
  <2>4. Undo!ReviewSound(r)' /\ Undo!WorkSound'
    <3>1. Undo!ReviewSound(r)'
      BY <1>1, <1>2, <1>3, <1>4, <1>6, <2>2 DEF Undo!ReviewSound, Undo!WorkSound, Undo!Status
    <3>2. Undo!WorkSound'
      BY <1>1, <1>2, <1>3, <1>4, <1>6, <2>2, <2>3 DEF Undo!ReviewSound, Undo!WorkSound,
         Undo!Status
    <3> QED BY <3>1, <3>2
  <2>5. files' \in {"after", "before", "other"}
    BY <1>3, <1>4, <1>6
  <2>6. UNCHANGED <<preimage, review>>
    BY <1>4
  <2>7. inverse_work' \in {Undo!Idle} \cup [pc : {"bind", "reserve", "effect", "seal",
        "seal_failed",
                                  "except", "finish"}, r : {r}]
    BY <2>3
  <2> QED BY <1>1, <1>2, <2>1, <2>2, <2>4, <2>5, <2>6, <2>7, InverseRowStep
<1> QED BY <1>5, <1>6 DEF Undo!Effect

\* Row and receipt are sealed in one transaction, or neither.
LEMMA InverseSealStep ==
    ASSUME Undo!ReviewsInv, Undo!Seal
    PROVE  Undo!ReviewsInv'
<1>1. inverse_work # Undo!Idle
  BY DEF Undo!Seal, Undo!At, Undo!Idle
<1>2. PICK r \in InverseIds : r = inverse_work.r
  BY <1>1, InverseWorkFacts
<1>3. /\ inverse_work \in [pc : {"bind", "reserve", "effect", "seal", "seal_failed", "except",
                        "finish"}, r : InverseIds]
      /\ review \in [InverseIds -> InverseRecord]
      /\ inverse_row \in [InverseIds -> {"none", "running", "completed", "failed"}]
      /\ inverse_receipt \in [InverseIds -> {"none", "prepared", "applied", "failed"}]
      /\ entered \in [InverseIds -> Nat]
      /\ files \in {"after", "before", "other"}
      /\ Undo!WorkSound /\ Undo!ReviewSound(r) /\ Undo!UndecidedKeepsPreimage
  BY <1>1, <1>2, InverseWorkFacts DEF Undo!ReviewsInv, Undo!TypeOK, InverseRecord
<1>4. UNCHANGED <<files, preimage, review, entered>> /\ inverse_work.pc = "seal"
  BY <1>1, <1>2, <1>3 DEF Undo!Seal, Undo!Still, Undo!At, Undo!WorkSound
<1>5. CASE /\ inverse_row' = [inverse_row EXCEPT ![inverse_work.r] = "completed"]
           /\ inverse_receipt' = [inverse_receipt EXCEPT ![inverse_work.r] = "applied"]
           /\ \E pc \in {"finish", "except"} : Undo!Goto(pc)
  <2>1. /\ inverse_row' = [inverse_row EXCEPT ![r] = "completed"]
        /\ inverse_receipt' = [inverse_receipt EXCEPT ![r] = "applied"]
        /\ entered' = [entered EXCEPT ![r] = entered[r]]
    BY <1>2, <1>3, <1>4, <1>5 DEF Undo!Seal
  <2>2. /\ inverse_row'[r] = "completed" /\ inverse_receipt'[r] = "applied"
           /\ entered'[r] = entered[r]
        /\ "completed" \in {"none", "running", "completed", "failed"}
        /\ "applied" \in {"none", "prepared", "applied", "failed"} /\ entered[r] \in Nat
    BY <1>3, <2>1
  <2>3. inverse_work' \in [pc : {"finish", "except"}, r : {r}]
    BY <1>2, <1>3, <1>5 DEF Undo!Goto
  <2>4. Undo!ReviewSound(r)' /\ Undo!WorkSound'
    <3>1. Undo!ReviewSound(r)'
      BY <1>1, <1>2, <1>3, <1>4, <1>5, <2>2 DEF Undo!ReviewSound, Undo!WorkSound, Undo!Status
    <3>2. Undo!WorkSound'
      BY <1>1, <1>2, <1>3, <1>4, <1>5, <2>2, <2>3 DEF Undo!ReviewSound, Undo!WorkSound,
         Undo!Status
    <3> QED BY <3>1, <3>2
  <2>5. files' \in {"after", "before", "other"}
    BY <1>3, <1>4, <1>5
  <2>6. UNCHANGED <<preimage, review>>
    BY <1>4
  <2>7. inverse_work' \in {Undo!Idle} \cup [pc : {"bind", "reserve", "effect", "seal",
        "seal_failed",
                                  "except", "finish"}, r : {r}]
    BY <2>3
  <2> QED BY <1>1, <1>2, <2>1, <2>2, <2>4, <2>5, <2>6, <2>7, InverseRowStep
<1>6. CASE Undo!Goto("except") /\ UNCHANGED <<inverse_row, inverse_receipt>>
  <2>1. /\ inverse_row' = [inverse_row EXCEPT ![r] = inverse_row[r]]
        /\ inverse_receipt' = [inverse_receipt EXCEPT ![r] = inverse_receipt[r]]
        /\ entered' = [entered EXCEPT ![r] = entered[r]]
    BY <1>2, <1>3, <1>4, <1>6 DEF Undo!Seal
  <2>2. /\ inverse_row'[r] = inverse_row[r] /\ inverse_receipt'[r] = inverse_receipt[r]
           /\ entered'[r] = entered[r]
        /\ inverse_row[r] \in {"none", "running", "completed", "failed"}
        /\ inverse_receipt[r] \in {"none", "prepared", "applied", "failed"} /\ entered[r] \in Nat
    BY <1>3, <2>1
  <2>3. inverse_work' \in [pc : {"except"}, r : {r}]
    BY <1>2, <1>3, <1>6 DEF Undo!Goto
  <2>4. Undo!ReviewSound(r)' /\ Undo!WorkSound'
    <3>1. Undo!ReviewSound(r)'
      BY <1>1, <1>2, <1>3, <1>4, <1>6, <2>2 DEF Undo!ReviewSound, Undo!WorkSound, Undo!Status
    <3>2. Undo!WorkSound'
      BY <1>1, <1>2, <1>3, <1>4, <1>6, <2>2, <2>3 DEF Undo!ReviewSound, Undo!WorkSound,
         Undo!Status
    <3> QED BY <3>1, <3>2
  <2>5. files' \in {"after", "before", "other"}
    BY <1>3, <1>4, <1>6
  <2>6. UNCHANGED <<preimage, review>>
    BY <1>4
  <2>7. inverse_work' \in {Undo!Idle} \cup [pc : {"bind", "reserve", "effect", "seal",
        "seal_failed",
                                  "except", "finish"}, r : {r}]
    BY <2>3
  <2> QED BY <1>1, <1>2, <2>1, <2>2, <2>4, <2>5, <2>6, <2>7, InverseRowStep
<1> QED BY <1>5, <1>6 DEF Undo!Seal

\* A known failure is sealed, or the row stays running.
LEMMA InverseSealFailedStep ==
    ASSUME Undo!ReviewsInv, Undo!SealFailed
    PROVE  Undo!ReviewsInv'
<1>1. inverse_work # Undo!Idle
  BY DEF Undo!SealFailed, Undo!At, Undo!Idle
<1>2. PICK r \in InverseIds : r = inverse_work.r
  BY <1>1, InverseWorkFacts
<1>3. /\ inverse_work \in [pc : {"bind", "reserve", "effect", "seal", "seal_failed", "except",
                        "finish"}, r : InverseIds]
      /\ review \in [InverseIds -> InverseRecord]
      /\ inverse_row \in [InverseIds -> {"none", "running", "completed", "failed"}]
      /\ inverse_receipt \in [InverseIds -> {"none", "prepared", "applied", "failed"}]
      /\ entered \in [InverseIds -> Nat]
      /\ files \in {"after", "before", "other"}
      /\ Undo!WorkSound /\ Undo!ReviewSound(r) /\ Undo!UndecidedKeepsPreimage
  BY <1>1, <1>2, InverseWorkFacts DEF Undo!ReviewsInv, Undo!TypeOK, InverseRecord
<1>4. UNCHANGED <<files, preimage, review, entered>> /\ inverse_work.pc = "seal_failed"
  BY <1>1, <1>2, <1>3 DEF Undo!SealFailed, Undo!Still, Undo!At, Undo!WorkSound
<1>5. CASE /\ inverse_row' = [inverse_row EXCEPT ![inverse_work.r] = "failed"]
           /\ inverse_receipt' = [inverse_receipt EXCEPT ![inverse_work.r] = IF @ = "none" THEN "none" ELSE "failed"]
           /\ Undo!Goto("except")
  <2>1. /\ inverse_row' = [inverse_row EXCEPT ![r] = "failed"]
        /\ inverse_receipt' = [inverse_receipt EXCEPT ![r] = (IF inverse_receipt[r] = "none" THEN "none" ELSE "failed")]
        /\ entered' = [entered EXCEPT ![r] = entered[r]]
    BY <1>2, <1>3, <1>4, <1>5 DEF Undo!SealFailed
  <2>2. /\ inverse_row'[r] = "failed"
           /\ inverse_receipt'[r] = (IF inverse_receipt[r] = "none" THEN "none" ELSE "failed")
              /\ entered'[r] = entered[r]
        /\ "failed" \in {"none", "running", "completed", "failed"}
        /\ (IF inverse_receipt[r] = "none" THEN "none" ELSE "failed") \in {"none", "prepared",
           "applied", "failed"} /\ entered[r] \in Nat
    BY <1>3, <2>1
  <2>3. inverse_work' \in [pc : {"except"}, r : {r}]
    BY <1>2, <1>3, <1>5 DEF Undo!Goto
  <2>4. Undo!ReviewSound(r)' /\ Undo!WorkSound'
    <3>1. Undo!ReviewSound(r)'
      BY <1>1, <1>2, <1>3, <1>4, <1>5, <2>2 DEF Undo!ReviewSound, Undo!WorkSound, Undo!Status
    <3>2. Undo!WorkSound'
      BY <1>1, <1>2, <1>3, <1>4, <1>5, <2>2, <2>3 DEF Undo!ReviewSound, Undo!WorkSound,
         Undo!Status
    <3> QED BY <3>1, <3>2
  <2>5. files' \in {"after", "before", "other"}
    BY <1>3, <1>4, <1>5
  <2>6. UNCHANGED <<preimage, review>>
    BY <1>4
  <2>7. inverse_work' \in {Undo!Idle} \cup [pc : {"bind", "reserve", "effect", "seal",
        "seal_failed",
                                  "except", "finish"}, r : {r}]
    BY <2>3
  <2> QED BY <1>1, <1>2, <2>1, <2>2, <2>4, <2>5, <2>6, <2>7, InverseRowStep
<1>6. CASE UNCHANGED <<inverse_row, inverse_receipt>> /\ Undo!Goto("except")
  <2>1. /\ inverse_row' = [inverse_row EXCEPT ![r] = inverse_row[r]]
        /\ inverse_receipt' = [inverse_receipt EXCEPT ![r] = inverse_receipt[r]]
        /\ entered' = [entered EXCEPT ![r] = entered[r]]
    BY <1>2, <1>3, <1>4, <1>6 DEF Undo!SealFailed
  <2>2. /\ inverse_row'[r] = inverse_row[r] /\ inverse_receipt'[r] = inverse_receipt[r]
           /\ entered'[r] = entered[r]
        /\ inverse_row[r] \in {"none", "running", "completed", "failed"}
        /\ inverse_receipt[r] \in {"none", "prepared", "applied", "failed"} /\ entered[r] \in Nat
    BY <1>3, <2>1
  <2>3. inverse_work' \in [pc : {"except"}, r : {r}]
    BY <1>2, <1>3, <1>6 DEF Undo!Goto
  <2>4. Undo!ReviewSound(r)' /\ Undo!WorkSound'
    <3>1. Undo!ReviewSound(r)'
      BY <1>1, <1>2, <1>3, <1>4, <1>6, <2>2 DEF Undo!ReviewSound, Undo!WorkSound, Undo!Status
    <3>2. Undo!WorkSound'
      BY <1>1, <1>2, <1>3, <1>4, <1>6, <2>2, <2>3 DEF Undo!ReviewSound, Undo!WorkSound,
         Undo!Status
    <3> QED BY <3>1, <3>2
  <2>5. files' \in {"after", "before", "other"}
    BY <1>3, <1>4, <1>6
  <2>6. UNCHANGED <<preimage, review>>
    BY <1>4
  <2>7. inverse_work' \in {Undo!Idle} \cup [pc : {"bind", "reserve", "effect", "seal",
        "seal_failed",
                                  "except", "finish"}, r : {r}]
    BY <2>3
  <2> QED BY <1>1, <1>2, <2>1, <2>2, <2>4, <2>5, <2>6, <2>7, InverseRowStep
<1> QED BY <1>5, <1>6 DEF Undo!SealFailed

\* The verdict of a failed decision follows from the row.
LEMMA InverseExceptStep ==
    ASSUME Undo!ReviewsInv, Undo!Except
    PROVE  Undo!ReviewsInv'
<1>1. inverse_work # Undo!Idle
  BY DEF Undo!Except, Undo!At, Undo!Idle
<1>2. PICK r \in InverseIds : r = inverse_work.r
  BY <1>1, InverseWorkFacts
<1>3. /\ inverse_work \in [pc : {"bind", "reserve", "effect", "seal", "seal_failed", "except",
                        "finish"}, r : InverseIds]
      /\ review \in [InverseIds -> InverseRecord]
      /\ inverse_row \in [InverseIds -> {"none", "running", "completed", "failed"}]
      /\ inverse_receipt \in [InverseIds -> {"none", "prepared", "applied", "failed"}]
      /\ entered \in [InverseIds -> Nat]
      /\ files \in {"after", "before", "other"}
      /\ Undo!WorkSound /\ Undo!ReviewSound(r) /\ Undo!UndecidedKeepsPreimage
  BY <1>1, <1>2, InverseWorkFacts DEF Undo!ReviewsInv, Undo!TypeOK, InverseRecord
<1>4. UNCHANGED <<files, preimage, inverse_row, inverse_receipt, entered>>
      /\ inverse_work' = Undo!Idle
  BY <1>1, <1>3 DEF Undo!Except, Undo!Still, Undo!At
<1>5. Undo!WorkSound'
  BY <1>4 DEF Undo!WorkSound
<1>6. CASE UNCHANGED review
  BY <1>4, <1>5, <1>6, InverseMoveStep
<1>7. CASE Undo!SetStatus(inverse_work.r, Undo!Verdict(inverse_work.r))
  <2> DEFINE v == [review[r] EXCEPT !.status = Undo!Verdict(r)]
  <2>0. v \in InverseRecord
    BY <1>3 DEF InverseRecord, Undo!Statuses, Undo!Verdict
  <2>1. v \in InverseRecord /\ review' = [review EXCEPT ![r] = v]
    <3>1. review' = [review EXCEPT ![r].status = Undo!Verdict(r)]
      BY <1>2, <1>7 DEF Undo!SetStatus
    <3> QED BY <1>3, <2>0, <3>1
  <2>2. review'[r] = v /\ v.status = Undo!Verdict(r) /\ v.decision = review[r].decision
    BY <1>3, <2>1 DEF InverseRecord
  <2>3. Undo!Status(r) = "applying"
    BY <1>1, <1>2, <1>3 DEF Undo!WorkSound
  <2>4. Undo!ReviewSound(r)'
    BY <1>1, <1>2, <1>3, <1>4, <2>2, <2>3 DEF Undo!ReviewSound, Undo!WorkSound, Undo!Status,
       Undo!Verdict
  <2>5. ASSUME NEW d \in InverseIds, d # r PROVE Undo!ReviewSound(d)'
    BY <1>4, <2>1, <2>5 DEF Undo!ReviewsInv, Undo!TypeOK, Undo!ReviewSound, Undo!Status
  <2>6. Undo!TypeOK'
    BY <1>3, <1>4, <2>1 DEF Undo!ReviewsInv, Undo!TypeOK, InverseRecord
  <2>7. Undo!UndecidedKeepsPreimage'
    BY <1>3, <1>4, <2>1, <2>3 DEF Undo!UndecidedKeepsPreimage, Undo!Status
  <2> QED BY <1>5, <2>4, <2>5, <2>6, <2>7 DEF Undo!ReviewsInv
<1> QED BY <1>6, <1>7 DEF Undo!Except

\* An applied review has its sealed row.
LEMMA InverseFinishStep ==
    ASSUME Undo!ReviewsInv, Undo!Finish
    PROVE  Undo!ReviewsInv'
<1>1. inverse_work # Undo!Idle
  BY DEF Undo!Finish, Undo!At, Undo!Idle
<1>2. PICK r \in InverseIds : r = inverse_work.r
  BY <1>1, InverseWorkFacts
<1>3. /\ inverse_work \in [pc : {"bind", "reserve", "effect", "seal", "seal_failed", "except",
                        "finish"}, r : InverseIds]
      /\ review \in [InverseIds -> InverseRecord]
      /\ inverse_row \in [InverseIds -> {"none", "running", "completed", "failed"}]
      /\ inverse_receipt \in [InverseIds -> {"none", "prepared", "applied", "failed"}]
      /\ entered \in [InverseIds -> Nat]
      /\ files \in {"after", "before", "other"}
      /\ Undo!WorkSound /\ Undo!ReviewSound(r) /\ Undo!UndecidedKeepsPreimage
  BY <1>1, <1>2, InverseWorkFacts DEF Undo!ReviewsInv, Undo!TypeOK, InverseRecord
<1>4. UNCHANGED <<files, preimage, inverse_row, inverse_receipt, entered>>
      /\ inverse_work' = Undo!Idle /\ inverse_work.pc = "finish"
  BY <1>1, <1>3 DEF Undo!Finish, Undo!Still, Undo!At
<1>5. Undo!WorkSound'
  BY <1>4 DEF Undo!WorkSound
<1>6. CASE UNCHANGED review
  BY <1>4, <1>5, <1>6, InverseMoveStep
<1>7. CASE Undo!SetStatus(inverse_work.r, "applied")
  <2> DEFINE v == [review[r] EXCEPT !.status = "applied"]
  <2>0. v \in InverseRecord
    BY <1>3 DEF InverseRecord, Undo!Statuses
  <2>1. v \in InverseRecord /\ review' = [review EXCEPT ![r] = v]
    <3>1. review' = [review EXCEPT ![r].status = "applied"]
      BY <1>2, <1>7 DEF Undo!SetStatus
    <3> QED BY <1>3, <2>0, <3>1
  <2>2. review'[r] = v /\ v.status = "applied" /\ v.decision = review[r].decision
    BY <1>3, <2>1 DEF InverseRecord
  <2>3. Undo!Status(r) = "applying"
    BY <1>1, <1>2, <1>3 DEF Undo!WorkSound
  <2>4. Undo!ReviewSound(r)'
    BY <1>1, <1>2, <1>3, <1>4, <2>2, <2>3 DEF Undo!ReviewSound, Undo!WorkSound, Undo!Status
  <2>5. ASSUME NEW d \in InverseIds, d # r PROVE Undo!ReviewSound(d)'
    BY <1>4, <2>1, <2>5 DEF Undo!ReviewsInv, Undo!TypeOK, Undo!ReviewSound, Undo!Status
  <2>6. Undo!TypeOK'
    BY <1>3, <1>4, <2>1 DEF Undo!ReviewsInv, Undo!TypeOK, InverseRecord
  <2>7. Undo!UndecidedKeepsPreimage'
    BY <1>3, <1>4, <2>1, <2>3 DEF Undo!UndecidedKeepsPreimage, Undo!Status
  <2> QED BY <1>5, <2>4, <2>5, <2>6, <2>7 DEF Undo!ReviewsInv
<1> QED BY <1>6, <1>7 DEF Undo!Finish

-----------------------------------------------------------------------------
(* The files, the retention and the process *)

LEMMA InverseRetainReceiptsStep ==
    ASSUME Undo!ReviewsInv, Undo!RetainReceipts
    PROVE  Undo!ReviewsInv'
<1>1. UNCHANGED <<files, review, inverse_row, inverse_receipt, entered, inverse_work>>
      /\ ~Undo!LiveReview
  BY DEF Undo!RetainReceipts
<1>2. Undo!TypeOK' /\ Undo!WorkSound' /\ \A r \in InverseIds : Undo!ReviewSound(r)'
  BY <1>1 DEF Undo!ReviewsInv, Undo!TypeOK, Undo!WorkSound, Undo!ReviewSound, Undo!Status
<1>3. Undo!UndecidedKeepsPreimage'
  BY <1>1 DEF Undo!LiveReview, Undo!UndecidedKeepsPreimage, Undo!Status
<1> QED BY <1>2, <1>3 DEF Undo!ReviewsInv

LEMMA InverseEditStep ==
    ASSUME Undo!ReviewsInv, NEW f \in {"after", "other"}, Undo!Edit(f)
    PROVE  Undo!ReviewsInv'
<1>1. UNCHANGED <<preimage, review, inverse_row, inverse_receipt, entered, inverse_work>>
      /\ files' = f
  BY DEF Undo!Edit
<1>2. Undo!TypeOK'
  BY <1>1 DEF Undo!ReviewsInv, Undo!TypeOK
<1>3. Undo!WorkSound' /\ Undo!UndecidedKeepsPreimage' /\ \A r \in InverseIds : Undo!ReviewSound(r)'
  BY <1>1 DEF Undo!ReviewsInv, Undo!WorkSound, Undo!UndecidedKeepsPreimage, Undo!ReviewSound,
     Undo!Status
<1> QED BY <1>2, <1>3 DEF Undo!ReviewsInv

\* A crash forgets the operation: its review stays applying with what row it has.
LEMMA InverseCrashStep ==
    ASSUME Undo!ReviewsInv, Undo!Crash
    PROVE  Undo!ReviewsInv'
<1>1. UNCHANGED <<files, preimage, review, inverse_row, inverse_receipt, entered>>
      /\ inverse_work' = Undo!Idle
  BY DEF Undo!Crash
<1>2. Undo!WorkSound'
  BY <1>1 DEF Undo!WorkSound
<1> QED BY <1>1, <1>2, InverseMoveStep

LEMMA InverseNextStep == Undo!ReviewsInv /\ [Undo!Next]_(Undo!vars) => Undo!ReviewsInv'
<1> SUFFICES ASSUME Undo!ReviewsInv, [Undo!Next]_(Undo!vars) PROVE Undo!ReviewsInv'
  OBVIOUS
<1>1. ASSUME NEW r \in InverseIds, Undo!Prepare(r) \/ Undo!PrepareReplay(r) PROVE Undo!ReviewsInv'
  BY <1>1, InversePrepareStep, InversePrepareReplayStep
<1>2. ASSUME NEW r \in InverseIds, Undo!ClaimLapsed(r) \/ Undo!ClaimReject(r)
             \/ Undo!ClaimApprove(r)
      PROVE  Undo!ReviewsInv'
  BY <1>2, InverseClaimLapsedStep, InverseClaimRejectStep, InverseClaimApproveStep
<1>3. ASSUME NEW r \in InverseIds, Undo!Reconcile(r) \/ Undo!RetainReviews(r) \/ Undo!Overdue(r)
      PROVE  Undo!ReviewsInv'
  BY <1>3, InverseReconcileStep, InverseRetainReviewsStep, InverseOverdueStep
<1>4. CASE Undo!Bind \/ Undo!Reserve \/ Undo!Refuse \/ Undo!Effect
  BY <1>4, InverseBindStep, InverseReserveStep, InverseRefuseStep, InverseEffectStep
<1>5. CASE Undo!Seal \/ Undo!SealFailed \/ Undo!Except \/ Undo!Finish
  BY <1>5, InverseSealStep, InverseSealFailedStep, InverseExceptStep, InverseFinishStep
<1>6. CASE Undo!RetainReceipts \/ Undo!Crash
  BY <1>6, InverseRetainReceiptsStep, InverseCrashStep
<1>7. ASSUME NEW f \in {"after", "other"}, Undo!Edit(f) PROVE Undo!ReviewsInv'
  BY <1>7, InverseEditStep
<1>8. CASE UNCHANGED Undo!vars
  BY <1>8, InverseMoveStep DEF Undo!vars, Undo!ReviewsInv, Undo!TypeOK, Undo!WorkSound,
     Undo!Status
<1> QED BY <1>1, <1>2, <1>3, <1>4, <1>5, <1>6, <1>7, <1>8 DEF Undo!Next

-----------------------------------------------------------------------------
\* A verdict is never ahead of its evidence and no approval reaches the files
\* twice, whatever fails between the three stores (decide and reconcile).
THEOREM VerdictsAreProven == Undo!Spec => []Undo!VerdictHasEvidence
<1>1. Undo!ReviewsInv => Undo!VerdictHasEvidence
  BY DEF Undo!ReviewsInv, Undo!ReviewSound, Undo!VerdictHasEvidence
<1> QED BY <1>1, InverseInitInv, InverseNextStep, PTL DEF Undo!Spec

\* What an undecided inverse would restore is kept (has_live_review).
THEOREM PreimageIsKept == Undo!Spec => []Undo!UndecidedKeepsPreimage
<1>1. Undo!ReviewsInv => Undo!UndecidedKeepsPreimage
  BY DEF Undo!ReviewsInv
<1> QED BY <1>1, InverseInitInv, InverseNextStep, PTL DEF Undo!Spec

-----------------------------------------------------------------------------
(* ProfileKeys: any destinations, probes, runs and edits *)

ProfileIssued == [0..MaxRevisions -> Dests \cup {"none"}]
ProfileProfiles == Profile!Saved \cup {Profile!Gone}
ProfileAsked == [at : {"idle", "read", "sent", "proved", "writing", "ended"},
          saved : Profile!Contracts \cup {Profile!None},
              named : Profile!Contracts \cup {Profile!None},
          used : Profile!Contracts \cup {Profile!None}, key : Profile!Keys]
ProfileBound == [at : {"idle", "accepted", "using", "ended"},
    snapshot : Profile!Contracts \cup {Profile!None}, key : Profile!Keys]

LEMMA ProfileApart ==
    ASSUME Profile!ProfileNames
    PROVE  /\ Profile!Gone \notin Profile!Saved /\ Profile!None \notin Profile!Contracts
              /\ Profile!NoKey \in Profile!Keys
           /\ \A p \in Profile!Saved : p # Profile!Gone
           /\ \A c \in Profile!Contracts : c # Profile!None
           /\ \A k \in Profile!Keys : k # Profile!NoKey => k.id \in 1..MaxRevisions
              /\ k.home \in Dests
           /\ \A p \in Profile!Saved : Profile!Contract(p) \in Profile!Contracts
<1>1. \A p \in Profile!Saved : p.dest # "none"
  BY DEF Profile!ProfileNames, Profile!Saved
<1>2. \A c \in Profile!Contracts : c.dest # "none"
  BY DEF Profile!ProfileNames, Profile!Contracts
<1>3. Profile!Gone.dest = "none" /\ Profile!None.dest = "none"
  BY DEF Profile!Gone, Profile!None
<1>4. \A p \in Profile!Saved : Profile!Contract(p) \in Profile!Contracts
  BY DEF Profile!Saved, Profile!Contracts, Profile!Contract, Profile!ProfileNames
<1> QED BY <1>1, <1>2, <1>3, <1>4 DEF Profile!Keys

-----------------------------------------------------------------------------
(* What is known of a revision stays known *)

LEMMA ProfileEarnedStays ==
    ASSUME NEW i \in ProfileIssued, NEW j \in ProfileIssued, NEW c \in Profile!Contracts,
           NEW n \in Nat,
           c.revision <= n, \A v \in 0..n : j[v] = i[v], proved \subseteq proved',
               Profile!Earned(i, c)
    PROVE  Profile!Earned(j, c)'
<1>1. c.revision \in 0..n
  BY DEF Profile!Contracts
<1> QED BY <1>1 DEF Profile!Earned

LEMMA ProfileProfileStays ==
    ASSUME Profile!ProfileNames, NEW i \in ProfileIssued, NEW j \in ProfileIssued,
           NEW p \in ProfileProfiles,
           last \in 1..MaxRevisions, last' \in 1..MaxRevisions, last <= last',
           \A v \in 0..last : j[v] = i[v], proved \subseteq proved', Profile!ProfileAgrees(i, p)
    PROVE  Profile!ProfileAgrees(j, p)'
<1> SUFFICES ASSUME p # Profile!Gone PROVE Profile!ProfileAgrees(j, p)'
  BY DEF Profile!ProfileAgrees
<1>1. p \in Profile!Saved /\ MaxRevisions \in Nat
  BY DEF ProfileProfiles, Profile!ProfileNames
<1>2. p.revision \in 0..last /\ p.revision <= last'
  BY <1>1 DEF Profile!ProfileAgrees, Profile!Saved
<1>3. ASSUME p.receipt # Profile!None PROVE p.receipt.revision <= last' /\ Profile!Earned(j,
             p.receipt)'
  <2>1. p.receipt \in Profile!Contracts /\ p.receipt.revision <= last /\ Profile!Earned(i,
        p.receipt)
    BY <1>1, <1>3 DEF Profile!ProfileAgrees, Profile!Saved
  <2>2. Profile!Earned(j, p.receipt)'
    BY <2>1, ProfileEarnedStays
  <2> QED BY <1>1, <2>1, <2>2 DEF Profile!Contracts
<1> QED BY <1>2, <1>3 DEF Profile!ProfileAgrees

LEMMA ProfileProbeStays ==
    ASSUME Profile!ProfileNames, NEW i \in ProfileIssued, NEW j \in ProfileIssued,
           NEW q \in ProfileAsked,
           last \in 1..MaxRevisions, last' \in 1..MaxRevisions, last <= last',
           \A v \in 0..last : j[v] = i[v], proved \subseteq proved', Profile!ProbeAgrees(i, q)
    PROVE  Profile!ProbeAgrees(j, q)'
<1>m. MaxRevisions \in Nat
  BY DEF Profile!ProfileNames
<1>1. ASSUME q.saved # Profile!None
      PROVE  /\ q.saved \in Profile!Contracts /\ q.saved.revision \in 0..last
             /\ q.saved.revision <= last' /\ j[q.saved.revision] = i[q.saved.revision]
  BY <1>1, <1>m DEF Profile!ProbeAgrees, ProfileAsked, Profile!Contracts
<1>2. ASSUME q.at = "sent" PROVE q.used \in Profile!Contracts /\ q.used.revision \in 0..last
             /\ q.used.revision <= last'
  BY <1>2, <1>m DEF Profile!ProbeAgrees, ProfileAsked, Profile!Contracts
<1>3. ASSUME q.at = "proved" PROVE Profile!Earned(j, q.saved)'
  BY <1>1, <1>3, ProfileEarnedStays DEF Profile!ProbeAgrees
<1> QED BY <1>1, <1>2, <1>3 DEF Profile!ProbeAgrees

\* Nothing is issued: what was agreed is agreed while more is proved.
LEMMA ProfileAgreedRest ==
    ASSUME Profile!ProfileNames, Profile!ProfileTypes, NEW i \in ProfileIssued, Profile!Agreed(i),
           proved \subseteq proved',
           profile_file' = profile_file, last' = last
    PROVE  /\ Profile!ProfileAgrees(i, profile_file)'
           /\ pending' = pending => Profile!ProfileAgrees(i, pending.profile)'
           /\ \A p \in Probes : Profile!ProbeAgrees(i, probe[p])'  \/ probe'[p] # probe[p]
<1>1. /\ last \in 1..MaxRevisions /\ last' \in 1..MaxRevisions /\ last <= last'
      /\ profile_file \in ProfileProfiles /\ pending.profile \in ProfileProfiles
         /\ \A p \in Probes : probe[p] \in ProfileAsked
  BY DEF Profile!ProfileTypes, Profile!ProfileNames, ProfileProfiles, ProfileAsked
<1>2. PICK f \in ProfileProfiles, g \in ProfileProfiles : f = profile_file /\ g = pending.profile
  BY <1>1
<1>3. Profile!ProfileAgrees(i, f)' /\ Profile!ProfileAgrees(i, g)'
  BY <1>1, <1>2, ProfileProfileStays DEF Profile!Agreed
<1>4. ASSUME NEW p \in Probes, probe'[p] = probe[p] PROVE Profile!ProbeAgrees(i, probe[p])'
  <2>1. PICK q \in ProfileAsked : q = probe[p]
    BY <1>1
  <2>2. Profile!ProbeAgrees(i, q)'
    BY <1>1, <2>1, ProfileProbeStays DEF Profile!Agreed
  <2> QED BY <1>4, <2>1, <2>2
<1> QED BY <1>2, <1>3, <1>4

-----------------------------------------------------------------------------
(* The shapes of a step *)

\* Neither the runs nor the cached clients change.
LEMMA ProfileHeldRest == ASSUME Profile!KeysHeld, UNCHANGED <<profile_run, clients>>
                                PROVE Profile!KeysHeld'
BY DEF Profile!KeysHeld

\* A handler has prepared the profile g, under the revisions that i knows.
LEMMA ProfilePendingMoves ==
    ASSUME Profile!ProfileNames, Profile!ProfileInv, NEW i \in ProfileIssued,
           NEW g \in ProfileProfiles, NEW w,
           UNCHANGED <<profile_file, probe, profile_run, clients, proved>>,
           pending' = [for |-> w, profile |-> g],
           last' \in 1..MaxRevisions, last <= last',
           \E h \in ProfileIssued : Profile!Agreed(h) /\ \A v \in 0..last : i[v] = h[v],
           Profile!ProfileAgrees(i, g)'
    PROVE  Profile!ProfileInv'
<1>1. /\ Profile!ProfileTypes /\ Profile!KeysHeld /\ last \in 1..MaxRevisions
      /\ profile_file \in ProfileProfiles /\ \A p \in Probes : probe[p] \in ProfileAsked
  BY DEF Profile!ProfileInv, Profile!ProfileTypes, ProfileProfiles, ProfileAsked
<1>2. PICK h \in ProfileIssued : Profile!Agreed(h) /\ \A v \in 0..last : i[v] = h[v]
  OBVIOUS
<1>3. Profile!ProfileAgrees(i, profile_file)'
  <2>1. PICK f \in ProfileProfiles : f = profile_file
    BY <1>1
  <2>2. Profile!ProfileAgrees(i, f)'
    BY <1>1, <1>2, <2>1, ProfileProfileStays DEF Profile!Agreed
  <2> QED BY <2>1, <2>2
<1>4. ASSUME NEW p \in Probes PROVE Profile!ProbeAgrees(i, probe[p])'
  <2>1. PICK q \in ProfileAsked : q = probe[p]
    BY <1>1
  <2>2. Profile!ProbeAgrees(i, q)'
    BY <1>1, <1>2, <2>1, ProfileProbeStays DEF Profile!Agreed
  <2> QED BY <2>1, <2>2
<1>5. pending'.profile = g
  OBVIOUS
<1>6. Profile!ProfileTypes'
  BY <1>1, <1>5 DEF Profile!ProfileTypes, ProfileProfiles
<1>7. Profile!Agreed(i)'
  BY <1>3, <1>4, <1>5 DEF Profile!Agreed
<1>8. Profile!KeysHeld'
  BY <1>1, ProfileHeldRest
<1> QED BY <1>6, <1>7, <1>8 DEF Profile!ProfileInv, ProfileIssued

\* One probe moves, and a handler's profile is what the probe has prepared or stays.
LEMMA ProfileProbeMoves ==
    ASSUME Profile!ProfileNames, Profile!ProfileInv, NEW i \in ProfileIssued, Profile!Agreed(i),
           NEW p \in Probes, NEW q \in ProfileAsked,
           UNCHANGED <<profile_file, profile_run, clients, last>>, proved \subseteq proved',
               proved' \subseteq Profile!Contracts,
           probe' = [probe EXCEPT ![p] = q],
           Profile!ProbeAgrees(i, q)',
           pending' = pending \/ (pending'.profile \in ProfileProfiles /\ Profile!ProfileAgrees(i,
               pending.profile)')
    PROVE  Profile!ProfileInv'
<1>1. /\ Profile!ProfileTypes /\ Profile!KeysHeld /\ probe \in [Probes -> ProfileAsked]
  BY DEF Profile!ProfileInv, Profile!ProfileTypes, ProfileAsked
<1>2. /\ Profile!ProfileAgrees(i, profile_file)' /\ Profile!ProfileAgrees(i, pending.profile)'
      /\ \A r \in Probes : Profile!ProbeAgrees(i, probe[r])' \/ probe'[r] # probe[r]
  BY <1>1, ProfileAgreedRest
<1>3. ASSUME NEW r \in Probes PROVE Profile!ProbeAgrees(i, probe[r])'
  <2>1. CASE r = p
    <3>1. probe'[r] = q
      BY <1>1, <2>1
    <3> QED BY <3>1
  <2>2. CASE r # p
    BY <1>1, <1>2, <2>2
  <2> QED BY <2>1, <2>2
<1>4. Profile!Agreed(i)'
  BY <1>2, <1>3 DEF Profile!Agreed
<1>5. Profile!ProfileTypes'
  <2>1. probe' \in [Probes -> ProfileAsked]
    BY <1>1
  <2>2. pending'.profile \in ProfileProfiles
    BY <1>1 DEF Profile!ProfileTypes, ProfileProfiles
  <2> QED BY <1>1, <2>1, <2>2 DEF Profile!ProfileTypes, ProfileProfiles, ProfileAsked
<1>6. Profile!KeysHeld'
  BY <1>1, ProfileHeldRest
<1> QED BY <1>4, <1>5, <1>6 DEF Profile!ProfileInv, ProfileIssued

\* Probes end, and the profile is what it was or what was prepared.
LEMMA ProfileStoreMoves ==
    ASSUME Profile!ProfileNames, Profile!ProfileInv,
           profile_file' \in {profile_file, pending.profile}, pending' = Profile!Nothing,
           UNCHANGED <<proved, last>>, \A p \in Probes : probe'[p] \in {probe[p],
               Profile!Quiet("ended")},
           probe' \in [Probes -> ProfileAsked],
           profile_run' \in [Runs -> ProfileBound], Profile!KeysHeld', clients' \in {clients, {}}
    PROVE  Profile!ProfileInv'
<1>1. /\ Profile!ProfileTypes /\ Profile!KeysHeld /\ last \in 1..MaxRevisions
      /\ profile_file \in ProfileProfiles /\ pending.profile \in ProfileProfiles
         /\ \A p \in Probes : probe[p] \in ProfileAsked
  BY DEF Profile!ProfileInv, Profile!ProfileTypes, ProfileProfiles, ProfileAsked
<1>2. PICK i \in ProfileIssued : Profile!Agreed(i)
  BY DEF Profile!ProfileInv, ProfileIssued
<1>3. PICK f \in ProfileProfiles : f = profile_file' /\ Profile!ProfileAgrees(i, f)
  BY <1>1, <1>2 DEF Profile!Agreed
<1>4. Profile!ProfileAgrees(i, f)'
  BY <1>1, <1>3, ProfileProfileStays DEF Profile!ProfileNames
<1>5. pending'.profile = Profile!Gone
  BY DEF Profile!Nothing
<1>6. Profile!ProfileAgrees(i, Profile!Gone)'
  BY DEF Profile!ProfileAgrees
<1>7. ASSUME NEW p \in Probes PROVE Profile!ProbeAgrees(i, probe[p])'
  <2>1. PICK q \in ProfileAsked : q = probe'[p]
    OBVIOUS
  <2>2. CASE q = probe[p]
    <3>1. Profile!ProbeAgrees(i, q)
      BY <1>2, <2>2 DEF Profile!Agreed
    <3>2. Profile!ProbeAgrees(i, q)'
      BY <1>1, <3>1, ProfileProbeStays DEF Profile!ProfileNames
    <3> QED BY <2>1, <3>2
  <2>3. CASE q = Profile!Quiet("ended")
    BY <2>1, <2>3 DEF Profile!ProbeAgrees, Profile!Quiet
  <2> QED BY <2>1, <2>2, <2>3
<1>8. Profile!Agreed(i)'
  BY <1>3, <1>4, <1>5, <1>6, <1>7 DEF Profile!Agreed
<1>9. Profile!ProfileTypes'
  <2>1. profile_file' \in ProfileProfiles /\ Profile!Gone \in ProfileProfiles
    BY <1>1 DEF ProfileProfiles
  <2> QED BY <1>1, <1>5, <2>1 DEF Profile!ProfileTypes, ProfileProfiles, ProfileAsked,
      ProfileBound
<1> QED BY <1>8, <1>9 DEF Profile!ProfileInv, ProfileIssued

\* One run moves, with or without a new client.
LEMMA ProfileRunMoves ==
    ASSUME Profile!ProfileNames, Profile!ProfileInv, NEW r \in Runs, NEW s \in ProfileBound,
           UNCHANGED <<profile_file, pending, probe, proved, last>>,
           profile_run' = [profile_run EXCEPT ![r] = s],
           s.at \in {"accepted", "using"} => s.snapshot # Profile!None,
           s.at = "using" => Profile!HoldsItsKey(s.snapshot, s.key),
           clients' \subseteq [dest : Dests, model : Models, revision : 0..MaxRevisions,
               key : Profile!Keys],
           \A c \in clients' : Profile!HoldsItsKey(c, c.key)
    PROVE  Profile!ProfileInv'
<1>1. /\ Profile!ProfileTypes /\ Profile!KeysHeld /\ profile_run \in [Runs -> ProfileBound]
  BY DEF Profile!ProfileInv, Profile!ProfileTypes, ProfileBound
<1>2. PICK i \in ProfileIssued : Profile!Agreed(i)
  BY DEF Profile!ProfileInv, ProfileIssued
<1>3. Profile!Agreed(i)'
  BY <1>2 DEF Profile!Agreed, Profile!ProfileAgrees, Profile!ProbeAgrees, Profile!Earned
<1>4. Profile!ProfileTypes'
  <2>1. profile_run' \in [Runs -> ProfileBound]
    BY <1>1
  <2> QED BY <1>1, <2>1 DEF Profile!ProfileTypes, ProfileBound
<1>5. Profile!KeysHeld'
  <2>1. ASSUME NEW t \in Runs
        PROVE  /\ profile_run'[t].at \in {"accepted", "using"}
                  => profile_run'[t].snapshot # Profile!None
               /\ profile_run'[t].at = "using" => Profile!HoldsItsKey(profile_run'[t].snapshot,
                  profile_run'[t].key)
    <3>1. CASE t = r
      <4>1. profile_run'[t] = s
        BY <1>1, <3>1
      <4> QED BY <4>1
    <3>2. CASE t # r
      <4>1. profile_run'[t] = profile_run[t]
        BY <1>1, <3>2
      <4> QED BY <1>1, <4>1 DEF Profile!KeysHeld
    <3> QED BY <3>1, <3>2
  <2> QED BY <2>1 DEF Profile!KeysHeld, Profile!HoldsItsKey, Profile!Home
<1> QED BY <1>3, <1>4, <1>5 DEF Profile!ProfileInv, ProfileIssued

-----------------------------------------------------------------------------
(* The store *)

LEMMA ProfileReceiptFacts ==
    ASSUME Profile!ProfileNames, profile_file \in Profile!Saved, NEW n \in Profile!Saved
    PROVE  /\ Profile!WithReceipt(n) \in Profile!Saved
           /\ Profile!WithReceipt(n).dest = n.dest /\ Profile!WithReceipt(n).revision = n.revision
           /\ Profile!WithReceipt(n).key = n.key /\ Profile!WithReceipt(n).binding = n.binding
           /\ Profile!WithReceipt(n).receipt \in {profile_file.receipt, Profile!None}
<1>1. PICK x : x = IF Profile!Valid([n EXCEPT !.receipt = profile_file.receipt]) THEN profile_file.receipt ELSE Profile!None
  OBVIOUS
<1>2. Profile!WithReceipt(n) = [n EXCEPT !.receipt = x] /\ x \in {profile_file.receipt,
      Profile!None}
  BY <1>1 DEF Profile!WithReceipt
<1>3. profile_file.receipt \in Profile!Contracts \cup {Profile!None}
  BY DEF Profile!Saved
<1> QED BY <1>2, <1>3 DEF Profile!Saved

\* What a save prepares, if its key is the one that i knows of its revision.
LEMMA ProfileSavedAgrees ==
    ASSUME Profile!ProfileNames, Profile!ProfileTypes, profile_file \in Profile!Saved,
           NEW h \in ProfileIssued, Profile!ProfileAgrees(h, profile_file),
           NEW i \in ProfileIssued, \A v \in 0..last : i[v] = h[v],
           NEW n \in Profile!Saved, n.revision <= last', last' \in 1..MaxRevisions, last <= last',
           Profile!Keyed(n) <=> i[n.revision] # "none",
           Profile!Keyed(n) => n.key = [id |-> n.revision, home |-> i[n.revision]]
               /\ n.binding = n.key.home,
           proved' = proved, NEW g \in Profile!Saved, g = Profile!WithReceipt(n)
    PROVE  Profile!ProfileAgrees(i, g)'
<1>2. /\ g.revision = n.revision /\ g.key = n.key /\ g.binding = n.binding
      /\ g.receipt \in {profile_file.receipt, Profile!None}
  BY ProfileReceiptFacts
<1>3. ASSUME g.receipt # Profile!None PROVE g.receipt.revision <= last' /\ Profile!Earned(i,
             g.receipt)'
  <2>1. /\ g.receipt \in Profile!Contracts /\ g.receipt.revision <= last /\ Profile!Earned(h,
           g.receipt)
    <3>1. profile_file # Profile!Gone
      BY ProfileApart
    <3>2. g.receipt = profile_file.receipt
      BY <1>2, <1>3
    <3> QED BY <1>3, <3>1, <3>2 DEF Profile!ProfileAgrees, Profile!Saved
  <2>2. last \in Nat /\ last' \in Nat
    BY DEF Profile!ProfileTypes, Profile!ProfileNames
  <2>3. Profile!Earned(i, g.receipt)'
    BY <2>1, <2>2, ProfileEarnedStays
  <2> QED BY <2>1, <2>2, <2>3 DEF Profile!Contracts
<1> QED BY <1>2, <1>3 DEF Profile!ProfileAgrees, Profile!Keyed

LEMMA ProfileSaveStep ==
    ASSUME Profile!ProfileNames, Profile!ProfileInv, NEW d \in Dests, NEW m \in Models,
           NEW key \in {"keep", "enter", "forget"}, Profile!Save(d, m, key)
    PROVE  Profile!ProfileInv'
<1>1. /\ Profile!ProfileTypes /\ profile_file \in Profile!Saved /\ last \in 1..MaxRevisions
         /\ MaxRevisions \in Nat
  BY DEF Profile!ProfileInv, Profile!ProfileTypes, Profile!Save, Profile!Free,
     Profile!ProfileNames
<1>2. PICK h \in ProfileIssued : Profile!Agreed(h)
  BY DEF Profile!ProfileInv, ProfileIssued
<1>3. /\ profile_file # Profile!Gone /\ profile_file.revision <= last
         /\ profile_file.revision \in 0..MaxRevisions
      /\ Profile!Keyed(profile_file) <=> h[profile_file.revision] # "none"
      /\ Profile!Keyed(profile_file) => profile_file.key = [id |-> profile_file.revision,
         home |-> h[profile_file.revision]]
                        /\ profile_file.binding = profile_file.key.home
      /\ Profile!ProfileAgrees(h, profile_file)
  BY <1>1, <1>2, ProfileApart DEF Profile!Agreed, Profile!ProfileAgrees, Profile!Saved
<1>k. "none" \notin Dests /\ d # "none" /\ Profile!NoKey \in Profile!Keys
  BY ProfileApart DEF Profile!ProfileNames
<1>s. \A n \in Profile!Saved : Profile!WithReceipt(n) \in Profile!Saved
      /\ Profile!WithReceipt(n) \in ProfileProfiles
  BY <1>1, ProfileReceiptFacts DEF ProfileProfiles
<1>4. CASE key = "keep"
  <2>1. PICK b : b = IF Profile!Keyed(profile_file) THEN d ELSE profile_file.binding
    OBVIOUS
  <2>2. PICK n : n = [profile_file EXCEPT !.dest = d, !.model = m, !.binding = b]
    OBVIOUS
  <2>3. /\ n \in Profile!Saved /\ n.dest = d /\ n.revision = profile_file.revision
           /\ n.key = profile_file.key /\ n.binding = b
    BY <1>1, <2>1, <2>2 DEF Profile!Saved
  <2>4. /\ Profile!Kept(n) /\ Profile!Write(Profile!WithReceipt(n), "editor") /\ last' = last
    BY <1>4, <2>1, <2>2 DEF Profile!Save
  <2>5. /\ Profile!Keyed(n) <=> h[n.revision] # "none"
        /\ Profile!Keyed(n) => n.key = [id |-> n.revision, home |-> h[n.revision]]
           /\ n.binding = n.key.home
    BY <1>3, <2>1, <2>3, <2>4 DEF Profile!Keyed, Profile!Kept, Profile!Matches
  <2>6. PICK g \in Profile!Saved : g = Profile!WithReceipt(n) /\ pending' = [for |-> "editor",
        profile |-> g]
    BY <1>s, <2>3, <2>4 DEF Profile!Write
  <2>7. n.revision <= last' /\ last' \in 1..MaxRevisions /\ last <= last'
    BY <1>1, <1>3, <2>3, <2>4
  <2>8. Profile!ProfileAgrees(h, g)'
    BY <1>1, <1>3, <2>3, <2>5, <2>6, <2>7, ProfileSavedAgrees DEF Profile!Save
  <2> QED BY <1>1, <1>2, <2>6, <2>7, <2>8, ProfilePendingMoves DEF Profile!Save, ProfileProfiles
<1>5. CASE key = "enter"
  <2>1. last' = last + 1 /\ last' \in 1..MaxRevisions
    BY <1>1, <1>5 DEF Profile!Save
  <2>2. PICK v \in 1..MaxRevisions : v = last'
    BY <2>1
  <2>3. PICK n : n = [profile_file EXCEPT !.dest = d, !.model = m, !.revision = v, !.binding = d,
                                  !.key = [id |-> v, home |-> d]]
    OBVIOUS
  <2>4. /\ n \in Profile!Saved /\ n.revision = v /\ n.key = [id |-> v, home |-> d] /\ n.binding = d
    BY <1>1, <2>3 DEF Profile!Saved, Profile!Keys
  <2>5. Profile!Write(Profile!WithReceipt(n), "editor")
    BY <1>5, <2>2, <2>3 DEF Profile!Save
  <2>6. PICK i \in ProfileIssued : i = [h EXCEPT ![v] = d]
    BY <2>2 DEF ProfileIssued
  <2>7. (\A u \in 0..last : i[u] = h[u]) /\ i[v] = d
    BY <1>1, <2>1, <2>2, <2>6 DEF ProfileIssued
  <2>8. Profile!Keyed(n)
    BY <1>k, <2>4 DEF Profile!Keyed, Profile!NoKey
  <2>9. PICK g \in Profile!Saved : g = Profile!WithReceipt(n) /\ pending' = [for |-> "editor",
        profile |-> g]
    BY <1>s, <2>4, <2>5 DEF Profile!Write
  <2>10. n.revision <= last' /\ last <= last'
    BY <1>1, <2>1, <2>2, <2>4
  <2>11. /\ Profile!Keyed(n) <=> i[n.revision] # "none"
         /\ Profile!Keyed(n) => n.key = [id |-> n.revision, home |-> i[n.revision]]
            /\ n.binding = n.key.home
    BY <1>k, <2>4, <2>7, <2>8
  <2>12. Profile!ProfileAgrees(i, g)'
    BY <1>1, <1>3, <2>1, <2>4, <2>7, <2>9, <2>10, <2>11, ProfileSavedAgrees DEF Profile!Save
  <2> QED BY <1>1, <1>2, <2>1, <2>7, <2>9, <2>10, <2>12, ProfilePendingMoves DEF Profile!Save,
      ProfileProfiles
<1>6. CASE key = "forget"
  <2>1. last' = last + 1 /\ last' \in 1..MaxRevisions
    BY <1>1, <1>6 DEF Profile!Save
  <2>2. PICK v \in 1..MaxRevisions : v = last'
    BY <2>1
  <2>3. PICK n : n = [profile_file EXCEPT !.dest = d, !.model = m, !.revision = v,
        !.binding = "none",
                                  !.key = Profile!NoKey]
    OBVIOUS
  <2>4. /\ n \in Profile!Saved /\ n.revision = v /\ n.key = Profile!NoKey
    BY <1>1, <1>k, <2>3 DEF Profile!Saved
  <2>5. Profile!Write(Profile!WithReceipt(n), "editor")
    BY <1>6, <2>2, <2>3 DEF Profile!Save
  <2>6. PICK i \in ProfileIssued : i = [h EXCEPT ![v] = "none"]
    BY <2>2 DEF ProfileIssued
  <2>7. (\A u \in 0..last : i[u] = h[u]) /\ i[v] = "none"
    BY <1>1, <2>1, <2>2, <2>6 DEF ProfileIssued
  <2>8. ~Profile!Keyed(n)
    BY <2>4 DEF Profile!Keyed
  <2>9. PICK g \in Profile!Saved : g = Profile!WithReceipt(n) /\ pending' = [for |-> "editor",
        profile |-> g]
    BY <1>s, <2>4, <2>5 DEF Profile!Write
  <2>10. n.revision <= last' /\ last <= last'
    BY <1>1, <2>1, <2>2, <2>4
  <2>11. /\ Profile!Keyed(n) <=> i[n.revision] # "none"
         /\ Profile!Keyed(n) => n.key = [id |-> n.revision, home |-> i[n.revision]]
            /\ n.binding = n.key.home
    BY <1>k, <2>4, <2>7, <2>8
  <2>12. Profile!ProfileAgrees(i, g)'
    BY <1>1, <1>3, <2>1, <2>4, <2>7, <2>9, <2>10, <2>11, ProfileSavedAgrees DEF Profile!Save
  <2> QED BY <1>1, <1>2, <2>1, <2>7, <2>9, <2>10, <2>12, ProfilePendingMoves DEF Profile!Save,
      ProfileProfiles
<1> QED BY <1>4, <1>5, <1>6

LEMMA ProfileDeleteStep == ASSUME Profile!ProfileNames, Profile!ProfileInv, Profile!Delete
                                  PROVE Profile!ProfileInv'
<1>1. PICK i \in ProfileIssued : Profile!Agreed(i)
  BY DEF Profile!ProfileInv, ProfileIssued
<1>2. last \in 1..MaxRevisions /\ MaxRevisions \in Nat
  BY DEF Profile!ProfileInv, Profile!ProfileTypes, Profile!ProfileNames
<1>3. Profile!Gone \in ProfileProfiles /\ Profile!ProfileAgrees(i, Profile!Gone)'
  BY DEF ProfileProfiles, Profile!ProfileAgrees
<1> QED BY <1>1, <1>2, <1>3, ProfilePendingMoves DEF Profile!Delete

LEMMA ProfileFinishFacts ==
    ASSUME Profile!ProfileNames, Profile!ProfileInv, probe' = Profile!Finish(pending.for)
    PROVE  /\ probe' \in [Probes -> ProfileAsked]
           /\ \A p \in Probes : probe'[p] \in {probe[p], Profile!Quiet("ended")}
<1>1. probe \in [Probes -> ProfileAsked]
  BY DEF Profile!ProfileInv, Profile!ProfileTypes, ProfileAsked
<1>2. Profile!Quiet("ended") \in ProfileAsked
  BY ProfileApart DEF Profile!Quiet, ProfileAsked
<1> QED BY <1>1, <1>2 DEF Profile!Finish

LEMMA ProfileReplaceStep == ASSUME Profile!ProfileNames, Profile!ProfileInv, Profile!Replace
                                   PROVE Profile!ProfileInv'
<1>1. profile_run' \in [Runs -> ProfileBound] /\ Profile!KeysHeld'
  BY ProfileHeldRest DEF Profile!ProfileInv, Profile!ProfileTypes, ProfileBound, Profile!Replace
<1> QED BY <1>1, ProfileFinishFacts, ProfileStoreMoves DEF Profile!Replace

LEMMA ProfileWriteFailsStep == ASSUME Profile!ProfileNames, Profile!ProfileInv,
                                      Profile!WriteFails PROVE Profile!ProfileInv'
<1>1. profile_run' \in [Runs -> ProfileBound] /\ Profile!KeysHeld'
  BY ProfileHeldRest DEF Profile!ProfileInv, Profile!ProfileTypes, ProfileBound,
     Profile!WriteFails
<1> QED BY <1>1, ProfileFinishFacts, ProfileStoreMoves DEF Profile!WriteFails

LEMMA ProfileCrashStep == ASSUME Profile!ProfileNames, Profile!ProfileInv, Profile!Crash
                                 PROVE Profile!ProfileInv'
<1>1. probe \in [Probes -> ProfileAsked] /\ profile_run \in [Runs -> ProfileBound]
      /\ Profile!KeysHeld
  BY DEF Profile!ProfileInv, Profile!ProfileTypes, ProfileAsked, ProfileBound
<1>2. Profile!Quiet("ended") \in ProfileAsked
  BY ProfileApart DEF Profile!Quiet, ProfileAsked
<1>3. /\ probe' \in [Probes -> ProfileAsked]
      /\ \A p \in Probes : probe'[p] \in {probe[p], Profile!Quiet("ended")}
  BY <1>1, <1>2 DEF Profile!Crash
<1>4. ASSUME NEW r \in Runs
      PROVE  /\ profile_run'[r] \in ProfileBound /\ profile_run'[r].at # "using"
             /\ profile_run'[r].at = "accepted" => profile_run'[r].snapshot # Profile!None
  <2>1. CASE profile_run[r].at = "using"
    <3>1. profile_run'[r] = [profile_run[r] EXCEPT !.at = "accepted"]
      BY <2>1 DEF Profile!Crash
    <3> QED BY <1>1, <2>1, <3>1 DEF ProfileBound, Profile!KeysHeld
  <2>2. CASE profile_run[r].at # "using"
    <3>1. profile_run'[r] = profile_run[r]
      BY <2>2 DEF Profile!Crash
    <3> QED BY <1>1, <2>2, <3>1 DEF Profile!KeysHeld
  <2> QED BY <2>1, <2>2
<1>5. profile_run' \in [Runs -> ProfileBound]
  BY <1>4 DEF Profile!Crash
<1>6. clients' = {}
  BY DEF Profile!Crash
<1>7. Profile!KeysHeld'
  BY <1>4, <1>6 DEF Profile!KeysHeld
<1> QED BY <1>3, <1>5, <1>6, <1>7, ProfileStoreMoves DEF Profile!Crash

LEMMA ProfileEditFileStep ==
    ASSUME Profile!ProfileNames, Profile!ProfileInv, NEW d \in Dests, Profile!EditFile(d)
    PROVE  Profile!ProfileInv'
<1>1. /\ Profile!ProfileTypes /\ profile_file \in Profile!Saved /\ last \in 1..MaxRevisions
         /\ MaxRevisions \in Nat
  BY DEF Profile!ProfileInv, Profile!ProfileTypes, Profile!EditFile, Profile!ProfileNames
<1>2. PICK i \in ProfileIssued : Profile!Agreed(i)
  BY DEF Profile!ProfileInv, ProfileIssued
<1>3. PICK f : f = [profile_file EXCEPT !.dest = d]
  OBVIOUS
<1>4. /\ f \in Profile!Saved /\ f.revision = profile_file.revision /\ f.key = profile_file.key
         /\ f.binding = profile_file.binding
      /\ f.receipt = profile_file.receipt /\ profile_file' = f
  BY <1>1, <1>3 DEF Profile!Saved, Profile!EditFile
<1>5. Profile!ProfileAgrees(i, f)
  <2>1. profile_file # Profile!Gone /\ Profile!ProfileAgrees(i, profile_file)
    BY <1>1, <1>2, ProfileApart DEF Profile!Agreed
  <2> QED BY <1>4, <2>1 DEF Profile!ProfileAgrees, Profile!Keyed
<1>6. Profile!Agreed(i)'
  BY <1>2, <1>4, <1>5 DEF Profile!Agreed, Profile!ProfileAgrees, Profile!ProbeAgrees,
     Profile!Earned, Profile!EditFile
<1>7. Profile!ProfileTypes'
  BY <1>1, <1>4 DEF Profile!ProfileTypes, Profile!EditFile
<1>8. Profile!KeysHeld'
  BY ProfileHeldRest DEF Profile!ProfileInv, Profile!EditFile
<1> QED BY <1>6, <1>7, <1>8 DEF Profile!ProfileInv, ProfileIssued

-----------------------------------------------------------------------------
(* The probe *)

LEMMA ProfileAskStep ==
    ASSUME Profile!ProfileNames, Profile!ProfileInv, NEW p \in Probes, Profile!Ask(p)
    PROVE  Profile!ProfileInv'
<1>1. /\ probe \in [Probes -> ProfileAsked] /\ profile_file \in ProfileProfiles
         /\ last \in 1..MaxRevisions
      /\ proved \subseteq Profile!Contracts
  BY DEF Profile!ProfileInv, Profile!ProfileTypes, ProfileAsked, ProfileProfiles
<1>2. PICK i \in ProfileIssued : Profile!Agreed(i)
  BY DEF Profile!ProfileInv, ProfileIssued
<1>3. PICK named \in Profile!Contracts \cup {Profile!None} : Profile!Asking(p, named)
  BY DEF Profile!Ask
<1>4. PICK c : c = IF /\ profile_file # Profile!Gone /\ ~Profile!Reentry(profile_file)
                      /\ named \in {Profile!None,
                         Profile!Contract(profile_file)} THEN Profile!Contract(profile_file) ELSE Profile!None
  OBVIOUS
<1>5. /\ c \in Profile!Contracts \cup {Profile!None}
      /\ c # Profile!None => /\ c.revision <= last /\ i[c.revision] \in {"none", c.dest}
                             /\ named \in {Profile!None, c}
  <2>1. CASE profile_file # Profile!Gone /\ ~Profile!Reentry(profile_file)
             /\ named \in {Profile!None, Profile!Contract(profile_file)}
    <3>1. profile_file \in Profile!Saved /\ c = Profile!Contract(profile_file)
          /\ c \in Profile!Contracts
      BY <1>1, <1>4, <2>1, ProfileApart DEF ProfileProfiles
    <3>2. Profile!ProfileAgrees(i, profile_file)
      BY <1>2 DEF Profile!Agreed
    <3>3. i[profile_file.revision] \in Dests \cup {"none"}
      BY <3>1 DEF ProfileIssued, Profile!Saved, Profile!ProfileNames
    <3>4. c.revision = profile_file.revision /\ c.dest = profile_file.dest
      BY <3>1 DEF Profile!Contract
    <3> QED BY <2>1, <3>1, <3>2, <3>3, <3>4 DEF Profile!ProfileAgrees, Profile!Reentry,
        Profile!Matches
  <2>2. CASE ~(profile_file # Profile!Gone /\ ~Profile!Reentry(profile_file)
             /\ named \in {Profile!None, Profile!Contract(profile_file)})
    BY <1>4, <2>2
  <2> QED BY <2>1, <2>2
<1>6. PICK q : q = [probe[p] EXCEPT !.at = "read", !.named = named, !.saved = c]
  OBVIOUS
<1>7. /\ q \in ProfileAsked /\ q.at = "read" /\ q.named = named /\ q.saved = c
      /\ probe' = [probe EXCEPT ![p] = q]
  BY <1>1, <1>3, <1>4, <1>5, <1>6 DEF ProfileAsked, Profile!Asking
<1>8. Profile!ProbeAgrees(i, q)'
  BY <1>5, <1>7 DEF Profile!ProbeAgrees, Profile!Ask
<1> QED BY <1>1, <1>2, <1>7, <1>8, ProfileProbeMoves DEF Profile!Ask, Profile!disk

LEMMA ProfileDiscoverStep ==
    ASSUME Profile!ProfileNames, Profile!ProfileInv, NEW p \in Probes, NEW d \in Dests,
           Profile!Discover(p, d)
    PROVE  Profile!ProfileInv'
<1>1. /\ profile_file \in Profile!Saved /\ proved \subseteq Profile!Contracts
  BY DEF Profile!ProfileInv, Profile!ProfileTypes, Profile!Discover
<1>2. PICK i \in ProfileIssued : Profile!Agreed(i)
  BY DEF Profile!ProfileInv, ProfileIssued
<1>3. PICK n : n = [Profile!Contract(profile_file) EXCEPT !.dest = d]
  OBVIOUS
<1>4. n \in Profile!Contracts
  BY <1>1, <1>3, ProfileApart DEF Profile!Contracts
<1>5. PICK q : q = [Profile!Quiet("read") EXCEPT !.named = n]
  OBVIOUS
<1>6. q \in ProfileAsked /\ q.saved = Profile!None /\ q.at = "read"
  BY <1>4, <1>5, ProfileApart DEF Profile!Quiet, ProfileAsked
<1>7. Profile!ProbeAgrees(i, q)'
  BY <1>6 DEF Profile!ProbeAgrees
<1>8. probe' = [probe EXCEPT ![p] = q]
  BY <1>3, <1>5 DEF Profile!Discover
<1> QED BY <1>1, <1>2, <1>6, <1>7, <1>8, ProfileProbeMoves DEF Profile!Discover, Profile!disk

\* A probe that ends.
LEMMA ProfileProbeEnds ==
    ASSUME Profile!ProfileNames, Profile!ProfileInv, NEW p \in Probes, NEW place \in {"ended",
           "writing"},
           probe' = [probe EXCEPT ![p] = Profile!Quiet(place)],
           UNCHANGED <<profile_file, profile_run, clients, last, pending>>,
           proved \subseteq proved', proved' \subseteq Profile!Contracts
    PROVE  Profile!ProfileInv'
<1>1. PICK i \in ProfileIssued : Profile!Agreed(i)
  BY DEF Profile!ProfileInv, ProfileIssued
<1>2. Profile!Quiet(place) \in ProfileAsked
  BY ProfileApart DEF Profile!Quiet, ProfileAsked
<1>3. PICK q \in ProfileAsked : q = Profile!Quiet(place)
  BY <1>2
<1>4. Profile!ProbeAgrees(i, q)'
  BY <1>3 DEF Profile!ProbeAgrees, Profile!Quiet
<1> QED BY <1>1, <1>3, <1>4, ProfileProbeMoves

\* What Resolves checks: the key of the file is entered for the destination it is used for.
LEMMA ProfileResolvedKey ==
    ASSUME Profile!ProfileNames, Profile!ProfileInv, NEW i \in ProfileIssued, Profile!Agreed(i),
           NEW n \in Profile!Contracts \cup {Profile!None}, NEW v, Profile!Resolves(n, v)
    PROVE  /\ profile_file \in Profile!Saved /\ Profile!Override(n) \in Profile!Contracts
              /\ Profile!Override(n).revision = profile_file.revision
           /\ profile_file.revision <= last /\ v = profile_file.revision
           /\ n # Profile!None => Profile!Override(n).dest = n.dest
           /\ n = Profile!None => Profile!Override(n) = Profile!Contract(profile_file)
           /\ Profile!Home(profile_file.key, Profile!Override(n).dest)
           /\ profile_file.key # Profile!NoKey => profile_file.key.id = profile_file.revision
           /\ i[profile_file.revision] # "none"
              => i[profile_file.revision] = Profile!Override(n).dest
<1>1. profile_file \in Profile!Saved
  BY DEF Profile!ProfileInv, Profile!ProfileTypes, Profile!Resolves
<1>2. profile_file # Profile!Gone /\ Profile!ProfileAgrees(i, profile_file)
  BY <1>1, ProfileApart DEF Profile!Agreed
<1>3. v = profile_file.revision
  BY <1>1 DEF Profile!Resolves, Profile!Saved, Profile!ProfileNames
<1>4. /\ Profile!Override(n) \in Profile!Contracts
         /\ Profile!Override(n).revision = profile_file.revision
      /\ n # Profile!None => Profile!Override(n).dest = n.dest
      /\ n = Profile!None => Profile!Override(n) = Profile!Contract(profile_file)
  <2>1. CASE n = Profile!None
    BY <1>1, <2>1, ProfileApart DEF Profile!Override, Profile!None, Profile!Contract
  <2>2. CASE n \in Profile!Contracts
    <3>1. n.dest # "none" /\ n # Profile!None
      BY <2>2, ProfileApart DEF Profile!Contracts, Profile!ProfileNames
    <3>2. Profile!Override(n) = [n EXCEPT !.revision = profile_file.revision]
      BY <3>1 DEF Profile!Override
    <3>3. profile_file.revision \in 0..MaxRevisions
      BY <1>1 DEF Profile!Saved, Profile!ProfileNames
    <3> QED BY <2>2, <3>1, <3>2, <3>3 DEF Profile!Contracts
  <2> QED BY <2>1, <2>2
<1>5. ASSUME Profile!Keyed(profile_file) PROVE profile_file.key.home = Profile!Override(n).dest
             /\ i[profile_file.revision] = Profile!Override(n).dest
  BY <1>2, <1>5 DEF Profile!ProfileAgrees, Profile!Resolves, Profile!Matches
<1>6. /\ Profile!Home(profile_file.key, Profile!Override(n).dest)
      /\ profile_file.key # Profile!NoKey => profile_file.key.id = profile_file.revision
      /\ i[profile_file.revision] # "none" => i[profile_file.revision] = Profile!Override(n).dest
  BY <1>2, <1>5 DEF Profile!ProfileAgrees, Profile!Keyed, Profile!Home
<1> QED BY <1>1, <1>2, <1>3, <1>4, <1>6 DEF Profile!ProfileAgrees

LEMMA ProfileSendStep ==
    ASSUME Profile!ProfileNames, Profile!ProfileInv, NEW p \in Probes, Profile!Send(p)
    PROVE  Profile!ProfileInv'
<1>1. /\ probe \in [Probes -> ProfileAsked] /\ proved \subseteq Profile!Contracts
  BY DEF Profile!ProfileInv, Profile!ProfileTypes, ProfileAsked
<1>2. PICK i \in ProfileIssued : Profile!Agreed(i)
  BY DEF Profile!ProfileInv, ProfileIssued
<1>3. PICK q \in ProfileAsked : q = probe[p] /\ Profile!ProbeAgrees(i, q)
  BY <1>1, <1>2 DEF Profile!Agreed
<1>4. PICK v : v = IF q.saved # Profile!None THEN q.saved.revision
                   ELSE IF q.named # Profile!None THEN q.named.revision ELSE profile_file.revision
  OBVIOUS
<1>5. CASE Profile!Resolves(q.named, v)
  <2>1. PICK n \in Profile!Contracts \cup {Profile!None} : n = q.named
    BY DEF ProfileAsked
  <2>2. PICK u \in Profile!Contracts : u = Profile!Override(n)
    BY <1>2, <1>5, <2>1, ProfileResolvedKey
  <2>3. /\ profile_file \in Profile!Saved /\ u.revision = profile_file.revision
           /\ profile_file.revision <= last /\ v = profile_file.revision
        /\ n # Profile!None => u.dest = n.dest
        /\ n = Profile!None => u = Profile!Contract(profile_file)
        /\ Profile!Home(profile_file.key, u.dest)
        /\ i[profile_file.revision] # "none" => i[profile_file.revision] = u.dest
    BY <1>2, <1>5, <2>1, <2>2, ProfileResolvedKey
  <2>4. PICK r : r = [q EXCEPT !.at = "sent", !.used = u, !.key = profile_file.key]
    OBVIOUS
  <2>5. /\ r \in ProfileAsked /\ r.at = "sent" /\ r.used = u /\ r.key = profile_file.key
           /\ r.saved = q.saved
    BY <2>3, <2>4 DEF ProfileAsked, Profile!Saved
  <2>6. probe' = [probe EXCEPT ![p] = r]
    BY <1>1, <1>3, <1>4, <1>5, <2>1, <2>2, <2>4 DEF Profile!Send
  <2>7. ASSUME q.saved # Profile!None
        PROVE  /\ u.revision = q.saved.revision
               /\ i[u.revision] # "none" => u.dest = q.saved.dest
    BY <1>3, <1>4, <2>3, <2>7 DEF Profile!ProbeAgrees
  <2>8. u # Profile!None
    BY <2>2, ProfileApart
  <2>9. Profile!ProbeAgrees(i, r)'
    BY <1>3, <2>3, <2>5, <2>7, <2>8 DEF Profile!ProbeAgrees, Profile!Send
  <2> QED BY <1>1, <1>2, <2>5, <2>6, <2>9, ProfileProbeMoves DEF Profile!Send, Profile!disk
<1>6. CASE ~Profile!Resolves(q.named, v)
  BY <1>1, <1>3, <1>4, <1>6, ProfileProbeEnds DEF Profile!Send, Profile!disk
<1> QED BY <1>5, <1>6

LEMMA ProfileReplyStep ==
    ASSUME Profile!ProfileNames, Profile!ProfileInv, NEW p \in Probes, Profile!Reply(p)
    PROVE  Profile!ProfileInv'
<1>1. /\ probe \in [Probes -> ProfileAsked] /\ proved \subseteq Profile!Contracts
  BY DEF Profile!ProfileInv, Profile!ProfileTypes, ProfileAsked
<1>2. PICK i \in ProfileIssued : Profile!Agreed(i)
  BY DEF Profile!ProfileInv, ProfileIssued
<1>3. PICK q \in ProfileAsked : q = probe[p] /\ Profile!ProbeAgrees(i, q) /\ q.at = "sent"
  BY <1>1, <1>2 DEF Profile!Agreed, Profile!Reply
<1>4. CASE proved' = proved /\ probe' = [probe EXCEPT ![p] = Profile!Quiet("ended")]
  BY <1>1, <1>4, ProfileProbeEnds DEF Profile!Reply, Profile!disk
<1>5. CASE /\ proved' = proved \cup {q.used}
           /\ probe' = [probe EXCEPT ![p] = IF q.saved # Profile!None THEN [Profile!Quiet("proved") EXCEPT !.saved = q.saved]
                                            ELSE Profile!Quiet("ended")]
  <2>1. q.used \in Profile!Contracts
    BY <1>3 DEF Profile!ProbeAgrees, ProfileAsked
  <2>2. CASE q.saved = Profile!None
    BY <1>1, <1>5, <2>1, <2>2, ProfileProbeEnds DEF Profile!Reply, Profile!disk
  <2>3. CASE q.saved # Profile!None
    <3>1. PICK r : r = [Profile!Quiet("proved") EXCEPT !.saved = q.saved]
      OBVIOUS
    <3>2. r \in ProfileAsked /\ r.at = "proved" /\ r.saved = q.saved
      BY <3>1, ProfileApart DEF Profile!Quiet, ProfileAsked
    <3>3. Profile!Earned(i, q.saved)'
      BY <1>3, <1>5, <2>3 DEF Profile!Earned, Profile!ProbeAgrees
    <3>4. Profile!ProbeAgrees(i, r)'
      BY <1>3, <2>3, <3>2, <3>3 DEF Profile!ProbeAgrees, Profile!Reply
    <3>5. probe' = [probe EXCEPT ![p] = r]
      BY <1>5, <2>3, <3>1
    <3> QED BY <1>1, <1>2, <1>5, <2>1, <3>2, <3>4, <3>5, ProfileProbeMoves DEF Profile!Reply,
        Profile!disk
  <2> QED BY <2>2, <2>3
<1> QED BY <1>1, <1>3, <1>4, <1>5 DEF Profile!Reply

LEMMA ProfilePublishStep ==
    ASSUME Profile!ProfileNames, Profile!ProfileInv, NEW p \in Probes, Profile!Publish(p)
    PROVE  Profile!ProfileInv'
<1>1. /\ probe \in [Probes -> ProfileAsked] /\ proved \subseteq Profile!Contracts
         /\ profile_file \in ProfileProfiles
      /\ last \in 1..MaxRevisions
  BY DEF Profile!ProfileInv, Profile!ProfileTypes, ProfileAsked, ProfileProfiles
<1>2. PICK i \in ProfileIssued : Profile!Agreed(i)
  BY DEF Profile!ProfileInv, ProfileIssued
<1>3. PICK q \in ProfileAsked : q = probe[p] /\ Profile!ProbeAgrees(i, q) /\ q.at = "proved"
  BY <1>1, <1>2 DEF Profile!Agreed, Profile!Publish
<1>4. CASE ~profile_broken /\ profile_file # Profile!Gone /\ Profile!Unchanged(q.saved)
  <2>1. profile_file \in Profile!Saved /\ Profile!Contract(profile_file) = q.saved
        /\ Profile!ProfileAgrees(i, profile_file)
    BY <1>1, <1>2, <1>4 DEF ProfileProfiles, Profile!Unchanged, Profile!Agreed
  <2>2. PICK g : g = [profile_file EXCEPT !.receipt = Profile!Contract(profile_file)]
    OBVIOUS
  <2>3. /\ g \in Profile!Saved /\ g.receipt = q.saved /\ g.revision = profile_file.revision
           /\ g.key = profile_file.key
        /\ g.binding = profile_file.binding
    BY <2>1, <2>2, ProfileApart DEF Profile!Saved
  <2>4. q.saved # Profile!None /\ Profile!Earned(i, q.saved) /\ q.saved.revision <= last
    BY <1>3 DEF Profile!ProbeAgrees
  <2>5. Profile!ProfileAgrees(i, g)
    BY <1>4, <2>1, <2>3, <2>4 DEF Profile!ProfileAgrees, Profile!Keyed
  <2>6. pending' = [for |-> p, profile |-> g] /\ pending'.profile = g
    BY <1>3, <1>4, <2>2 DEF Profile!Publish, Profile!Write
  <2>7. Profile!ProfileAgrees(i, pending.profile)'
    BY <2>5, <2>6 DEF Profile!ProfileAgrees, Profile!Earned, Profile!Publish
  <2>8. PICK r \in ProfileAsked : r = Profile!Quiet("writing")
    BY ProfileApart DEF Profile!Quiet, ProfileAsked
  <2>9. Profile!ProbeAgrees(i, r)'
    BY <2>8 DEF Profile!ProbeAgrees, Profile!Quiet
  <2>10. probe' = [probe EXCEPT ![p] = r]
    BY <1>3, <1>4, <2>8 DEF Profile!Publish
  <2> QED BY <1>1, <1>2, <2>3, <2>6, <2>7, <2>9, <2>10, ProfileProbeMoves DEF Profile!Publish,
      ProfileProfiles
<1>5. CASE ~(~profile_broken /\ profile_file # Profile!Gone /\ Profile!Unchanged(q.saved))
  BY <1>1, <1>3, <1>5, ProfileProbeEnds DEF Profile!Publish
<1> QED BY <1>4, <1>5

-----------------------------------------------------------------------------
(* The run *)

LEMMA ProfileRunFacts ==
    ASSUME Profile!ProfileInv
    PROVE  /\ profile_run \in [Runs -> ProfileBound] /\ Profile!KeysHeld
           /\ clients \subseteq [dest : Dests, model : Models, revision : 0..MaxRevisions,
              key : Profile!Keys]
           /\ \A c \in clients : Profile!HoldsItsKey(c, c.key)
BY DEF Profile!ProfileInv, Profile!ProfileTypes, ProfileBound, Profile!KeysHeld

LEMMA ProfileAcceptStep ==
    ASSUME Profile!ProfileNames, Profile!ProfileInv, NEW r \in Runs, Profile!Accept(r)
    PROVE  Profile!ProfileInv'
<1>1. profile_file \in Profile!Saved /\ Profile!Contract(profile_file) \in Profile!Contracts
  BY ProfileApart DEF Profile!ProfileInv, Profile!ProfileTypes, Profile!Accept
<1>2. PICK s : s = [profile_run[r] EXCEPT !.at = "accepted",
      !.snapshot = Profile!Contract(profile_file)]
  OBVIOUS
<1>3. s \in ProfileBound /\ s.at = "accepted" /\ s.snapshot # Profile!None
  BY <1>1, <1>2, ProfileRunFacts, ProfileApart DEF ProfileBound
<1>4. profile_run' = [profile_run EXCEPT ![r] = s]
  BY <1>2, ProfileRunFacts DEF Profile!Accept
<1> QED BY <1>3, <1>4, ProfileRunFacts, ProfileRunMoves DEF Profile!Accept, Profile!disk

LEMMA ProfileBeginStep ==
    ASSUME Profile!ProfileNames, Profile!ProfileInv, NEW r \in Runs, Profile!Begin(r)
    PROVE  Profile!ProfileInv'
<1>1. PICK t \in ProfileBound : t = profile_run[r] /\ t.at = "accepted"
      /\ t.snapshot \in Profile!Contracts
  BY ProfileRunFacts DEF Profile!Begin, Profile!KeysHeld, ProfileBound
<1>2. CASE ~Profile!Resolves(t.snapshot, t.snapshot.revision)
  <2>1. PICK s : s = [t EXCEPT !.at = "ended"]
    OBVIOUS
  <2>2. s \in ProfileBound /\ s.at = "ended"
    BY <2>1 DEF ProfileBound
  <2>3. profile_run' = [profile_run EXCEPT ![r] = s] /\ clients' = clients
    BY <1>1, <1>2, <2>1, ProfileRunFacts DEF Profile!Begin
  <2> QED BY <2>2, <2>3, ProfileRunFacts, ProfileRunMoves DEF Profile!Begin, Profile!disk
<1>3. CASE Profile!Resolves(t.snapshot, t.snapshot.revision)
  <2>1. PICK i \in ProfileIssued : Profile!Agreed(i)
    BY DEF Profile!ProfileInv, ProfileIssued
  <2>2. /\ profile_file \in Profile!Saved /\ t.snapshot.revision = profile_file.revision
        /\ Profile!Override(t.snapshot).dest = t.snapshot.dest
        /\ Profile!Home(profile_file.key, t.snapshot.dest)
        /\ profile_file.key # Profile!NoKey => profile_file.key.id = t.snapshot.revision
    BY <1>1, <1>3, <2>1, ProfileResolvedKey, ProfileApart
  <2>3. PICK new : new = [dest |-> t.snapshot.dest, model |-> t.snapshot.model,
                          revision |-> t.snapshot.revision, key |-> profile_file.key]
    OBVIOUS
  <2>4. /\ new \in [dest : Dests, model : Models, revision : 0..MaxRevisions, key : Profile!Keys]
        /\ Profile!HoldsItsKey(new, new.key)
        /\ new.dest = t.snapshot.dest /\ new.revision = t.snapshot.revision
    BY <1>1, <2>2, <2>3 DEF Profile!Contracts, Profile!Saved, Profile!HoldsItsKey, Profile!Home
  <2>5. PICK c \in clients \cup {new} :
            /\ c = new \/ (c \in clients /\ Profile!SameClient(c, t.snapshot))
            /\ clients' = clients \cup {c}
            /\ profile_run' = [profile_run EXCEPT ![r].at = "using", ![r].key = c.key]
    <3>1. PICK c \in IF {k \in clients : Profile!SameClient(k, t.snapshot)} # {}
                     THEN {k \in clients : Profile!SameClient(k, t.snapshot)} ELSE {new} :
              /\ clients' = clients \cup {c}
              /\ profile_run' = [profile_run EXCEPT ![r].at = "using", ![r].key = c.key]
      BY <1>1, <1>3, <2>3 DEF Profile!Begin
    <3>2. CASE {k \in clients : Profile!SameClient(k, t.snapshot)} # {}
      BY <3>1, <3>2
    <3>3. CASE {k \in clients : Profile!SameClient(k, t.snapshot)} = {}
      BY <3>1, <3>3
    <3> QED BY <3>2, <3>3
  <2>6. /\ c \in [dest : Dests, model : Models, revision : 0..MaxRevisions, key : Profile!Keys]
        /\ Profile!HoldsItsKey(c, c.key)
        /\ c.dest = t.snapshot.dest /\ c.revision = t.snapshot.revision
    BY <1>1, <2>4, <2>5, ProfileRunFacts DEF Profile!SameClient, Profile!Contract,
       Profile!Contracts
  <2>7. PICK s : s = [t EXCEPT !.at = "using", !.key = c.key]
    OBVIOUS
  <2>8. s \in ProfileBound /\ s.at = "using" /\ s.snapshot = t.snapshot /\ s.key = c.key
    BY <2>6, <2>7 DEF ProfileBound
  <2>9. Profile!HoldsItsKey(s.snapshot, s.key) /\ s.snapshot # Profile!None
    BY <1>1, <2>6, <2>8, ProfileApart DEF Profile!HoldsItsKey
  <2>10. profile_run' = [profile_run EXCEPT ![r] = s]
    BY <1>1, <2>5, <2>7, ProfileRunFacts
  <2>11. /\ clients' \subseteq [dest : Dests, model : Models, revision : 0..MaxRevisions,
            key : Profile!Keys]
         /\ \A k \in clients' : Profile!HoldsItsKey(k, k.key)
    BY <2>5, <2>6, ProfileRunFacts
  <2> QED BY <2>8, <2>9, <2>10, <2>11, ProfileRunMoves DEF Profile!Begin, Profile!disk
<1> QED BY <1>2, <1>3

LEMMA ProfileStopStep ==
    ASSUME Profile!ProfileNames, Profile!ProfileInv, NEW r \in Runs, Profile!Stop(r)
    PROVE  Profile!ProfileInv'
<1>1. PICK t \in ProfileBound : t = profile_run[r] /\ t.at = "using" /\ t.snapshot # Profile!None
  BY ProfileRunFacts DEF Profile!Stop, Profile!KeysHeld
<1>2. PICK s : s = [t EXCEPT !.at = "accepted", !.key = Profile!NoKey]
  OBVIOUS
<1>3. s \in ProfileBound /\ s.at = "accepted" /\ s.snapshot # Profile!None
  BY <1>1, <1>2, ProfileApart DEF ProfileBound
<1>4. profile_run' = [profile_run EXCEPT ![r] = s]
  BY <1>1, <1>2, ProfileRunFacts DEF Profile!Stop
<1> QED BY <1>3, <1>4, ProfileRunFacts, ProfileRunMoves DEF Profile!Stop, Profile!disk

-----------------------------------------------------------------------------
LEMMA ProfileInitInv == ASSUME Profile!ProfileNames, Profile!Init PROVE Profile!ProfileInv
<1>1. PICK d \in Dests, m \in Models : profile_file = Profile!Start(d, m)
  BY DEF Profile!Init
<1>2. /\ profile_file \in Profile!Saved /\ profile_file.revision = 1
         /\ profile_file.key = [id |-> 1, home |-> d]
      /\ profile_file.binding = d /\ profile_file.receipt = Profile!None
  BY <1>1 DEF Profile!Start, Profile!Saved, Profile!Keys, Profile!ProfileNames
<1>3. d # "none" /\ 1 \in 0..MaxRevisions /\ 1 \in 1..MaxRevisions
  BY DEF Profile!ProfileNames
<1>4. PICK i \in ProfileIssued : i = [v \in 0..MaxRevisions |-> IF v = 1 THEN d ELSE "none"]
  BY <1>3 DEF ProfileIssued
<1>5. i[1] = d
  BY <1>3, <1>4
<1>6. Profile!Keyed(profile_file)
  BY <1>2, <1>3 DEF Profile!Keyed, Profile!NoKey
<1>7. Profile!ProfileAgrees(i, profile_file)
  BY <1>2, <1>3, <1>5, <1>6 DEF Profile!ProfileAgrees, Profile!Init
<1>8. pending.profile = Profile!Gone
  BY DEF Profile!Init, Profile!Nothing
<1>9. \A p \in Probes : Profile!ProbeAgrees(i, probe[p])
  BY DEF Profile!Init, Profile!ProbeAgrees, Profile!Quiet
<1>10. Profile!Agreed(i)
  BY <1>7, <1>8, <1>9 DEF Profile!Agreed, Profile!ProfileAgrees
<1>11. Profile!KeysHeld
  BY DEF Profile!Init, Profile!KeysHeld
<1>12. Profile!ProfileTypes
  <2>1. probe \in [Probes -> ProfileAsked]
    BY ProfileApart DEF Profile!Init, Profile!Quiet, ProfileAsked
  <2>2. profile_run \in [Runs -> ProfileBound]
    BY ProfileApart DEF Profile!Init, ProfileBound
  <2> QED BY <1>2, <1>3, <1>8, <2>1, <2>2 DEF Profile!ProfileTypes, Profile!Init, ProfileAsked,
      ProfileBound
<1> QED BY <1>10, <1>11, <1>12 DEF Profile!ProfileInv, ProfileIssued

LEMMA ProfileNextStep == ASSUME Profile!ProfileNames, Profile!ProfileInv,
                                [Profile!Next]_(Profile!vars) PROVE Profile!ProfileInv'
<1>1. ASSUME NEW d \in Dests, NEW m \in Models, NEW k \in {"keep", "enter", "forget"},
             Profile!Save(d, m, k)
      PROVE  Profile!ProfileInv'
  BY <1>1, ProfileSaveStep
<1>2. ASSUME NEW d \in Dests, Profile!EditFile(d) PROVE Profile!ProfileInv'
  BY <1>2, ProfileEditFileStep
<1>3. ASSUME NEW p \in Probes, NEW d \in Dests, Profile!Discover(p, d) PROVE Profile!ProfileInv'
  BY <1>3, ProfileDiscoverStep
<1>4. ASSUME NEW p \in Probes, Profile!Ask(p) \/ Profile!Send(p) \/ Profile!Reply(p)
             \/ Profile!Publish(p) PROVE Profile!ProfileInv'
  BY <1>4, ProfileAskStep, ProfileSendStep, ProfileReplyStep, ProfilePublishStep
<1>5. ASSUME NEW r \in Runs, Profile!Accept(r) \/ Profile!Begin(r) \/ Profile!Stop(r)
             PROVE Profile!ProfileInv'
  BY <1>5, ProfileAcceptStep, ProfileBeginStep, ProfileStopStep
<1>6. CASE UNCHANGED Profile!vars
  <2>1. UNCHANGED <<profile_file, pending, probe, profile_run, clients, proved, last>>
    BY <1>6 DEF Profile!vars
  <2>2. Profile!KeysHeld'
    BY <2>1, ProfileHeldRest DEF Profile!ProfileInv
  <2>3. PICK i \in ProfileIssued : Profile!Agreed(i)
    BY DEF Profile!ProfileInv, ProfileIssued
  <2>4. Profile!Agreed(i)'
    BY <2>1, <2>3 DEF Profile!Agreed, Profile!ProfileAgrees, Profile!ProbeAgrees, Profile!Earned
  <2> QED BY <2>1, <2>2, <2>4 DEF Profile!ProfileInv, Profile!ProfileTypes, ProfileIssued
<1> QED BY <1>1, <1>2, <1>3, <1>4, <1>5, <1>6, ProfileDeleteStep, ProfileReplaceStep,
    ProfileWriteFailsStep, ProfileCrashStep DEF Profile!Next

LEMMA ProfileKeysAndReceipts == ASSUME Profile!ProfileNames, Profile!ProfileInv
                                       PROVE Profile!ProfileSound
<1>1. PICK i \in ProfileIssued : Profile!Agreed(i)
  BY DEF Profile!ProfileInv, ProfileIssued
<1>2. Profile!KeysStayHome
  BY <1>1 DEF Profile!KeysStayHome, Profile!Agreed, Profile!ProbeAgrees, Profile!ProfileInv,
     Profile!KeysHeld, Profile!HoldsItsKey
<1>3. ASSUME Profile!Valid(profile_file), Profile!Keyed(profile_file)
      PROVE  \E c \in proved : c.dest = profile_file.dest /\ c.revision = profile_file.revision
  <2>1. profile_file # Profile!Gone
    BY <1>3 DEF Profile!Keyed, Profile!Gone
  <2>2. Profile!ProfileAgrees(i, profile_file)
    BY <1>1 DEF Profile!Agreed
  <2>3. Profile!Earned(i, profile_file.receipt) /\ i[profile_file.revision] # "none"
    BY <1>3, <2>1, <2>2 DEF Profile!ProfileAgrees, Profile!Valid
  <2>4. profile_file.receipt.revision = profile_file.revision
        /\ profile_file.receipt.dest = profile_file.dest
    BY <1>3 DEF Profile!Valid, Profile!Contract
  <2> QED BY <2>3, <2>4 DEF Profile!Earned
<1> QED BY <1>2, <1>3 DEF Profile!ProfileSound, Profile!KeyedReceiptsEarned

\* A key goes only where it was entered for, and a keyed connection shown as tested
\* answered a probe with the key that is saved, for any edits and crashes (settings.py).
THEOREM KeysAreKept ==
    ASSUME Profile!ProfileNames
    PROVE  Profile!Spec => []Profile!ProfileSound
<1>1. Profile!ProfileInv => Profile!ProfileSound
  BY ProfileKeysAndReceipts
<1> QED BY <1>1, ProfileInitInv, ProfileNextStep, PTL DEF Profile!Spec

-----------------------------------------------------------------------------
(* GitView: any requests, any number of writes *)

GitContent == [sign : [Git!Paths -> Git!Stamps], loose : BOOLEAN]

LEMMA GitPathNames == Git!Paths = {"pointer", "root", "head", "loose", "packed", "index", "file"}
<1>1. Len(Git!Order) = 7 /\ Git!Order[1] = "pointer" /\ Git!Order[2] = "root"
      /\ Git!Order[3] = "head"
      /\ Git!Order[4] = "loose" /\ Git!Order[5] = "packed" /\ Git!Order[6] = "index"
         /\ Git!Order[7] = "file"
  BY DEF Git!Order
<1>2. ASSUME NEW i \in 1..7 PROVE i \in {1, 2, 3, 4, 5, 6, 7}
  BY <1>2
<1>3. \A i \in 1..7 : i = 1 \/ i = 2 \/ i = 3 \/ i = 4 \/ i = 5 \/ i = 6 \/ i = 7
  OBVIOUS
<1>4. ASSUME NEW p \in Git!Paths
      PROVE  p \in {"pointer", "root", "head", "loose", "packed", "index", "file"}
  <2>1. PICK i \in 1..7 : p = Git!Order[i]
    BY <1>1 DEF Git!Paths
  <2> QED BY <1>1, <1>3, <2>1
<1>5. {"pointer", "root", "head", "loose", "packed", "index", "file"} \subseteq Git!Paths
  BY <1>1 DEF Git!Paths
<1> QED BY <1>4, <1>5

LEMMA GitFacts ==
    ASSUME Git!GitInv
    PROVE  /\ history \in Seq(GitContent) /\ Len(history) \in 1..(MaxWrites + 1)
           /\ \A i \in 1..Len(history) : history[i] \in GitContent
           /\ Git!World \in GitContent /\ \A p \in Git!Paths : Git!Sign(p) \in Git!Stamps
           /\ grant \in Git!Binding \cup {Git!None} /\ query \in [Queries -> Git!Rows]
<1>1. history \in Seq(GitContent) /\ Len(history) \in 1..(MaxWrites + 1)
      /\ grant \in Git!Binding \cup {Git!None} /\ query \in [Queries -> Git!Rows]
  BY DEF Git!GitInv, Git!GitTypes, GitContent
<1>2. \A i \in 1..Len(history) : history[i] \in GitContent
  BY <1>1
<1>3. Len(history) \in 1..Len(history)
  BY <1>1
<1>4. Git!World \in GitContent
  BY <1>2, <1>3 DEF Git!World
<1> QED BY <1>1, <1>2, <1>4 DEF Git!Sign, GitContent

LEMMA GitRowFacts ==
    ASSUME NEW r \in Git!Rows
    PROVE  /\ DOMAIN r.seen \subseteq Git!Paths /\ r.seen \in [DOMAIN r.seen -> Git!Stamps]
           /\ \A p \in DOMAIN r.seen : r.seen[p] \in Git!Stamps
           /\ r = [at |-> r.at, diff |-> r.diff, binding |-> r.binding, seen |-> r.seen,
                   loose |-> r.loose, since |-> r.since, then |-> r.then,
                   command |-> r.command, view |-> r.view, result |-> r.result]
<1>1. PICK S \in SUBSET Git!Paths : r.seen \in [S -> Git!Stamps]
  BY DEF Git!Rows
<1>2. DOMAIN r.seen = S
  BY <1>1
<1>3. r = [at |-> r.at, diff |-> r.diff, binding |-> r.binding, seen |-> r.seen,
           loose |-> r.loose, since |-> r.since, then |-> r.then,
           command |-> r.command, view |-> r.view, result |-> r.result]
  BY DEF Git!Rows
<1> QED BY <1>1, <1>2, <1>3

\* A row of the same reads at another stage.
LEMMA GitStaged ==
    ASSUME NEW r \in Git!Rows, NEW a \in Git!Stages, NEW t \in {"none", "prepare", "git",
           "output", "publish"},
           NEW c \in 1..3, NEW v \in BOOLEAN, NEW e \in {"none", "refused", "available"},
           NEW w, w = [r EXCEPT !.at = a, !.then = t, !.command = c, !.view = v, !.result = e]
    PROVE  /\ w \in Git!Rows
           /\ w.at = a /\ w.then = t /\ w.command = c /\ w.view = v /\ w.result = e
           /\ w.diff = r.diff /\ w.binding = r.binding /\ w.seen = r.seen /\ w.loose = r.loose
           /\ w.since = r.since
BY DEF Git!Rows

LEMMA GitSeeFacts ==
    ASSUME Git!GitInv, NEW r \in Git!Rows, NEW p \in Git!Paths, NEW w, w = Git!See(r, p)
    PROVE  /\ w \in Git!Rows
           /\ DOMAIN w.seen = DOMAIN r.seen \cup {p} /\ w.seen[p] = Git!Sign(p)
           /\ \A x \in DOMAIN r.seen : x # p => w.seen[x] = r.seen[x]
           /\ w.at = r.at /\ w.diff = r.diff /\ w.binding = r.binding /\ w.loose = r.loose
           /\ w.since = r.since /\ w.then = r.then /\ w.command = r.command
           /\ w.view = r.view /\ w.result = r.result
<1>1. PICK f : f = [x \in DOMAIN r.seen \cup {p} |-> IF x = p THEN Git!Sign(p) ELSE r.seen[x]]
  OBVIOUS
<1>2. f \in [DOMAIN r.seen \cup {p} -> Git!Stamps] /\ DOMAIN r.seen \cup {p} \in SUBSET Git!Paths
  BY <1>1, GitFacts, GitRowFacts
<1>3. w = [r EXCEPT !.seen = f]
  BY <1>1 DEF Git!See
<1>4. f \in UNION {[S -> Git!Stamps] : S \in SUBSET Git!Paths}
  BY <1>2
<1>5. w \in Git!Rows /\ w.seen = f
  BY <1>3, <1>4 DEF Git!Rows
<1>6. /\ w.at = r.at /\ w.diff = r.diff /\ w.binding = r.binding /\ w.loose = r.loose
      /\ w.since = r.since /\ w.then = r.then /\ w.command = r.command
      /\ w.view = r.view /\ w.result = r.result
  BY <1>3 DEF Git!Rows
<1> QED BY <1>1, <1>5, <1>6

\* What a request starts from.
LEMMA GitFresh ==
    ASSUME Git!GitBound
    PROVE  /\ Git!Request \in Git!Rows /\ Git!Request.binding = Git!None
              /\ Git!Request.result = "none"
           /\ Git!Request.view = FALSE
<1>1. <<>> \in [{} -> Git!Stamps]
  OBVIOUS
<1>2. PICK s \in UNION {[S -> Git!Stamps] : S \in SUBSET Git!Paths} : s = <<>>
  BY <1>1
<1>3. PICK b \in Git!Binding \cup {Git!None} : b = Git!None
  OBVIOUS
<1>4. Git!Request = [at |-> "idle", diff |-> FALSE, binding |-> b, seen |-> s, loose |-> FALSE,
                 since |-> 0, then |-> "none", command |-> 1, view |-> FALSE, result |-> "none"]
  BY <1>2, <1>3 DEF Git!Request
<1>5. 0 \in 0..(MaxWrites + 1) /\ 1 \in 1..3
  BY DEF Git!GitBound
<1> QED BY <1>3, <1>4, <1>5 DEF Git!Rows, Git!Stages

-----------------------------------------------------------------------------
(* A step of one request *)

LEMMA GitOneRequest ==
    ASSUME Git!GitInv, NEW q \in Queries, NEW r \in Git!Rows, query' = [query EXCEPT ![q] = r],
           grant' = grant \/ grant' = Git!None, UNCHANGED <<linked, history, shown, revoked, desk>>,
           Git!Followed(q)', Git!RequestSound(q)'
    PROVE  Git!GitInv'
<1>1. Git!GitTypes'
  BY DEF Git!GitInv, Git!GitTypes
<1>2. Git!Dated' /\ Git!GrantSound'
  BY DEF Git!GitInv, Git!Dated, Git!GrantSound
<1>3. ASSUME NEW c \in Queries, c # q PROVE Git!Followed(c)' /\ Git!RequestSound(c)'
  <2>1. query'[c] = query[c] /\ query'[q] = r
    BY <1>3, GitFacts
  <2>2. Git!Followed(c)'
    BY <2>1 DEF Git!GitInv, Git!Followed
  <2>3. Git!RequestSound(c)'
    BY <2>1 DEF Git!GitInv, Git!RequestSound, Git!Reading, Git!AnsweredAt
  <2> QED BY <2>2, <2>3
<1> QED BY <1>1, <1>2, <1>3 DEF Git!GitInv

\* A request that goes on, having read what it had read or one path more.
LEMMA GitGoesOn ==
    ASSUME Git!GitInv, NEW q \in Queries, NEW r \in Git!Rows, query' = [query EXCEPT ![q] = r],
           grant' = grant, UNCHANGED <<linked, history, shown, revoked, desk>>,
           query[q].at \in {"head", "packed", "index", "check", "prepare", "git", "collect",
               "snapshot"},
           r.at \in {"loose", "index", "check", "prepare", "git", "collect", "snapshot"},
           query[q].at = "head" => r.at = "loose",
           r.at = "check" => r.then # "none",
           r.then # "prepare" /\ r.at = "check" => r.view,
           r.at \in {"git", "collect", "snapshot"} => r.view,
           r.binding = query[q].binding, r.loose = query[q].loose, r.since = query[q].since,
           r.result = query[q].result, DOMAIN query[q].seen \subseteq DOMAIN r.seen,
           \A x \in {"root", "pointer", "loose"} :
               x \in DOMAIN query[q].seen => r.seen[x] = query[q].seen[x]
    PROVE  Git!GitInv'
<1>1. query'[q] = r
  BY GitFacts
<1>2. Git!Followed(q) /\ Git!RequestSound(q)
  BY DEF Git!GitInv
<1>3. Git!Followed(q)'
  <2>1. ASSUME r.at \in {"packed", "index", "check", "prepare", "git", "collect", "snapshot"}
        PROVE  /\ "loose" \in DOMAIN r.seen
               /\ \E i \in 1..Len(history) : /\ history[i].sign["loose"] = r.seen["loose"]
                                             /\ history[i].loose = r.loose
    BY <1>2, <2>1 DEF Git!Followed
  <2>2. ASSUME linked
        PROVE  /\ {"root", "pointer"} \subseteq DOMAIN r.seen
               /\ r.binding = <<r.seen["root"], r.seen["pointer"]>>
    BY <1>2, <2>2 DEF Git!Followed
  <2> QED BY <1>1, <2>1, <2>2 DEF Git!Followed
<1>4. Git!RequestSound(q)'
  BY <1>1, <1>2 DEF Git!RequestSound, Git!Reading
<1> QED BY <1>1, <1>3, <1>4, GitOneRequest

\* A request that ends refused.
LEMMA GitEndsRefused ==
    ASSUME Git!GitInv, NEW q \in Queries, NEW v \in BOOLEAN, q \in Git!Reading,
           query' = [query EXCEPT ![q] = [query[q] EXCEPT !.at = "exit", !.view = v,
               !.result = "refused"]],
           grant' = grant \/ grant' = Git!None, UNCHANGED <<linked, history, shown, revoked, desk>>
    PROVE  Git!GitInv'
<1>1. PICK r : r = [query[q] EXCEPT !.at = "exit", !.view = v, !.result = "refused"]
  OBVIOUS
<1>2. query[q] \in Git!Rows
  BY GitFacts
<1>3. /\ r \in Git!Rows /\ r.at = "exit" /\ r.result = "refused" /\ r.binding = query[q].binding
      /\ r.since = query[q].since
  BY <1>1, <1>2 DEF Git!Rows, Git!Stages
<1>4. query' = [query EXCEPT ![q] = r] /\ query'[q] = r
  BY <1>1, GitFacts
<1>5. Git!Followed(q)'
  BY <1>3, <1>4 DEF Git!Followed
<1>6. Git!RequestSound(q)'
  BY <1>3, <1>4 DEF Git!GitInv, Git!RequestSound, Git!Reading
<1> QED BY <1>3, <1>4, <1>5, <1>6, GitOneRequest

\* Over leaves the view as it is.
LEMMA GitOverKeepsView ==
    ASSUME Git!GitInv, NEW q \in Queries
    PROVE  /\ query[q].view \in BOOLEAN
           /\ Git!Over(q) = [query[q] EXCEPT !.at = "exit", !.view = query[q].view,
              !.result = "refused"]
<1>1. query[q] \in Git!Rows
  BY GitFacts
<1> QED BY <1>1 DEF Git!Over, Git!Rows

\* A stage that is neither the first nor the last is one of a reading request.
LEMMA GitReads == ASSUME NEW q \in Queries, query[q].at \notin {"idle", "done"}
                         PROVE q \in Git!Reading
BY DEF Git!Reading

LEMMA GitEndsOver ==
    ASSUME Git!GitInv, NEW q \in Queries, query[q].at \notin {"idle", "done"}, Git!Set(q,
           Git!Over(q)),
           grant' = grant \/ grant' = Git!None, UNCHANGED <<linked, history, shown, revoked, desk>>
    PROVE  Git!GitInv'
BY GitOverKeepsView, GitReads, GitEndsRefused DEF Git!Set

LEMMA GitAskStep == ASSUME Git!GitBound, Git!GitInv, NEW q \in Queries, NEW d \in BOOLEAN,
                           Git!Ask(q, d) PROVE Git!GitInv'
<1>1. PICK r : r = [Git!Request EXCEPT !.at = "grant", !.diff = d, !.since = Len(history)]
  OBVIOUS
<1>2. Len(history) \in 1..(MaxWrites + 1)
  BY GitFacts
<1>3. Len(history) \in 0..(MaxWrites + 1)
  BY <1>2 DEF Git!GitBound
<1>4. /\ r \in Git!Rows /\ r.at = "grant" /\ r.since = Len(history) /\ r.result = "none"
      /\ r.binding = Git!None
  BY <1>1, <1>3, GitFresh DEF Git!Rows, Git!Stages
<1>5. query' = [query EXCEPT ![q] = r] /\ query'[q] = r
  BY <1>1, GitFacts DEF Git!Ask, Git!Set
<1>6. Git!Followed(q)'
  BY <1>4, <1>5 DEF Git!Followed
<1>7. Git!RequestSound(q)'
  BY <1>4, <1>5, GitFacts DEF Git!RequestSound, Git!Ask
<1> QED BY <1>4, <1>5, <1>6, <1>7, GitOneRequest DEF Git!Ask

LEMMA GitCheckGrantStep == ASSUME Git!GitInv, NEW q \in Queries, Git!CheckGrant(q) PROVE Git!GitInv'
<1>1. CASE Git!Lapsed
  BY <1>1, GitEndsOver DEF Git!CheckGrant
<1>2. CASE ~Git!Lapsed
  <2>1. PICK r : r = [query[q] EXCEPT !.at = "inspector"]
    OBVIOUS
  <2>2. query[q] \in Git!Rows
    BY GitFacts
  <2>3. /\ r \in Git!Rows /\ r.at = "inspector" /\ r.since = query[q].since
        /\ r.result = query[q].result /\ r.binding = query[q].binding
    BY <2>1, <2>2 DEF Git!Rows, Git!Stages
  <2>4. query' = [query EXCEPT ![q] = r] /\ query'[q] = r /\ grant' = grant /\ query[q].at = "grant"
        /\ UNCHANGED <<linked, history, shown, revoked, desk>>
    BY <1>2, <2>1, GitFacts DEF Git!CheckGrant, Git!Set
  <2>5. Git!Followed(q)'
    BY <2>3, <2>4 DEF Git!Followed
  <2>6. Git!RequestSound(q)'
    BY <2>3, <2>4 DEF Git!GitInv, Git!RequestSound, Git!Reading
  <2> QED BY <2>3, <2>4, <2>5, <2>6, GitOneRequest
<1> QED BY <1>1, <1>2

LEMMA GitMakeInspectorStep == ASSUME Git!GitInv, NEW q \in Queries, Git!MakeInspector(q)
                                     PROVE Git!GitInv'
<1>1. CASE Git!Set(q, [query[q] EXCEPT !.at = "discover", !.binding = grant]) /\ grant' = grant
  <2>1. PICK r : r = [query[q] EXCEPT !.at = "discover", !.binding = grant]
    OBVIOUS
  <2>2. query[q] \in Git!Rows
    BY GitFacts
  <2>3. /\ r \in Git!Rows /\ r.at = "discover" /\ r.since = query[q].since
        /\ r.result = query[q].result /\ r.binding = grant
    BY <2>1, <2>2, GitFacts DEF Git!Rows, Git!Stages
  <2>4. query' = [query EXCEPT ![q] = r] /\ query'[q] = r /\ query[q].at = "inspector"
        /\ UNCHANGED <<linked, history, shown, revoked, desk>>
    BY <1>1, <2>1, GitFacts DEF Git!MakeInspector, Git!Set
  <2>5. Git!Followed(q)'
    BY <2>3, <2>4 DEF Git!Followed
  <2>6. Git!RequestSound(q)'
    BY <2>3, <2>4 DEF Git!GitInv, Git!GrantSound, Git!RequestSound, Git!Reading
  <2> QED BY <1>1, <2>3, <2>4, <2>5, <2>6, GitOneRequest
<1>2. CASE grant' = Git!None /\ Git!Set(q, Git!Over(q))
  BY <1>2, GitEndsOver DEF Git!MakeInspector
<1> QED BY <1>1, <1>2 DEF Git!MakeInspector

\* The pointers are followed as they are read, the worktree's as the binding says.
LEMMA GitDiscoverStep == ASSUME Git!GitInv, NEW q \in Queries, Git!Discover(q) PROVE Git!GitInv'
<1>1. PICK w : w = Git!See(query[q], "pointer")
  OBVIOUS
<1>2. query[q] \in Git!Rows /\ "pointer" \in Git!Paths /\ "root" \in Git!Paths
  BY GitFacts, GitPathNames
<1>3. /\ w \in Git!Rows /\ "pointer" \in DOMAIN w.seen /\ w.seen["pointer"] = Git!Sign("pointer")
      /\ w.binding = query[q].binding /\ w.since = query[q].since /\ w.result = query[q].result
  BY <1>1, <1>2, GitSeeFacts
<1>u. query[q].at = "discover" /\ UNCHANGED <<linked, history, shown, revoked, desk>>
  BY DEF Git!Discover
<1>4. ASSUME NEW z \in Git!Rows, z.binding = query[q].binding, z.since = query[q].since,
             z.result = query[q].result, Git!Set(q, [z EXCEPT !.at = "head"]), grant' = grant,
             linked => /\ {"root", "pointer"} \subseteq DOMAIN z.seen
                       /\ z.binding = <<z.seen["root"], z.seen["pointer"]>>
      PROVE  Git!GitInv'
  <2>1. PICK r : r = [z EXCEPT !.at = "head"]
    OBVIOUS
  <2>2. /\ r \in Git!Rows /\ r.at = "head" /\ r.binding = z.binding /\ r.since = z.since
        /\ r.result = z.result /\ r.seen = z.seen
    BY <2>1 DEF Git!Rows, Git!Stages
  <2>3. query' = [query EXCEPT ![q] = r] /\ query'[q] = r
    BY <1>4, <2>1, GitFacts DEF Git!Set
  <2>4. Git!Followed(q)'
    BY <1>u, <1>4, <2>2, <2>3 DEF Git!Followed
  <2>5. Git!RequestSound(q)'
    BY <1>u, <1>4, <2>2, <2>3 DEF Git!GitInv, Git!RequestSound, Git!Reading
  <2> QED BY <1>u, <1>4, <2>2, <2>3, <2>4, <2>5, GitOneRequest
<1>5. CASE ~linked
  BY <1>1, <1>3, <1>4, <1>5 DEF Git!Discover
<1>6. CASE linked /\ Git!Confined(q)
  <2>1. PICK z : z = Git!See(w, "root")
    OBVIOUS
  <2>2. /\ z \in Git!Rows /\ DOMAIN z.seen = DOMAIN w.seen \cup {"root"}
           /\ z.seen["root"] = Git!Sign("root")
        /\ z.seen["pointer"] = w.seen["pointer"] /\ z.binding = w.binding /\ z.since = w.since
        /\ z.result = w.result
    BY <1>2, <1>3, <2>1, GitSeeFacts
  <2>3. z.binding = <<z.seen["root"], z.seen["pointer"]>>
    BY <1>3, <1>6, <2>2 DEF Git!Confined, Git!Bound
  <2>4. Git!Set(q, [z EXCEPT !.at = "head"]) /\ grant' = grant
    BY <1>1, <1>6, <2>1 DEF Git!Discover
  <2> QED BY <1>3, <1>4, <2>2, <2>3, <2>4
<1>7. CASE linked /\ ~Git!Confined(q)
  <2>1. Git!Set(q, Git!Over(q)) /\ (grant' = grant \/ grant' = Git!None)
    BY <1>7 DEF Git!Discover
  <2> QED BY <1>u, <2>1, GitEndsOver
<1> QED BY <1>5, <1>6, <1>7

LEMMA GitReadHeadStep == ASSUME Git!GitInv, NEW q \in Queries, Git!ReadHead(q) PROVE Git!GitInv'
<1>1. PICK w : w = Git!See(query[q], "head")
  OBVIOUS
<1>2. query[q] \in Git!Rows /\ "head" \in Git!Paths \ {"root", "pointer", "loose"}
  BY GitFacts, GitPathNames
<1>3. /\ w \in Git!Rows /\ w.then = query[q].then /\ w.command = query[q].command
      /\ DOMAIN query[q].seen \subseteq DOMAIN w.seen
      /\ \A x \in DOMAIN query[q].seen : x # "head" => w.seen[x] = query[q].seen[x]
      /\ w.binding = query[q].binding /\ w.loose = query[q].loose /\ w.since = query[q].since
      /\ w.view = query[q].view /\ w.result = query[q].result
  BY <1>1, <1>2, GitSeeFacts
<1>4. PICK r : r = [w EXCEPT !.at = "loose"]
  OBVIOUS
<1>5. /\ r \in Git!Rows /\ r.at = "loose" /\ r.then = w.then /\ r.seen = w.seen
         /\ r.binding = w.binding
      /\ r.loose = w.loose /\ r.since = w.since /\ r.view = w.view /\ r.result = w.result
  BY <1>3, <1>4 DEF Git!Rows, Git!Stages
<1>6. /\ query' = [query EXCEPT ![q] = r] /\ query[q].at = "head"
      /\ UNCHANGED <<linked, history, grant, shown, revoked, desk>>
  BY <1>1, <1>4 DEF Git!ReadHead, Git!Set
<1> QED BY <1>3, <1>5, <1>6, GitGoesOn

LEMMA GitReadPackedStep == ASSUME Git!GitInv, NEW q \in Queries, Git!ReadPacked(q) PROVE Git!GitInv'
<1>1. PICK w : w = Git!See(query[q], "packed")
  OBVIOUS
<1>2. query[q] \in Git!Rows /\ "packed" \in Git!Paths \ {"root", "pointer", "loose"}
  BY GitFacts, GitPathNames
<1>3. /\ w \in Git!Rows /\ w.then = query[q].then /\ w.command = query[q].command
      /\ DOMAIN query[q].seen \subseteq DOMAIN w.seen
      /\ \A x \in DOMAIN query[q].seen : x # "packed" => w.seen[x] = query[q].seen[x]
      /\ w.binding = query[q].binding /\ w.loose = query[q].loose /\ w.since = query[q].since
      /\ w.view = query[q].view /\ w.result = query[q].result
  BY <1>1, <1>2, GitSeeFacts
<1>4. PICK r : r = [w EXCEPT !.at = "index"]
  OBVIOUS
<1>5. /\ r \in Git!Rows /\ r.at = "index" /\ r.then = w.then /\ r.seen = w.seen
         /\ r.binding = w.binding
      /\ r.loose = w.loose /\ r.since = w.since /\ r.view = w.view /\ r.result = w.result
  BY <1>3, <1>4 DEF Git!Rows, Git!Stages
<1>6. /\ query' = [query EXCEPT ![q] = r] /\ query[q].at = "packed"
      /\ UNCHANGED <<linked, history, grant, shown, revoked, desk>>
  BY <1>1, <1>4 DEF Git!ReadPacked, Git!Set
<1> QED BY <1>3, <1>5, <1>6, GitGoesOn

LEMMA GitReadLooseStep == ASSUME Git!GitInv, NEW q \in Queries, Git!ReadLoose(q) PROVE Git!GitInv'
<1>1. PICK w : w = Git!See(query[q], "loose")
  OBVIOUS
<1>2. query[q] \in Git!Rows /\ "loose" \in Git!Paths /\ Git!World.loose \in BOOLEAN
  BY GitFacts, GitPathNames DEF GitContent
<1>3. /\ w \in Git!Rows /\ DOMAIN w.seen = DOMAIN query[q].seen \cup {"loose"}
      /\ w.seen["loose"] = Git!Sign("loose")
      /\ \A x \in DOMAIN query[q].seen : x # "loose" => w.seen[x] = query[q].seen[x]
      /\ w.binding = query[q].binding /\ w.since = query[q].since /\ w.result = query[q].result
  BY <1>1, <1>2, GitSeeFacts
<1>4. PICK a \in {"index", "packed"} : a = IF Git!World.loose THEN "index" ELSE "packed"
  OBVIOUS
<1>5. PICK l \in BOOLEAN : l = Git!World.loose
  BY <1>2
<1>6. PICK r : r = [w EXCEPT !.at = a, !.loose = l]
  OBVIOUS
<1>7. /\ r \in Git!Rows /\ r.at = a /\ r.loose = l /\ r.seen = w.seen /\ r.binding = w.binding
      /\ r.since = w.since /\ r.result = w.result
  BY <1>3, <1>6 DEF Git!Rows, Git!Stages
<1>8. /\ query' = [query EXCEPT ![q] = r] /\ query'[q] = r /\ query[q].at = "loose"
      /\ UNCHANGED <<linked, history, grant, shown, revoked, desk>>
  BY <1>1, <1>4, <1>5, <1>6, GitFacts DEF Git!ReadLoose, Git!Set
<1>9. Git!Followed(q)'
  <2>1. Len(history) \in 1..Len(history) /\ history[Len(history)].sign["loose"] = r.seen["loose"]
        /\ history[Len(history)].loose = r.loose
    BY <1>3, <1>5, <1>7, GitFacts DEF Git!Sign, Git!World
  <2>2. "loose" \in DOMAIN r.seen
        /\ \E i \in 1..Len(history) : /\ history[i].sign["loose"] = r.seen["loose"]
                                      /\ history[i].loose = r.loose
    BY <1>3, <1>7, <2>1
  <2>3. ASSUME linked
        PROVE  /\ {"root", "pointer"} \subseteq DOMAIN r.seen
               /\ r.binding = <<r.seen["root"], r.seen["pointer"]>>
    BY <1>3, <1>7, <1>8, <2>3 DEF Git!GitInv, Git!Followed
  <2> QED BY <1>8, <2>2, <2>3 DEF Git!Followed
<1>10. Git!RequestSound(q)'
  BY <1>3, <1>7, <1>8 DEF Git!GitInv, Git!RequestSound, Git!Reading
<1> QED BY <1>7, <1>8, <1>9, <1>10, GitOneRequest

LEMMA GitReadIndexStep == ASSUME Git!GitInv, NEW q \in Queries, Git!ReadIndex(q) PROVE Git!GitInv'
<1>1. PICK w : w = Git!See(query[q], "index")
  OBVIOUS
<1>2. query[q] \in Git!Rows /\ "index" \in Git!Paths \ {"root", "pointer", "loose"}
  BY GitFacts, GitPathNames
<1>3. /\ w \in Git!Rows /\ w.command = query[q].command
      /\ DOMAIN query[q].seen \subseteq DOMAIN w.seen
      /\ \A x \in DOMAIN query[q].seen : x # "index" => w.seen[x] = query[q].seen[x]
      /\ w.binding = query[q].binding /\ w.loose = query[q].loose /\ w.since = query[q].since
      /\ w.view = query[q].view /\ w.result = query[q].result
  BY <1>1, <1>2, GitSeeFacts
<1>4. PICK r : r = Git!Recheck(w, "prepare")
  OBVIOUS
<1>5. /\ r \in Git!Rows /\ r.at = "check" /\ r.then = "prepare" /\ r.seen = w.seen
         /\ r.binding = w.binding
      /\ r.loose = w.loose /\ r.since = w.since /\ r.view = w.view /\ r.result = w.result
  BY <1>3, <1>4 DEF Git!Rows, Git!Stages, Git!Recheck
<1>6. /\ query' = [query EXCEPT ![q] = r] /\ query[q].at = "index"
      /\ UNCHANGED <<linked, history, grant, shown, revoked, desk>>
  BY <1>1, <1>4 DEF Git!ReadIndex, Git!Set
<1> QED BY <1>3, <1>5, <1>6, GitGoesOn

\* A step that reads nothing: to another stage, a check or a command.
LEMMA GitMovesOn ==
    ASSUME Git!GitInv, NEW q \in Queries, NEW a \in {"check", "prepare", "git", "collect",
           "snapshot"},
           NEW t \in {"none", "prepare", "git", "output", "publish"}, NEW c \in 1..3,
               NEW v \in BOOLEAN,
           query[q].at \in {"check", "prepare", "git", "snapshot"},
           a = "check" => t # "none" /\ (t # "prepare" => v),
           a \in {"git", "collect", "snapshot"} => v,
           NEW r, r = [query[q] EXCEPT !.at = a, !.then = t, !.command = c, !.view = v],
               Git!Set(q, r),
           UNCHANGED <<linked, history, grant, shown, revoked, desk>>
    PROVE  Git!GitInv'
<1>1. query[q] \in Git!Rows
  BY GitFacts
<1>2. /\ r \in Git!Rows /\ r.at = a /\ r.then = t /\ r.seen = query[q].seen
      /\ r.binding = query[q].binding /\ r.loose = query[q].loose /\ r.since = query[q].since
      /\ r.view = v /\ r.result = query[q].result
  BY <1>1 DEF Git!Rows, Git!Stages
<1> QED BY <1>2, GitGoesOn DEF Git!Set

LEMMA GitPrepareStep == ASSUME Git!GitInv, NEW q \in Queries, Git!Prepare(q) PROVE Git!GitInv'
<1>1. PICK r : r = [query[q] EXCEPT !.at = "git", !.view = TRUE]
  OBVIOUS
<1>2. query[q] \in Git!Rows
  BY GitFacts
<1>3. r = [query[q] EXCEPT !.at = "git", !.then = query[q].then, !.command = query[q].command,
      !.view = TRUE]
      /\ query[q].then \in {"none", "prepare", "git", "output", "publish"}
         /\ query[q].command \in 1..3
  BY <1>1, <1>2 DEF Git!Rows
<1>4. Git!Set(q, r) /\ query[q].at = "prepare" /\ UNCHANGED <<linked, history, grant, shown,
                                                              revoked, desk>>
  BY <1>1 DEF Git!Prepare
<1> QED BY <1>3, <1>4, GitMovesOn

LEMMA GitGitEndsStep == ASSUME Git!GitInv, NEW q \in Queries, Git!GitEnds(q) PROVE Git!GitInv'
<1>1. PICK r : r = Git!Recheck(query[q], "output")
  OBVIOUS
<1>2. query[q] \in Git!Rows
  BY GitFacts
<1>3. r = [query[q] EXCEPT !.at = "check", !.then = "output", !.command = query[q].command,
      !.view = query[q].view]
      /\ query[q].view \in BOOLEAN /\ query[q].command \in 1..3
  BY <1>1, <1>2 DEF Git!Rows, Git!Recheck
<1>4. Git!Set(q, r) /\ query[q].at = "git" /\ UNCHANGED <<linked, history, grant, shown, revoked,
                                                          desk>>
  BY <1>1 DEF Git!GitEnds
<1>5. query[q].view
  BY <1>4 DEF Git!GitInv, Git!RequestSound
<1> QED BY <1>3, <1>4, <1>5, GitMovesOn

LEMMA GitSnapshotStep == ASSUME Git!GitInv, NEW q \in Queries, Git!Snapshot(q) PROVE Git!GitInv'
<1>1. CASE Git!Set(q, Git!Over(q))
  BY <1>1, GitEndsOver DEF Git!Snapshot
<1>2. CASE Git!Set(q, Git!Publish(q, query[q]))
  <2>1. PICK r : r = Git!Publish(q, query[q])
    OBVIOUS
  <2>2. query[q] \in Git!Rows
    BY GitFacts
  <2>3. r = [query[q] EXCEPT !.at = "check", !.then = "publish", !.command = query[q].command,
        !.view = query[q].view]
        /\ query[q].view \in BOOLEAN /\ query[q].command \in 1..3
    BY <2>1, <2>2 DEF Git!Rows, Git!Recheck, Git!Publish
  <2>4. Git!Set(q, r) /\ query[q].at = "snapshot" /\ UNCHANGED <<linked, history, grant, shown,
                                                                 revoked, desk>>
    BY <1>2, <2>1 DEF Git!Snapshot
  <2>5. query[q].view
    BY <2>4 DEF Git!GitInv, Git!RequestSound
  <2> QED BY <2>3, <2>4, <2>5, GitMovesOn
<1> QED BY <1>1, <1>2 DEF Git!Snapshot

LEMMA GitCollectStep == ASSUME Git!GitInv, NEW q \in Queries, Git!Collect(q) PROVE Git!GitInv'
<1>1. PICK w : w = Git!See(query[q], "file")
  OBVIOUS
<1>2. query[q] \in Git!Rows /\ "file" \in Git!Paths \ {"root", "pointer", "loose"}
  BY GitFacts, GitPathNames
<1>3. /\ w \in Git!Rows /\ w.command = query[q].command
      /\ DOMAIN query[q].seen \subseteq DOMAIN w.seen
      /\ \A x \in DOMAIN query[q].seen : x # "file" => w.seen[x] = query[q].seen[x]
      /\ w.binding = query[q].binding /\ w.loose = query[q].loose /\ w.since = query[q].since
      /\ w.view = query[q].view /\ w.result = query[q].result
  BY <1>1, <1>2, GitSeeFacts
<1>4. PICK r : r = IF w.diff THEN Git!Recheck([w EXCEPT !.command = 3], "git") ELSE Git!Publish(q,
      w)
  OBVIOUS
<1>5. /\ r \in Git!Rows /\ r.at = "check" /\ r.then \in {"git", "publish"} /\ r.seen = w.seen
      /\ r.binding = w.binding /\ r.loose = w.loose /\ r.since = w.since /\ r.view = w.view
      /\ r.result = w.result
  <2>1. CASE w.diff
    <3>1. PICK v : v = [w EXCEPT !.command = 3]
      OBVIOUS
    <3>2. /\ v \in Git!Rows /\ v.seen = w.seen /\ v.binding = w.binding /\ v.loose = w.loose
          /\ v.since = w.since /\ v.view = w.view /\ v.result = w.result
      BY <1>3, <3>1 DEF Git!Rows
    <3>3. r = Git!Recheck(v, "git")
      BY <1>4, <2>1, <3>1
    <3> QED BY <3>2, <3>3 DEF Git!Rows, Git!Stages, Git!Recheck
  <2>2. CASE ~w.diff
    BY <1>3, <1>4, <2>2 DEF Git!Rows, Git!Stages, Git!Recheck, Git!Publish
  <2> QED BY <2>1, <2>2
<1>6. /\ query' = [query EXCEPT ![q] = r] /\ query[q].at = "collect"
      /\ UNCHANGED <<linked, history, grant, shown, revoked, desk>>
  BY <1>1, <1>4 DEF Git!Collect, Git!Set
<1>7. query[q].view
  BY <1>6 DEF Git!GitInv, Git!RequestSound
<1> QED BY <1>3, <1>5, <1>6, <1>7, GitGoesOn

-----------------------------------------------------------------------------
(* The check: what it has seen is as it was, now *)

LEMMA GitOneMoment ==
    ASSUME Git!GitInv, NEW q \in Queries, query[q].at = "check", Git!Unchanged(q)
    PROVE  Git!AnsweredAt(q, Len(history))
<1>1. query[q] \in Git!Rows
  BY GitFacts
<1>2. /\ \A p \in DOMAIN query[q].seen : history[Len(history)].sign[p] = query[q].seen[p]
  BY DEF Git!Unchanged, Git!Sign, Git!World
<1>3. PICK i \in 1..Len(history) : /\ history[i].sign["loose"] = query[q].seen["loose"]
                                   /\ history[i].loose = query[q].loose
  BY DEF Git!GitInv, Git!Followed
<1>4. "loose" \in DOMAIN query[q].seen
  BY DEF Git!GitInv, Git!Followed
<1>5. Len(history) \in 1..Len(history) /\ i \in 1..Len(history)
  BY <1>3, GitFacts
<1>6. query[q].loose = history[Len(history)].loose
  BY <1>2, <1>3, <1>4, <1>5 DEF Git!GitInv, Git!Dated
<1>7. linked => query[q].binding = <<history[Len(history)].sign["root"],
                                     history[Len(history)].sign["pointer"]>>
  <2>1. ASSUME linked PROVE {"root", "pointer"} \subseteq DOMAIN query[q].seen
                            /\ query[q].binding = <<query[q].seen["root"],
                                                    query[q].seen["pointer"]>>
    BY <2>1 DEF Git!GitInv, Git!Followed
  <2> QED BY <1>2, <2>1
<1> QED BY <1>2, <1>6, <1>7 DEF Git!AnsweredAt

LEMMA GitCheckStep == ASSUME Git!GitInv, NEW q \in Queries, Git!Check(q) PROVE Git!GitInv'
<1>0. query[q] \in Git!Rows /\ query[q].at = "check" /\ query[q].then # "none"
      /\ (query[q].then # "prepare" => query[q].view)
      /\ UNCHANGED <<linked, history, grant, shown, revoked, desk>>
  BY GitFacts DEF Git!GitInv, Git!RequestSound, Git!Check
<1>1. CASE ~Git!Unchanged(q)
  <2>1. Git!Set(q, Git!Over(q))
    BY <1>1 DEF Git!Check
  <2> QED BY <1>0, <2>1, GitEndsOver
<1>2. ASSUME NEW a \in {"prepare", "git", "collect", "snapshot"}, NEW c \in 1..3,
             Git!Set(q, [query[q] EXCEPT !.at = a, !.command = c]),
             a # "prepare" => query[q].view
      PROVE  Git!GitInv'
  <2>1. PICK r : r = [query[q] EXCEPT !.at = a, !.command = c]
    OBVIOUS
  <2>2. r = [query[q] EXCEPT !.at = a, !.then = query[q].then, !.command = c,
        !.view = query[q].view]
        /\ query[q].then \in {"none", "prepare", "git", "output", "publish"}
           /\ query[q].view \in BOOLEAN
    BY <1>0, <2>1 DEF Git!Rows
  <2>3. Git!Set(q, r)
    BY <1>2, <2>1
  <2>4. a # "check" /\ (a \in {"git", "collect", "snapshot"} => query[q].view)
    BY <1>2
  <2> QED BY <1>0, <2>2, <2>3, <2>4, GitMovesOn
<1>c. query[q].command \in 1..3 /\ \A a : [query[q] EXCEPT !.at = a] =
          [query[q] EXCEPT !.at = a, !.command = query[q].command]
  BY <1>0 DEF Git!Rows
<1>3. CASE Git!Unchanged(q) /\ query[q].then \in {"prepare", "git"}
  <2>1. Git!Set(q, [query[q] EXCEPT !.at = query[q].then])
    BY <1>3 DEF Git!Check
  <2> QED BY <1>0, <1>2, <1>3, <1>c, <2>1
<1>4. CASE Git!Unchanged(q) /\ query[q].then = "output"
  <2>1. Git!Set(q, Git!AfterCommand(q))
    BY <1>4 DEF Git!Check
  <2>2. CASE query[q].command = 1
    BY <1>0, <1>2, <1>4, <2>1, <2>2 DEF Git!AfterCommand
  <2>3. CASE query[q].command = 2
    <3>1. Git!Set(q, [query[q] EXCEPT !.at = "collect"])
      BY <2>1, <2>3 DEF Git!AfterCommand
    <3> QED BY <1>0, <1>2, <1>4, <1>c, <3>1
  <2>4. CASE query[q].command \notin {1, 2}
    <3>1. Git!Set(q, [query[q] EXCEPT !.at = "snapshot"])
      BY <2>1, <2>4 DEF Git!AfterCommand
    <3> QED BY <1>0, <1>2, <1>4, <1>c, <3>1
  <2> QED BY <2>2, <2>3, <2>4
<1>5. CASE Git!Unchanged(q) /\ query[q].then = "publish"
  <2>1. PICK r : r = [query[q] EXCEPT !.at = "exit", !.result = "available"]
    OBVIOUS
  <2>2. /\ r \in Git!Rows /\ r.at = "exit" /\ r.result = "available" /\ r.seen = query[q].seen
        /\ r.loose = query[q].loose /\ r.binding = query[q].binding /\ r.since = query[q].since
    BY <1>0, <2>1 DEF Git!Rows, Git!Stages
  <2>3. query' = [query EXCEPT ![q] = r] /\ query'[q] = r
    BY <1>5, <2>1, GitFacts DEF Git!Check, Git!Set
  <2>4. Git!Followed(q)'
    BY <2>2, <2>3 DEF Git!Followed
  <2>5. q \in Git!Reading /\ query[q].since \in 1..Len(history) /\ (revoked
        => query[q].binding = Git!None)
    BY <1>0, GitReads DEF Git!GitInv, Git!RequestSound
  <2>6. Len(history) \in query[q].since..Len(history)
    BY <2>5, GitFacts
  <2>7. Git!AnsweredAt(q, Len(history))
    BY <1>0, <1>5, GitOneMoment
  <2>8. \E i \in query'[q].since..Len(history) : Git!AnsweredAt(q, i)'
    BY <1>0, <2>2, <2>3, <2>6, <2>7 DEF Git!AnsweredAt
  <2>9. Git!RequestSound(q)'
    BY <1>0, <2>2, <2>3, <2>5, <2>8 DEF Git!RequestSound, Git!Reading
  <2> QED BY <1>0, <2>2, <2>3, <2>4, <2>9, GitOneRequest
<1>6. query[q].then \in {"prepare", "git", "output", "publish"}
  BY <1>0 DEF Git!Rows
<1> QED BY <1>1, <1>3, <1>4, <1>5, <1>6

LEMMA GitRefuseStep == ASSUME Git!GitInv, NEW q \in Queries, Git!Refuse(q) PROVE Git!GitInv'
BY GitEndsOver DEF Git!Refuse, Git!Awaiting

LEMMA GitCancelStep == ASSUME Git!GitInv, NEW q \in Queries, Git!Cancel(q) PROVE Git!GitInv'
<1>1. PICK v \in BOOLEAN : v = (query[q].view \/ query[q].at = "prepare")
  OBVIOUS
<1>2. query[q] \in Git!Rows
  BY GitFacts
<1>3. [Git!Over(q) EXCEPT !.view = @ \/ query[q].at = "prepare"] =
          [query[q] EXCEPT !.at = "exit", !.view = v, !.result = "refused"]
  BY <1>1, <1>2 DEF Git!Over, Git!Rows
<1>4. query[q].at \notin {"idle", "done"} /\ UNCHANGED <<linked, history, grant, shown, revoked,
                                                         desk>>
  BY DEF Git!Cancel, Git!Awaiting
<1> QED BY <1>3, <1>4, GitReads, GitEndsRefused DEF Git!Cancel, Git!Set

LEMMA GitExitStep == ASSUME Git!GitBound, Git!GitInv, NEW q \in Queries, Git!Exit(q)
                            PROVE Git!GitInv'
<1>1. PICK r : r = [Git!Request EXCEPT !.at = "done"]
  OBVIOUS
<1>5. r \in Git!Rows /\ r.at = "done" /\ r.result = "none" /\ r.view = FALSE
  BY <1>1, GitFresh DEF Git!Rows, Git!Stages
<1>6. query' = [query EXCEPT ![q] = r] /\ query'[q] = r
  BY <1>1, GitFacts DEF Git!Exit, Git!Set
<1>7. Git!Followed(q)'
  BY <1>5, <1>6 DEF Git!Followed
<1>8. Git!RequestSound(q)'
  BY <1>5, <1>6 DEF Git!RequestSound, Git!Reading
<1> QED BY <1>5, <1>6, <1>7, <1>8, GitOneRequest DEF Git!Exit

-----------------------------------------------------------------------------
(* The window, and other programs *)

\* The desk moves; requests see nothing of it.
LEMMA GitDeskMoves ==
    ASSUME Git!GitInv, desk' \in [at : {"idle", "confirm", "grant", "verify", "revoke"},
                              selected : Git!Stamps, binding : Git!Binding \cup {Git!None}],
           grant' \in Git!Binding \cup {Git!None}, shown' \subseteq Git!Stamps,
               revoked' \in BOOLEAN,
           Git!GrantSound', UNCHANGED <<linked, history, query>>,
           revoked' => revoked \/ Git!Reading = {}
    PROVE  Git!GitInv'
<1>1. Git!GitTypes' /\ Git!Dated'
  BY DEF Git!GitInv, Git!GitTypes, Git!Dated
<1>2. ASSUME NEW q \in Queries PROVE Git!Followed(q)' /\ Git!RequestSound(q)'
  <2>1. Git!Followed(q)'
    BY DEF Git!GitInv, Git!Followed
  <2>2. Git!RequestSound(q)
    BY DEF Git!GitInv
  <2>3. Git!Reading' = Git!Reading
    BY DEF Git!Reading
  <2>4. Git!RequestSound(q)'
    BY <2>2, <2>3 DEF Git!RequestSound, Git!AnsweredAt
  <2> QED BY <2>1, <2>4
<1> QED BY <1>1, <1>2 DEF Git!GitInv

LEMMA GitDeskFacts ==
    ASSUME Git!GitBound, Git!GitInv
    PROVE  /\ desk \in [at : {"idle", "confirm", "grant", "verify", "revoke"},
                        selected : Git!Stamps, binding : Git!Binding \cup {Git!None}]
           /\ Git!NoDialog \in [at : {"idle", "confirm", "grant", "verify", "revoke"},
                            selected : Git!Stamps, binding : Git!Binding \cup {Git!None}]
           /\ Git!Sign("root") \in Git!Stamps /\ Git!Sign("pointer") \in Git!Stamps
           /\ Git!Bound \in Git!Binding /\ Git!Bound # Git!None /\ Git!Bound[1] = Git!Sign("root")
           /\ grant \in Git!Binding \cup {Git!None} /\ shown \subseteq Git!Stamps
              /\ revoked \in BOOLEAN
<1>1. Git!Sign("root") \in Git!Stamps /\ Git!Sign("pointer") \in Git!Stamps
  BY GitFacts, GitPathNames
<1>2. Git!Bound \in Git!Binding /\ Git!Bound[1] = Git!Sign("root")
  BY <1>1 DEF Git!Bound, Git!Binding
<1>3. Git!Bound # Git!None
  BY DEF Git!Bound, Git!None
<1>4. 0 \in Git!Stamps
  BY DEF Git!GitBound, Git!Stamps
<1> QED BY <1>1, <1>2, <1>3, <1>4 DEF Git!GitInv, Git!GitTypes, Git!NoDialog

LEMMA GitDeskStep ==
    ASSUME Git!GitBound, Git!GitInv,
           Git!Select \/ (\E yes \in BOOLEAN : Git!Confirm(yes)) \/ Git!Capture \/ Git!Grant
               \/ Git!AskRevoke \/ Git!Revoke \/ Git!ShowGrant
    PROVE  Git!GitInv'
<1>0. Git!GrantSound
  BY DEF Git!GitInv
<1>1. CASE Git!Select
  <2>1. desk' = [desk EXCEPT !.at = "confirm", !.selected = Git!Sign("root")]
        /\ UNCHANGED <<linked, history, grant, shown, revoked, query>>
    BY <1>1 DEF Git!Select
  <2>2. Git!GrantSound'
    BY <1>0, <2>1, GitDeskFacts DEF Git!GrantSound
  <2> QED BY <2>1, <2>2, GitDeskFacts, GitDeskMoves
<1>2. CASE \E yes \in BOOLEAN : Git!Confirm(yes)
  <2>1. PICK yes \in BOOLEAN : Git!Confirm(yes)
    BY <1>2
  <2>2. CASE yes
    <3>1. desk' = [desk EXCEPT !.at = "grant"] /\ shown' = shown \cup {desk.selected}
          /\ UNCHANGED <<linked, history, grant, revoked, query>>
      BY <2>1, <2>2 DEF Git!Confirm
    <3>2. Git!GrantSound'
      BY <1>0, <3>1, GitDeskFacts DEF Git!GrantSound
    <3> QED BY <3>1, <3>2, GitDeskFacts, GitDeskMoves
  <2>3. CASE ~yes
    <3>1. desk' = Git!NoDialog /\ UNCHANGED <<linked, history, grant, shown, revoked, query>>
      BY <2>1, <2>3 DEF Git!Confirm
    <3>2. Git!GrantSound'
      BY <1>0, <3>1 DEF Git!GrantSound, Git!NoDialog
    <3> QED BY <3>1, <3>2, GitDeskFacts, GitDeskMoves
  <2> QED BY <2>2, <2>3
<1>3. CASE Git!Capture
  <2>1. UNCHANGED <<linked, history, grant, shown, revoked, query>> /\ desk.at = "grant"
    BY <1>3 DEF Git!Capture
  <2>2. CASE linked /\ Git!Sign("root") = desk.selected
    <3>1. desk' = [at |-> "verify", selected |-> 0, binding |-> Git!Bound]
      BY <1>3, <2>2 DEF Git!Capture
    <3>2. Git!GrantSound'
      BY <1>0, <2>1, <2>2, <3>1, GitDeskFacts DEF Git!GrantSound
    <3>3. 0 \in Git!Stamps
      BY DEF Git!GitBound, Git!Stamps
    <3> QED BY <2>1, <3>1, <3>2, <3>3, GitDeskFacts, GitDeskMoves
  <2>3. CASE ~(linked /\ Git!Sign("root") = desk.selected)
    <3>1. desk' = Git!NoDialog
      BY <1>3, <2>3 DEF Git!Capture
    <3>2. Git!GrantSound'
      BY <1>0, <2>1, <3>1 DEF Git!GrantSound, Git!NoDialog
    <3> QED BY <2>1, <3>1, <3>2, GitDeskFacts, GitDeskMoves
  <2> QED BY <2>2, <2>3
<1>4. CASE Git!Grant
  <2>1. desk.at = "verify" /\ desk' = Git!NoDialog /\ UNCHANGED <<linked, history, shown, query>>
    BY <1>4 DEF Git!Grant
  <2>2. CASE desk.binding = Git!Bound
    <3>1. grant' = desk.binding /\ revoked' = FALSE
      BY <1>4, <2>2 DEF Git!Grant
    <3>2. Git!GrantSound'
      BY <1>0, <2>1, <3>1 DEF Git!GrantSound, Git!NoDialog
    <3> QED BY <2>1, <3>1, <3>2, GitDeskFacts, GitDeskMoves
  <2>3. CASE desk.binding # Git!Bound
    <3>1. grant' = grant /\ revoked' = revoked
      BY <1>4, <2>3, GitDeskFacts DEF Git!Grant
    <3>2. Git!GrantSound'
      BY <1>0, <2>1, <3>1 DEF Git!GrantSound, Git!NoDialog
    <3> QED BY <2>1, <3>1, <3>2, GitDeskFacts, GitDeskMoves
  <2> QED BY <2>2, <2>3
<1>5. CASE Git!AskRevoke
  <2>1. desk' = [desk EXCEPT !.at = "revoke"] /\ UNCHANGED <<linked, history, grant, shown,
                                                             revoked, query>>
    BY <1>5 DEF Git!AskRevoke
  <2>2. Git!GrantSound'
    BY <1>0, <2>1, GitDeskFacts DEF Git!GrantSound
  <2> QED BY <2>1, <2>2, GitDeskFacts, GitDeskMoves
<1>6. CASE Git!Revoke
  <2>1. desk' = Git!NoDialog /\ grant' = Git!None /\ revoked' = TRUE /\ Git!Reading = {}
        /\ UNCHANGED <<linked, history, shown, query>>
    BY <1>6 DEF Git!Revoke
  <2>2. Git!GrantSound'
    BY <2>1 DEF Git!GrantSound, Git!NoDialog
  <2> QED BY <2>1, <2>2, GitDeskFacts, GitDeskMoves
<1>7. CASE Git!ShowGrant
  <2>1. grant' = Git!None /\ UNCHANGED <<linked, history, shown, revoked, desk, query>>
    BY <1>7 DEF Git!ShowGrant
  <2>2. Git!GrantSound'
    BY <1>0, <2>1 DEF Git!GrantSound
  <2> QED BY <2>1, <2>2, GitDeskFacts, GitDeskMoves
<1> QED BY <1>1, <1>2, <1>3, <1>4, <1>5, <1>6, <1>7

\* A write adds a content whose stamp is new, and takes nothing from the past.
LEMMA GitWriteStep == ASSUME Git!GitBound, Git!GitInv, NEW p \in Git!Paths, Git!Write(p)
                             PROVE Git!GitInv'
<1>u. Len(history) <= MaxWrites /\ UNCHANGED <<linked, grant, shown, revoked, desk, query>>
  BY DEF Git!Write
<1>1. PICK l \in IF p = "loose" THEN BOOLEAN ELSE {Git!World.loose} :
          history' = Append(history, [sign |-> [Git!World.sign EXCEPT ![p] = Len(history)],
              loose |-> l])
  BY DEF Git!Write
<1>2. PICK e : e = [sign |-> [Git!World.sign EXCEPT ![p] = Len(history)], loose |-> l]
  OBVIOUS
<1>3. PICK n \in Nat : n = Len(history) /\ n >= 1 /\ n <= MaxWrites
  BY <1>u, GitFacts
<1>4. Git!World \in GitContent /\ Git!World = history[n] /\ n \in Git!Stamps
  BY <1>3, GitFacts DEF Git!World, Git!GitBound, Git!Stamps
<1>5. /\ e \in GitContent /\ e.sign[p] = n /\ \A x \in Git!Paths : x # p
         => e.sign[x] = history[n].sign[x]
      /\ e.loose = l /\ (p # "loose" => l = history[n].loose)
  BY <1>1, <1>2, <1>3, <1>4 DEF GitContent
<1>6. history' \in Seq(GitContent) /\ Len(history') = n + 1 /\ history'[n + 1] = e
      /\ \A i \in 1..n : history'[i] = history[i]
  BY <1>1, <1>2, <1>3, <1>5, GitFacts
<1>7. Git!GitTypes'
  BY <1>u, <1>3, <1>6 DEF Git!GitInv, Git!GitTypes, GitContent, Git!GitBound
<1>8. Git!Dated'
  <2>0. /\ \A j \in 1..n : \A x \in Git!Paths : history[j].sign[x] < j
        /\ \A j \in 1..n : \A i \in 1..j : history[i].sign["loose"] = history[j].sign["loose"]
                               => history[i].loose = history[j].loose
    BY <1>3 DEF Git!GitInv, Git!Dated
  <2>1. ASSUME NEW j \in 1..(n + 1), NEW x \in Git!Paths PROVE history'[j].sign[x] < j
    <3>1. CASE j \in 1..n
      BY <1>6, <2>0, <3>1
    <3>2. CASE j = n + 1
      <4>1. CASE x = p
        BY <1>5, <1>6, <3>2, <4>1
      <4>2. CASE x # p
        <5>1. e.sign[x] = history[n].sign[x] /\ history[n].sign[x] < n /\ history[n].sign[x] \in Nat
          BY <1>3, <1>4, <1>5, <2>0, <4>2 DEF GitContent, Git!Stamps
        <5> QED BY <1>6, <3>2, <5>1
      <4> QED BY <4>1, <4>2
    <3> QED BY <3>1, <3>2
  <2>2. ASSUME NEW j \in 1..(n + 1), NEW i \in 1..j,
               history'[i].sign["loose"] = history'[j].sign["loose"]
        PROVE  history'[i].loose = history'[j].loose
    <3>1. CASE j \in 1..n
      <4>1. i \in 1..n
        BY <3>1
      <4> QED BY <1>6, <2>0, <2>2, <3>1, <4>1
    <3>2. CASE j = n + 1 /\ i = n + 1
      BY <3>2
    <3>3. CASE j = n + 1 /\ i \in 1..n
      <4>1. history'[i] = history[i] /\ history'[j] = e /\ "loose" \in Git!Paths
        BY <1>6, <3>3, GitPathNames
      <4>2. p # "loose"
        <5>1. history[i].sign["loose"] < i /\ i <= n /\ history[i].sign["loose"] \in Nat
          BY <1>3, <2>0, <3>3, <4>1, GitFacts DEF GitContent, Git!Stamps
        <5> QED BY <1>5, <2>2, <4>1, <5>1
      <4>3. e.sign["loose"] = history[n].sign["loose"] /\ e.loose = history[n].loose
        BY <1>5, <4>1, <4>2
      <4> QED BY <1>3, <2>0, <2>2, <3>3, <4>1, <4>3
    <3> QED BY <3>1, <3>2, <3>3
  <2> QED BY <1>6, <2>1, <2>2 DEF Git!Dated
<1>9. ASSUME NEW q \in Queries PROVE Git!Followed(q)' /\ Git!RequestSound(q)'
  <2>1. Git!Followed(q) /\ Git!RequestSound(q) /\ Git!Reading' = Git!Reading
    BY <1>u DEF Git!GitInv, Git!Reading
  <2>2. Git!Followed(q)'
    <3>1. ASSUME NEW i \in 1..n, history[i].sign["loose"] = query[q].seen["loose"],
                 history[i].loose = query[q].loose
          PROVE  \E k \in 1..(n + 1) : /\ history'[k].sign["loose"] = query[q].seen["loose"]
                                       /\ history'[k].loose = query[q].loose
      <4>1. i \in 1..(n + 1) /\ history'[i] = history[i]
        BY <1>6
      <4> QED BY <3>1, <4>1
    <3> QED BY <1>u, <1>3, <1>6, <2>1, <3>1 DEF Git!Followed
  <2>3. ASSUME query[q].result = "available"
        PROVE  \E i \in query'[q].since..Len(history') : Git!AnsweredAt(q, i)'
    <3>1. PICK i \in query[q].since..n : Git!AnsweredAt(q, i)
      BY <1>3, <2>1, <2>3 DEF Git!RequestSound
    <3>2. q \in Git!Reading /\ query[q].since \in 1..n
      BY <1>3, <2>1, <2>3, GitReads DEF Git!RequestSound
    <3>3. i \in 1..n /\ i \in query[q].since..(n + 1)
      BY <3>1, <3>2
    <3>4. Git!AnsweredAt(q, i)'
      BY <1>u, <1>6, <3>1, <3>3 DEF Git!AnsweredAt
    <3> QED BY <1>u, <1>6, <3>3, <3>4
  <2>4. q \in Git!Reading => query[q].since \in 1..(n + 1)
    BY <1>3, <2>1 DEF Git!RequestSound
  <2>5. Git!RequestSound(q)'
    BY <1>u, <1>6, <2>1, <2>3, <2>4 DEF Git!RequestSound
  <2> QED BY <2>2, <2>5
<1>10. Git!GrantSound'
  BY <1>u DEF Git!GitInv, Git!GrantSound
<1> QED BY <1>7, <1>8, <1>9, <1>10 DEF Git!GitInv

-----------------------------------------------------------------------------
(* The whole *)

LEMMA GitInitInv == ASSUME Git!GitBound, Git!Init PROVE Git!GitInv
<1>1. PICK l \in BOOLEAN : history = <<[sign |-> [p \in Git!Paths |-> 0], loose |-> l]>>
  BY DEF Git!Init
<1>2. 0 \in Git!Stamps /\ MaxWrites \in Nat
  BY DEF Git!GitBound, Git!Stamps
<1>3. PICK e \in GitContent : e = [sign |-> [p \in Git!Paths |-> 0], loose |-> l]
  BY <1>2 DEF GitContent
<1>4. history \in Seq(GitContent) /\ Len(history) = 1 /\ history[1] = e
  BY <1>1, <1>3
<1>5. linked \in BOOLEAN /\ revoked = FALSE /\ grant = Git!None /\ shown = {} /\ desk = Git!NoDialog
  BY DEF Git!Init
<1>6. Git!NoDialog \in [at : {"idle", "confirm", "grant", "verify", "revoke"},
                    selected : Git!Stamps, binding : Git!Binding \cup {Git!None}]
  BY <1>2 DEF Git!NoDialog
<1>7. query \in [Queries -> Git!Rows]
  BY GitFresh DEF Git!Init
<1>q. 1 \in 1..(MaxWrites + 1)
  BY <1>2
<1>8. Git!GitTypes
  BY <1>4, <1>5, <1>6, <1>7, <1>q DEF Git!GitTypes, GitContent
<1>9. Git!Dated
  BY <1>3, <1>4 DEF Git!Dated
<1>10. Git!GrantSound
  BY DEF Git!Init, Git!GrantSound, Git!NoDialog
<1>11. ASSUME NEW q \in Queries PROVE Git!Followed(q) /\ Git!RequestSound(q)
  <2>1. query[q] = Git!Request
    BY DEF Git!Init
  <2> QED BY <2>1 DEF Git!Followed, Git!RequestSound, Git!Reading, Git!Request
<1> QED BY <1>8, <1>9, <1>10, <1>11 DEF Git!GitInv

LEMMA GitNextStep == ASSUME Git!GitBound, Git!GitInv, [Git!Next]_(Git!vars) PROVE Git!GitInv'
<1>1. ASSUME NEW q \in Queries, NEW d \in BOOLEAN, Git!Ask(q, d) PROVE Git!GitInv'
  BY <1>1, GitAskStep
<1>2. ASSUME NEW q \in Queries,
             Git!CheckGrant(q) \/ Git!MakeInspector(q) \/ Git!Discover(q) \/ Git!ReadHead(q)
                 \/ Git!ReadLoose(q) \/ Git!ReadPacked(q)
      PROVE  Git!GitInv'
  BY <1>2, GitCheckGrantStep, GitMakeInspectorStep, GitDiscoverStep, GitReadHeadStep,
     GitReadLooseStep, GitReadPackedStep
<1>3. ASSUME NEW q \in Queries,
             Git!ReadIndex(q) \/ Git!Prepare(q) \/ Git!Check(q) \/ Git!GitEnds(q)
                 \/ Git!Collect(q) \/ Git!Snapshot(q)
      PROVE  Git!GitInv'
  BY <1>3, GitReadIndexStep, GitPrepareStep, GitCheckStep, GitGitEndsStep, GitCollectStep,
     GitSnapshotStep
<1>4. ASSUME NEW q \in Queries, Git!Refuse(q) \/ Git!Cancel(q) \/ Git!Exit(q) PROVE Git!GitInv'
  BY <1>4, GitRefuseStep, GitCancelStep, GitExitStep
<1>5. ASSUME NEW p \in Git!Paths, Git!Write(p) PROVE Git!GitInv'
  BY <1>5, GitWriteStep
<1>6. CASE UNCHANGED Git!vars
  <2>1. UNCHANGED <<linked, history, grant, shown, revoked, desk, query>>
    BY <1>6 DEF Git!vars
  <2>2. Git!GrantSound'
    BY <2>1 DEF Git!GitInv, Git!GrantSound
  <2> QED BY <2>1, <2>2, GitDeskFacts, GitDeskMoves
<1> QED BY <1>1, <1>2, <1>3, <1>4, <1>5, <1>6, GitDeskStep DEF Git!Next

LEMMA GitInspectionsAreSound == ASSUME Git!GitInv PROVE Git!TypeOK /\ Git!InspectionSound
<1>1. Git!TypeOK
  <2>1. \A i \in 1..Len(history) : history[i] \in GitContent
    BY GitFacts
  <2>2. \A q \in Queries : query[q].at \in Git!Stages /\ DOMAIN query[q].seen \subseteq Git!Paths
    <3>1. ASSUME NEW q \in Queries PROVE query[q].at \in Git!Stages
                 /\ DOMAIN query[q].seen \subseteq Git!Paths
      <4>1. query[q] \in Git!Rows
        BY GitFacts
      <4> QED BY <4>1, GitRowFacts DEF Git!Rows
    <3> QED BY <3>1
  <2> QED BY <2>1, <2>2 DEF Git!TypeOK, Git!GitInv, Git!GitTypes, GitContent
<1>2. Git!AnswersOneMoment
  BY DEF Git!GitInv, Git!RequestSound, Git!AnsweredAt, Git!AnswersOneMoment
<1>3. Git!GrantWasShown /\ Git!RevocationIsFinal
  BY DEF Git!GitInv, Git!GrantSound, Git!RequestSound, Git!GrantWasShown, Git!RevocationIsFinal,
     Git!Reading
<1>4. Git!ViewsEnd
  BY DEF Git!GitInv, Git!RequestSound, Git!ViewsEnd
<1> QED BY <1>1, <1>2, <1>3, <1>4 DEF Git!InspectionSound

\* What a status or a diff says held together at one moment of the request, under a
\* grant the user was shown, however other programs write (git_metadata.py).
THEOREM InspectionHolds ==
    ASSUME Git!GitBound
    PROVE  Git!Spec => [](Git!TypeOK /\ Git!InspectionSound)
<1>1. Git!GitInv => Git!TypeOK /\ Git!InspectionSound
  BY GitInspectionsAreSound
<1> QED BY <1>1, GitInitInv, GitNextStep, PTL DEF Git!Spec

-----------------------------------------------------------------------------
(* ProviderAttempts: any calls, attempts and failures *)

\* The instance counts as FiniteSets does.
LEMMA ProviderFinite ==
    /\ \A S : Provider!IsFiniteSet(S) <=> IsFiniteSet(S)
    /\ \A S : Provider!Cardinality(S) = Cardinality(S)
<1>1. \A S : Provider!IsFiniteSet(S) <=> IsFiniteSet(S)
  BY DEF Provider!IsFiniteSet, IsFiniteSet
<1>2. \A S : Provider!Cardinality(S) = Cardinality(S)
  BY DEF Provider!Cardinality, Cardinality
<1> QED BY <1>1, <1>2

ProviderPcs == {"idle", "enter", "finish", "retire", "done"} \cup Provider!AtWork
ProviderOutcomes == {"failed", "receipt", "cancelled", "returned"}
ProviderRecord == [pc : ProviderPcs, tries : Nat, outcome : ProviderOutcomes,
    got : Provider!Brought,
           cancelled : BOOLEAN, leased : BOOLEAN]

\* A place in a journal is a finite set of positions.
LEMMA ProviderPlacesAreFinite ==
    ASSUME NEW c \in ProviderCalls, frames \in [ProviderCalls -> Seq(Provider!Frame)]
    PROVE  /\ \A kind : Provider!IsFiniteSet(Provider!Of(c, kind)) /\ Provider!Of(c,
              kind) \subseteq 1..Len(frames[c])
           /\ \A kind : Provider!Cardinality(Provider!Of(c, kind)) \in Nat
           /\ Provider!IsFiniteSet(Provider!Entered(c))
              /\ Provider!Cardinality(Provider!Entered(c)) \in Nat
           /\ Provider!Entered(c) \subseteq 1..Len(frames[c])
           /\ Len(frames[c]) \in Nat /\ Provider!Sealed(c) = Provider!Of(c, "request_finished")
<1>1. frames[c] \in Seq(Provider!Frame) /\ Len(frames[c]) \in Nat
      /\ DOMAIN frames[c] = 1..Len(frames[c])
  OBVIOUS
<1>2. Provider!IsFiniteSet(1..Len(frames[c]))
  BY <1>1, FS_Interval, ProviderFinite
<1>3. \A kind : Provider!Of(c, kind) \subseteq 1..Len(frames[c])
  BY <1>1 DEF Provider!Of
<1>4. Provider!Entered(c) \subseteq 1..Len(frames[c])
  BY <1>1 DEF Provider!Entered
<1>5. \A kind : Provider!IsFiniteSet(Provider!Of(c, kind)) /\ Provider!Cardinality(Provider!Of(c,
      kind)) \in Nat
  BY <1>2, <1>3, FS_Subset, ProviderFinite, FS_CardinalityType, ProviderFinite
<1>6. Provider!IsFiniteSet(Provider!Entered(c)) /\ Provider!Cardinality(Provider!Entered(c)) \in Nat
  BY <1>2, <1>4, FS_Subset, ProviderFinite, FS_CardinalityType, ProviderFinite
<1> QED BY <1>1, <1>3, <1>4, <1>5, <1>6 DEF Provider!Of, Provider!Sealed

\* The journal of c got the frame f, in place n.
ProviderGrown(c, f, n) ==
    /\ n = Len(frames[c]) + 1
    /\ frames' \in [ProviderCalls -> Seq(Provider!Frame)] /\ \A d \in ProviderCalls : d # c
       => frames'[d] = frames[d]
    /\ frames'[c] # <<>> /\ frames'[c][n] = f
    /\ \A i \in 1..Len(frames[c]) : frames'[c][i] = frames[c][i] /\ i < n
    /\ \A kind : Provider!Of(c, kind)' = IF f.kind = kind THEN Provider!Of(c,
       kind) \cup {n} ELSE Provider!Of(c, kind)
    /\ \A kind : Provider!Cardinality(Provider!Of(c, kind)')
                   = Provider!Cardinality(Provider!Of(c, kind)) + (IF f.kind = kind THEN 1 ELSE 0)
    /\ Provider!Cardinality(Provider!Entered(c)')
         = Provider!Cardinality(Provider!Entered(c)) + (IF f.kind = "request_finished"
             /\ f.entered THEN 1 ELSE 0)

\* One frame more is one place more of its kind, after all the others.
LEMMA ProviderJournalGrows ==
    ASSUME NEW c \in ProviderCalls, frames \in [ProviderCalls -> Seq(Provider!Frame)],
           NEW f \in Provider!Frame,
           frames' = [frames EXCEPT ![c] = Append(@, f)]
    PROVE  \E n \in Nat : ProviderGrown(c, f, n)
<1>0. PICK n : n = Len(frames[c]) + 1
  OBVIOUS
<1>1. frames[c] \in Seq(Provider!Frame) /\ Len(frames[c]) \in Nat
      /\ DOMAIN frames[c] = 1..Len(frames[c])
  OBVIOUS
<1>2. /\ frames'[c] = Append(frames[c], f) /\ frames'[c] \in Seq(Provider!Frame)
      /\ \A d \in ProviderCalls : d # c => frames'[d] = frames[d]
      /\ frames' \in [ProviderCalls -> Seq(Provider!Frame)]
  OBVIOUS
<1>3. /\ n \in Nat /\ Len(frames'[c]) = n /\ frames'[c][n] = f /\ DOMAIN frames'[c] = 1..n
      /\ \A i \in 1..Len(frames[c]) : frames'[c][i] = frames[c][i] /\ i < n
      /\ 1..n = 1..Len(frames[c]) \cup {n} /\ n \notin 1..Len(frames[c])
  BY <1>0, <1>1, <1>2
<1>4. \A kind : Provider!Of(c, kind)' = IF f.kind = kind THEN Provider!Of(c,
      kind) \cup {n} ELSE Provider!Of(c, kind)
  BY <1>1, <1>3 DEF Provider!Of
<1>5. Provider!Entered(c)' = IF f.kind = "request_finished"
      /\ f.entered THEN Provider!Entered(c) \cup {n} ELSE Provider!Entered(c)
  BY <1>1, <1>3 DEF Provider!Entered
<1>6. \A kind : Provider!Cardinality(Provider!Of(c,
      kind) \cup {n}) = Provider!Cardinality(Provider!Of(c, kind)) + 1
  BY <1>3, ProviderPlacesAreFinite, FS_AddElement, ProviderFinite
<1>7. Provider!Cardinality(Provider!Entered(c) \cup {n}) = Provider!Cardinality(Provider!Entered(c)) + 1
  BY <1>3, ProviderPlacesAreFinite, FS_AddElement, ProviderFinite
<1>8. \A kind : Provider!Cardinality(Provider!Of(c, kind)) \in Nat
  BY ProviderPlacesAreFinite
<1>9. Provider!Cardinality(Provider!Entered(c)) \in Nat
  BY ProviderPlacesAreFinite
<1>10. \A kind : Provider!Cardinality(Provider!Of(c, kind)')
                   = Provider!Cardinality(Provider!Of(c, kind)) + (IF f.kind = kind THEN 1 ELSE 0)
  BY <1>4, <1>6, <1>8
<1>11. Provider!Cardinality(Provider!Entered(c)')
         = Provider!Cardinality(Provider!Entered(c)) + (IF f.kind = "request_finished"
             /\ f.entered THEN 1 ELSE 0)
  BY <1>5, <1>7, <1>9
<1>12. frames'[c] # <<>>
  BY <1>1, <1>3
<1> QED BY <1>0, <1>2, <1>3, <1>4, <1>10, <1>11, <1>12 DEF ProviderGrown

\* A journal that is not written to counts as before.
LEMMA ProviderJournalRests ==
    ASSUME NEW c \in ProviderCalls, frames'[c] = frames[c]
    PROVE  /\ \A kind : Provider!Of(c, kind)' = Provider!Of(c, kind)
           /\ Provider!Entered(c)' = Provider!Entered(c) /\ Provider!Sealed(c)' = Provider!Sealed(c)
           /\ Provider!Opened(c)' = Provider!Opened(c) /\ Provider!Closed(c)' = Provider!Closed(c)
BY DEF Provider!Of, Provider!Entered, Provider!Sealed, Provider!Opened, Provider!Closed

\* What the invariant says of one call, in numbers.
LEMMA ProviderTallies ==
    ASSUME Provider!ProviderInv, NEW c \in ProviderCalls
    PROVE  /\ provider_call[c] \in ProviderRecord /\ Provider!Opened(c) \in Nat
              /\ Provider!Closed(c) \in Nat
           /\ Provider!Cardinality(Provider!Entered(c)) \in Nat /\ posts[c] \in Nat
           /\ Provider!Balanced(c) /\ Provider!Matching(c) /\ Provider!Bracketed(c)
              /\ Provider!Leased(c)
<1>1. frames \in [ProviderCalls -> Seq(Provider!Frame)]
  BY DEF Provider!ProviderInv, Provider!ProviderTypes
<1> QED BY <1>1, ProviderPlacesAreFinite DEF Provider!ProviderInv, Provider!ProviderTypes,
    Provider!Opened, Provider!Closed, ProviderRecord, ProviderPcs, ProviderOutcomes

\* The calls that a step is not about.
LEMMA ProviderOthersRest ==
    ASSUME Provider!ProviderInv, NEW d \in ProviderCalls, provider_call'[d] = provider_call[d],
           frames'[d] = frames[d],
           posts'[d] = posts[d], provider_broken => provider_broken', d \in exposed'
               => d \in exposed,
           circuit'.probe = d => circuit.probe = d
    PROVE  Provider!Balanced(d)' /\ Provider!Matching(d)' /\ Provider!Bracketed(d)'
        /\ Provider!Leased(d)'
<1>1. Provider!Balanced(d)'
  BY ProviderJournalRests, ProviderTallies DEF Provider!Balanced
<1>2. Provider!Matching(d)'
  BY ProviderJournalRests, ProviderTallies DEF Provider!Matching
<1>3. Provider!Bracketed(d)'
  BY ProviderJournalRests, ProviderTallies DEF Provider!Bracketed
<1>4. Provider!Leased(d)'
  BY ProviderTallies DEF Provider!Leased
<1> QED BY <1>1, <1>2, <1>3, <1>4

LEMMA ProviderRecordMoves ==
    ASSUME provider_call \in [ProviderCalls -> ProviderRecord], NEW c \in ProviderCalls,
           NEW r \in ProviderRecord,
           provider_call' = [provider_call EXCEPT ![c] = r]
    PROVE  provider_call' \in [ProviderCalls -> ProviderRecord] /\ provider_call'[c] = r
        /\ \A d \in ProviderCalls : d # c => provider_call'[d] = provider_call[d]
OBVIOUS

LEMMA ProviderSameAllowance ==
    ASSUME Provider!ProviderInv, NEW c \in ProviderCalls, NEW r \in ProviderRecord,
           provider_call' = [provider_call EXCEPT ![c] = r],
           r.tries = provider_call[c].tries, UNCHANGED retries
    PROVE  Provider!Allowance'
<1>1. provider_call \in [ProviderCalls -> ProviderRecord]
  BY DEF Provider!ProviderInv, Provider!ProviderTypes, ProviderRecord, ProviderPcs,
     ProviderOutcomes
<1>2. \A d \in ProviderCalls : provider_call'[d].tries = provider_call[d].tries
  BY <1>1, ProviderRecordMoves
<1>3. Provider!Taken' = Provider!Taken
  BY <1>2 DEF Provider!Taken
<1> QED BY <1>3 DEF Provider!ProviderInv, Provider!Allowance

\* A step of one call, from the record it leaves to what must be shown of it.
LEMMA ProviderOneMoves ==
    ASSUME Provider!Bounds, Provider!ProviderInv, NEW c \in ProviderCalls,
           NEW r \in ProviderRecord, provider_call' = [provider_call EXCEPT ![c] = r],
           frames' \in [ProviderCalls -> Seq(Provider!Frame)], \A d \in ProviderCalls : d # c
               => frames'[d] = frames[d],
           posts' \in [ProviderCalls -> Nat], \A d \in ProviderCalls : d # c
               => posts'[d] = posts[d],
           provider_broken' \in BOOLEAN, provider_broken => provider_broken',
           exposed' \subseteq exposed \cup {c}, retries' \in Nat,
           circuit' \in [failures : Nat, cooled : BOOLEAN,
               probe : ProviderCalls \cup {Provider!NoCall}],
           circuit'.probe \in {Provider!NoCall, c, circuit.probe},
           Provider!Balanced(c)', Provider!Matching(c)', Provider!Bracketed(c)',
               Provider!Leased(c)', Provider!Allowance'
    PROVE  Provider!ProviderInv'
<1>1. provider_call \in [ProviderCalls -> ProviderRecord] /\ exposed \subseteq ProviderCalls
  BY DEF Provider!ProviderInv, Provider!ProviderTypes, ProviderRecord, ProviderPcs,
     ProviderOutcomes
<1>2. /\ provider_call' \in [ProviderCalls -> ProviderRecord] /\ provider_call'[c] = r
      /\ \A d \in ProviderCalls : d # c => provider_call'[d] = provider_call[d]
  BY <1>1, ProviderRecordMoves
<1>3. Provider!ProviderTypes'
  BY <1>1, <1>2 DEF Provider!ProviderTypes, ProviderRecord, ProviderPcs, ProviderOutcomes
<1>4. \A d \in ProviderCalls : Provider!Balanced(d)' /\ Provider!Matching(d)'
      /\ Provider!Bracketed(d)' /\ Provider!Leased(d)'
  <2> SUFFICES ASSUME NEW d \in ProviderCalls, d # c
               PROVE  Provider!Balanced(d)' /\ Provider!Matching(d)' /\ Provider!Bracketed(d)'
                   /\ Provider!Leased(d)'
    OBVIOUS
  <2>1. circuit'.probe = d => circuit.probe = d
    BY DEF Provider!Bounds
  <2> QED BY <1>2, <2>1, ProviderOthersRest
<1> QED BY <1>3, <1>4 DEF Provider!ProviderInv

\* The latch ends a call: its journal may have got one frame more, and gets no summary.
LEMMA ProviderLatchMove ==
    ASSUME Provider!Bounds, Provider!ProviderInv, NEW c \in ProviderCalls,
           NEW r \in ProviderRecord, provider_call' = [provider_call EXCEPT ![c] = r],
           r.outcome = "receipt", r.pc \in {"release", "retire", "done"},
           r.tries = provider_call[c].tries, r.leased = provider_call[c].leased,
               provider_call[c].pc # "done",
           circuit'.probe = c => r.pc = "release" /\ circuit.probe = c,
           circuit' \in [failures : Nat, cooled : BOOLEAN,
               probe : ProviderCalls \cup {Provider!NoCall}],
           circuit'.probe \in {Provider!NoCall, circuit.probe},
           provider_broken' = TRUE, UNCHANGED <<retries, posts, exposed>>,
           \/ frames' = frames /\ (frames[c] = <<>> => provider_call[c].pc = "idle"
              \/ provider_call[c].outcome = "receipt")
           \/ \E f \in Provider!Frame : /\ frames' = [frames EXCEPT ![c] = Append(@, f)]
                                        /\ f.kind # "call_finished"
                                        /\ f.kind = "call_started" <=> frames[c] = <<>>
    PROVE  Provider!ProviderInv'
<1>1. provider_call \in [ProviderCalls -> ProviderRecord]
      /\ frames \in [ProviderCalls -> Seq(Provider!Frame)] /\ posts \in [ProviderCalls -> Nat]
      /\ circuit \in [failures : Nat, cooled : BOOLEAN,
         probe : ProviderCalls \cup {Provider!NoCall}]
      /\ retries \in Nat
  BY DEF Provider!ProviderInv, Provider!ProviderTypes, ProviderRecord, ProviderPcs,
     ProviderOutcomes
<1>2. provider_call'[c] = r
  BY <1>1, ProviderRecordMoves
<1>3. /\ Provider!Of(c, "call_finished") = {} /\ posts[c] <= provider_call[c].tries + 1
      /\ posts[c] \in Nat /\ provider_call[c].tries \in Nat
      /\ frames[c] = <<>> => posts[c] = 0 /\ Provider!Cardinality(Provider!Of(c,
         "call_started")) = 0
      /\ frames[c] # <<>> => Provider!Cardinality(Provider!Of(c, "call_started")) = 1
  <2>1. frames[c] = <<>> => Provider!Of(c, "call_started") = {}
    BY DEF Provider!Of
  <2>2. posts[c] \in Nat /\ provider_call[c].tries \in Nat
    BY <1>1 DEF ProviderRecord
  <2>3. frames[c] = <<>> => Provider!Cardinality(Provider!Of(c, "call_started")) = 0
    BY <2>1, FS_EmptySet, ProviderFinite
  <2>4. Provider!Bracketed(c) /\ Provider!Leased(c)
    BY ProviderTallies
  <2>5. Provider!Of(c, "call_finished") = {}
    BY <2>4 DEF Provider!Bracketed
  <2>6. posts[c] <= provider_call[c].tries + 1
    BY <2>2, <2>4 DEF Provider!Leased
  <2>7. /\ frames[c] = <<>> => posts[c] = 0
        /\ frames[c] # <<>> => Provider!Cardinality(Provider!Of(c, "call_started")) = 1
    BY <2>4 DEF Provider!Bracketed
  <2> QED BY <2>2, <2>3, <2>5, <2>6, <2>7
<1>4. /\ frames' \in [ProviderCalls -> Seq(Provider!Frame)] /\ \A d \in ProviderCalls : d # c
         => frames'[d] = frames[d]
      /\ Provider!Of(c, "call_finished")' = {} /\ (frames'[c] = <<>> => posts[c] = 0)
      /\ frames'[c] # <<>> => Provider!Cardinality(Provider!Of(c, "call_started")') = 1
  <2>1. CASE frames' = frames
    BY <1>1, <1>3, <2>1, ProviderJournalRests
  <2>2. CASE frames' # frames
    <3>1. PICK f \in Provider!Frame : /\ frames' = [frames EXCEPT ![c] = Append(@, f)]
                                      /\ f.kind # "call_finished"
                                      /\ f.kind = "call_started" <=> frames[c] = <<>>
      BY <2>2
    <3>3. PICK n \in Nat : ProviderGrown(c, f, n)
      BY <1>1, <3>1, ProviderJournalGrows
    <3>4. Provider!Of(c, "call_finished")' = {}
      BY <1>3, <3>1, <3>3 DEF ProviderGrown
    <3>5. Provider!Cardinality(Provider!Of(c, "call_started")') = 1
      BY <1>3, <3>1, <3>3 DEF ProviderGrown
    <3> QED BY <3>3, <3>4, <3>5 DEF ProviderGrown
  <2> QED BY <2>1, <2>2
<1>5. Provider!Balanced(c)' /\ Provider!Matching(c)'
  BY <1>2 DEF Provider!Balanced, Provider!Matching
<1>6. Provider!Bracketed(c)'
  BY <1>2, <1>3, <1>4 DEF Provider!Bracketed
<1>7. Provider!Leased(c)'
  BY <1>2, <1>3, ProviderTallies DEF Provider!Leased, Provider!AtWork
<1> QED BY <1>1, <1>4, <1>5, <1>6, <1>7, ProviderOneMoves, ProviderSameAllowance

LEMMA ProviderLatchStep ==
    ASSUME Provider!Bounds, Provider!ProviderInv, NEW c \in ProviderCalls,
           NEW r \in ProviderRecord, provider_call' = [provider_call EXCEPT ![c] = r],
           r.outcome = "receipt", r.pc \in {"release", "retire", "done"},
           r.tries = provider_call[c].tries, r.leased = provider_call[c].leased,
               provider_call[c].pc # "done",
           circuit.probe = c => r.pc = "release",
           provider_broken' = TRUE, UNCHANGED <<circuit, retries, posts, exposed>>,
           \/ frames' = frames /\ (frames[c] = <<>> => provider_call[c].pc = "idle"
              \/ provider_call[c].outcome = "receipt")
           \/ \E f \in Provider!Frame : /\ frames' = [frames EXCEPT ![c] = Append(@, f)]
                                        /\ f.kind # "call_finished"
                                        /\ f.kind = "call_started" <=> frames[c] = <<>>
    PROVE  Provider!ProviderInv'
<1>1. circuit' \in [failures : Nat, cooled : BOOLEAN, probe : ProviderCalls \cup {Provider!NoCall}]
  BY DEF Provider!ProviderInv, Provider!ProviderTypes
<1> QED BY <1>1, ProviderLatchMove

\* The call goes on, and its journal stays.
LEMMA ProviderQuietStep ==
    ASSUME Provider!Bounds, Provider!ProviderInv, NEW c \in ProviderCalls,
           NEW r \in ProviderRecord, provider_call' = [provider_call EXCEPT ![c] = r],
           r.outcome # "receipt", provider_call[c].outcome # "receipt",
           provider_call[c].pc \notin {"idle", "done"}, r.pc \notin {"idle", "done", "retire"},
           (r.pc = "seal" /\ r.got # "unsent") <=> (provider_call[c].pc = "seal"
               /\ provider_call[c].got # "unsent"),
           UNCHANGED <<frames, provider_broken, posts, exposed>>, retries' \in Nat,
           circuit' \in [failures : Nat, cooled : BOOLEAN,
               probe : ProviderCalls \cup {Provider!NoCall}],
           circuit'.probe \in {Provider!NoCall, c, circuit.probe},
           Provider!Balanced(c)', Provider!Leased(c)', Provider!Allowance'
    PROVE  Provider!ProviderInv'
<1>1. /\ provider_call \in [ProviderCalls -> ProviderRecord]
         /\ frames \in [ProviderCalls -> Seq(Provider!Frame)] /\ posts \in [ProviderCalls -> Nat]
      /\ provider_broken \in BOOLEAN
  BY DEF Provider!ProviderInv, Provider!ProviderTypes, ProviderRecord, ProviderPcs,
     ProviderOutcomes
<1>2. provider_call'[c] = r
  BY <1>1, ProviderRecordMoves
<1>3. Provider!Matching(c)'
  BY <1>2, ProviderJournalRests, ProviderTallies DEF Provider!Matching
<1>4. Provider!Bracketed(c)'
  BY <1>2, ProviderJournalRests, ProviderTallies DEF Provider!Bracketed
<1> QED BY <1>1, <1>3, <1>4, ProviderOneMoves

\* A call's record after Goto and after End.
LEMMA ProviderGotoShape ==
    ASSUME Provider!ProviderInv, NEW c \in ProviderCalls, NEW pc \in ProviderPcs, Provider!Goto(c,
           pc)
    PROVE  \E r \in ProviderRecord : /\ provider_call' = [provider_call EXCEPT ![c] = r]
                                        /\ r.pc = pc
                                     /\ r.tries = provider_call[c].tries
                                         /\ r.outcome = provider_call[c].outcome
                                     /\ r.got = provider_call[c].got
                                         /\ r.cancelled = provider_call[c].cancelled
                                     /\ r.leased = provider_call[c].leased
<1>1. provider_call \in [ProviderCalls -> ProviderRecord]
  BY DEF Provider!ProviderInv, Provider!ProviderTypes, ProviderRecord, ProviderPcs,
     ProviderOutcomes
<1>2. PICK r : r = [provider_call[c] EXCEPT !.pc = pc]
  OBVIOUS
<1>3. provider_call' = [provider_call EXCEPT ![c] = r]
  BY <1>2 DEF Provider!Goto
<1>4. /\ r \in ProviderRecord /\ r.pc = pc /\ r.tries = provider_call[c].tries
         /\ r.outcome = provider_call[c].outcome
      /\ r.got = provider_call[c].got /\ r.cancelled = provider_call[c].cancelled
         /\ r.leased = provider_call[c].leased
  BY <1>1, <1>2 DEF ProviderRecord
<1> QED BY <1>3, <1>4

LEMMA ProviderEndShape ==
    ASSUME Provider!ProviderInv, NEW c \in ProviderCalls, NEW pc \in ProviderPcs,
           NEW out \in ProviderOutcomes, Provider!End(c, pc, out)
    PROVE  \E r \in ProviderRecord : /\ provider_call' = [provider_call EXCEPT ![c] = r]
                                        /\ r.pc = pc
                                     /\ r.tries = provider_call[c].tries /\ r.outcome = out
                                     /\ r.got = provider_call[c].got
                                         /\ r.cancelled = provider_call[c].cancelled
                                     /\ r.leased = provider_call[c].leased
<1>1. provider_call \in [ProviderCalls -> ProviderRecord]
  BY DEF Provider!ProviderInv, Provider!ProviderTypes, ProviderRecord, ProviderPcs,
     ProviderOutcomes
<1>2. PICK r : r = [provider_call[c] EXCEPT !.pc = pc, !.outcome = out]
  OBVIOUS
<1>3. provider_call' = [provider_call EXCEPT ![c] = r]
  BY <1>1, <1>2 DEF Provider!End
<1>4. /\ r \in ProviderRecord /\ r.pc = pc /\ r.tries = provider_call[c].tries /\ r.outcome = out
      /\ r.got = provider_call[c].got /\ r.cancelled = provider_call[c].cancelled
         /\ r.leased = provider_call[c].leased
  BY <1>1, <1>2 DEF ProviderRecord
<1> QED BY <1>3, <1>4

LEMMA ProviderTyped ==
    ASSUME Provider!ProviderInv
    PROVE  /\ provider_call \in [ProviderCalls -> ProviderRecord]
              /\ frames \in [ProviderCalls -> Seq(Provider!Frame)]
           /\ circuit \in [failures : Nat, cooled : BOOLEAN,
              probe : ProviderCalls \cup {Provider!NoCall}]
           /\ retries \in Nat /\ provider_broken \in BOOLEAN
           /\ posts \in [ProviderCalls -> Nat] /\ exposed \subseteq ProviderCalls
BY DEF Provider!ProviderInv, Provider!ProviderTypes, ProviderRecord, ProviderPcs, ProviderOutcomes

LEMMA ProviderBlank ==
    ASSUME NEW c \in ProviderCalls, frames[c] = <<>>
    PROVE  /\ \A kind : Provider!Of(c, kind) = {} /\ Provider!Cardinality(Provider!Of(c, kind)) = 0
           /\ Provider!Entered(c) = {} /\ Provider!Cardinality(Provider!Entered(c)) = 0
<1>1. (\A kind : Provider!Of(c, kind) = {}) /\ Provider!Entered(c) = {}
  BY DEF Provider!Of, Provider!Entered
<1> QED BY <1>1, FS_EmptySet, ProviderFinite

\* The first frame of a call.
LEMMA ProviderStartStep == ASSUME Provider!Bounds, Provider!ProviderInv, NEW c \in ProviderCalls,
                                  Provider!Start(c) PROVE Provider!ProviderInv'
<1>0. /\ provider_call[c].pc = "idle" /\ ~provider_broken /\ UNCHANGED <<circuit, retries, posts,
                                                                         exposed>>
      /\ frames[c] = <<>> /\ posts[c] = 0 /\ provider_call[c].tries = 0 /\ circuit.probe # c
      /\ provider_call[c].outcome # "receipt" /\ c \notin exposed
  BY ProviderTallies DEF Provider!Start, Provider!Env, Provider!History, Provider!Bracketed,
     Provider!Balanced, Provider!Leased, Provider!AtWork
<1>1. PICK f \in Provider!Frame : f = [kind |-> "call_started"]
  BY DEF Provider!Frame
<1>2. CASE Provider!End(c, "retire", "receipt") /\ provider_broken' = TRUE
           /\ frames' \in {frames, [frames EXCEPT ![c] = Append(@, f)]}
  <2>1. PICK r \in ProviderRecord : /\ provider_call' = [provider_call EXCEPT ![c] = r]
                                       /\ r.pc = "retire" /\ r.outcome = "receipt"
                                    /\ r.tries = provider_call[c].tries
                                       /\ r.leased = provider_call[c].leased
    BY <1>2, ProviderEndShape DEF ProviderPcs, ProviderOutcomes
  <2> QED BY <1>0, <1>1, <1>2, <2>1, ProviderLatchStep
<1>3. CASE /\ Provider!Goto(c, "enter") \/ Provider!End(c, "finish", "cancelled")
           /\ UNCHANGED provider_broken /\ frames' = [frames EXCEPT ![c] = Append(@, f)]
  <2>1. PICK r \in ProviderRecord : /\ provider_call' = [provider_call EXCEPT ![c] = r]
                                       /\ r.pc \in {"enter", "finish"}
                                    /\ r.outcome # "receipt" /\ r.tries = 0
    <3>1. CASE Provider!Goto(c, "enter")
      BY <1>0, <3>1, ProviderGotoShape DEF ProviderPcs
    <3>2. CASE Provider!End(c, "finish", "cancelled")
      BY <1>0, <3>2, ProviderEndShape DEF ProviderPcs, ProviderOutcomes
    <3> QED BY <1>3, <3>1, <3>2
  <2>2. provider_call'[c] = r
    BY <2>1, ProviderTyped, ProviderRecordMoves
  <2>3. PICK n \in Nat : ProviderGrown(c, f, n)
    BY <1>3, ProviderTyped, ProviderJournalGrows
  <2>4. /\ Provider!Of(c, "request_started")' = {} /\ Provider!Of(c, "request_finished")' = {}
        /\ Provider!Of(c, "call_finished")' = {} /\ Provider!Cardinality(Provider!Of(c,
           "request_started")') = 0
        /\ Provider!Cardinality(Provider!Of(c, "request_finished")') = 0
        /\ Provider!Cardinality(Provider!Of(c, "call_started")') = 1
           /\ Provider!Cardinality(Provider!Entered(c)') = 0
        /\ frames'[c] # <<>>
    BY <1>0, <1>1, <2>3, ProviderBlank DEF ProviderGrown
  <2>5. Provider!Sealed(c)' = {} /\ Provider!Opened(c)' = 0 /\ Provider!Closed(c)' = 0
    BY <2>4, ProviderBlank DEF Provider!Sealed, Provider!Of, Provider!Opened, Provider!Closed
  <2>6. Provider!Balanced(c)'
    BY <2>1, <2>2, <2>5 DEF Provider!Balanced
  <2>7. Provider!Matching(c)'
    BY <1>0, <2>1, <2>2, <2>4, <2>5 DEF Provider!Matching
  <2>8. Provider!Bracketed(c)'
    BY <2>1, <2>2, <2>4 DEF Provider!Bracketed
  <2>9. Provider!Leased(c)'
    BY <1>0, <2>1, <2>2 DEF Provider!Leased
  <2> QED BY <1>0, <1>3, <2>1, <2>3, <2>6, <2>7, <2>8, <2>9, ProviderTyped, ProviderOneMoves,
      ProviderSameAllowance DEF ProviderGrown
<1> QED BY <1>1, <1>2, <1>3 DEF Provider!Start, Provider!Append1

\* Another call latched the fault.
LEMMA ProviderFencedStep == ASSUME Provider!Bounds, Provider!ProviderInv, NEW c \in ProviderCalls,
                                   Provider!Fenced(c) PROVE Provider!ProviderInv'
<1>0. /\ provider_call[c].pc \in {"enter", "begin"} /\ provider_broken
         /\ provider_broken' = TRUE /\ provider_call[c].leased \in BOOLEAN
      /\ UNCHANGED <<frames, circuit, retries, posts, exposed>>
      /\ circuit.probe = c => provider_call[c].leased
      /\ frames[c] # <<>>
  <2>1. frames[c] # <<>> /\ (circuit.probe = c => provider_call[c].leased)
    BY ProviderTallies DEF Provider!Fenced, Provider!Bracketed, Provider!Leased
  <2> QED BY <2>1, ProviderTyped DEF Provider!Fenced, Provider!Env, Provider!History,
      ProviderRecord
<1>1. PICK r \in ProviderRecord : /\ provider_call' = [provider_call EXCEPT ![c] = r]
                                     /\ r.outcome = "receipt"
                                  /\ r.pc = IF provider_call[c].leased THEN "release" ELSE "retire"
                                  /\ r.tries = provider_call[c].tries
                                     /\ r.leased = provider_call[c].leased
  <2>1. PICK pc \in ProviderPcs : pc = IF provider_call[c].leased THEN "release" ELSE "retire"
    BY <1>0 DEF ProviderPcs, Provider!AtWork
  <2> QED BY <2>1, ProviderEndShape DEF Provider!Fenced, ProviderOutcomes
<1> QED BY <1>0, <1>1, ProviderLatchStep

\* The call is admitted, as the probe of an open circuit or not, or refused.
LEMMA ProviderEnterStep == ASSUME Provider!Bounds, Provider!ProviderInv, NEW c \in ProviderCalls,
                                  Provider!Enter(c) PROVE Provider!ProviderInv'
<1>0. /\ provider_call[c].pc = "enter" /\ UNCHANGED <<frames, provider_broken, retries, posts,
                                                      exposed>>
      /\ Provider!Opened(c) = 0 /\ Provider!Closed(c) = 0 /\ provider_call[c].tries = 0
         /\ c \notin exposed /\ circuit.probe # c
      /\ provider_call[c].outcome # "receipt" /\ posts[c] = 0
      /\ posts'[c] = posts[c]
  <2>1. Provider!Balanced(c) /\ Provider!Leased(c) /\ Provider!Bracketed(c) /\ posts[c] \in Nat
    BY ProviderTallies
  <2>2. provider_call[c].pc = "enter" /\ UNCHANGED <<frames, provider_broken, retries, posts,
                                                     exposed>>
    BY DEF Provider!Enter, Provider!History
  <2>3. Provider!Opened(c) = 0 /\ Provider!Closed(c) = 0 /\ provider_call[c].tries = 0
    BY <2>1, <2>2 DEF Provider!Balanced
  <2>4. c \notin exposed /\ circuit.probe # c /\ posts[c] = 0
    BY <2>1, <2>2, <2>3 DEF Provider!Leased, Provider!AtWork
  <2>5. provider_call[c].outcome # "receipt"
    BY <2>1, <2>2 DEF Provider!Bracketed
  <2> QED BY <2>2, <2>3, <2>4, <2>5
<1>1. \E r \in ProviderRecord : /\ provider_call' = [provider_call EXCEPT ![c] = r]
                                   /\ r.tries = provider_call[c].tries
                                /\ r.outcome # "receipt"
                                /\ \/ r.pc = "begin" /\ circuit' = circuit
                                   \/ r.pc = "begin" /\ r.leased
                                      /\ circuit' = [circuit EXCEPT !.probe = c]
                                   \/ r.pc = "finish" /\ circuit' = circuit
  <2>1. CASE Provider!Goto(c, "begin") /\ UNCHANGED circuit
    <3>1. PICK r \in ProviderRecord : /\ provider_call' = [provider_call EXCEPT ![c] = r]
                                         /\ r.pc = "begin"
                                      /\ r.tries = provider_call[c].tries
                                          /\ r.outcome = provider_call[c].outcome
      BY <2>1, ProviderGotoShape DEF ProviderPcs, Provider!AtWork
    <3> QED BY <1>0, <2>1, <3>1
  <2>2. CASE Provider!End(c, "finish", "failed") /\ UNCHANGED circuit
    BY <1>0, <2>2, ProviderEndShape DEF ProviderPcs, ProviderOutcomes
  <2>3. CASE /\ circuit' = [circuit EXCEPT !.probe = c]
             /\ provider_call' = [provider_call EXCEPT ![c].pc = "begin", ![c].leased = TRUE]
    <3>1. PICK r : r = [provider_call[c] EXCEPT !.pc = "begin", !.leased = TRUE]
      OBVIOUS
    <3>2. r \in ProviderRecord /\ r.pc = "begin" /\ r.leased /\ r.tries = provider_call[c].tries
          /\ r.outcome = provider_call[c].outcome
      BY <3>1, ProviderTyped DEF ProviderRecord, ProviderPcs, Provider!AtWork
    <3>3. provider_call' = [provider_call EXCEPT ![c] = r]
      BY <2>3, <3>1, ProviderTyped
    <3> QED BY <1>0, <2>3, <3>2, <3>3
  <2> QED BY <2>1, <2>2, <2>3 DEF Provider!Enter
<1>2. PICK r \in ProviderRecord : /\ provider_call' = [provider_call EXCEPT ![c] = r]
                                     /\ r.tries = provider_call[c].tries
                                  /\ r.outcome # "receipt"
                                  /\ \/ r.pc = "begin" /\ circuit' = circuit
                                     \/ r.pc = "begin" /\ r.leased
                                         /\ circuit' = [circuit EXCEPT !.probe = c]
                                     \/ r.pc = "finish" /\ circuit' = circuit
  BY <1>1
<1>3. provider_call'[c] = r
  BY <1>2, ProviderTyped, ProviderRecordMoves
<1>4. /\ circuit' \in [failures : Nat, cooled : BOOLEAN,
         probe : ProviderCalls \cup {Provider!NoCall}]
      /\ circuit'.probe \in {c, circuit.probe} /\ (circuit'.probe = c => r.leased /\ r.pc = "begin")
  BY <1>0, <1>2, ProviderTyped
<1>5. Provider!Balanced(c)'
  BY <1>0, <1>2, <1>3, ProviderJournalRests DEF Provider!Balanced
<1>6. Provider!Leased(c)'
  BY <1>0, <1>2, <1>3, <1>4 DEF Provider!Leased, Provider!AtWork
<1> QED BY <1>0, <1>2, <1>4, <1>5, <1>6, ProviderTyped, ProviderQuietStep, ProviderSameAllowance

\* The intent of an attempt is written, when every earlier attempt was sealed.
LEMMA ProviderBeginStep == ASSUME Provider!Bounds, Provider!ProviderInv, NEW c \in ProviderCalls,
                                  Provider!Begin(c) PROVE Provider!ProviderInv'
<1>0. /\ provider_call[c].pc = "begin" /\ ~provider_broken /\ UNCHANGED <<circuit, retries, posts,
                                                                          exposed>>
      /\ provider_call[c].outcome # "receipt" /\ frames[c] # <<>> /\ c \notin exposed
      /\ provider_call[c].tries \in Nat
  <2>1. Provider!Bracketed(c) /\ Provider!Leased(c) /\ provider_call[c] \in ProviderRecord
    BY ProviderTallies
  <2>2. provider_call[c].pc = "begin" /\ ~provider_broken /\ UNCHANGED <<circuit, retries, posts,
                                                                         exposed>>
    BY DEF Provider!Begin, Provider!Env, Provider!History
  <2> QED BY <2>1, <2>2 DEF Provider!Bracketed, Provider!Leased, ProviderRecord
<1>1. PICK f \in Provider!Frame : /\ f = [kind |-> "request_started",
                                     index |-> provider_call[c].tries + 1]
                                  /\ f.kind = "request_started"
                                     /\ f.index = provider_call[c].tries + 1
  <2>1. PICK f : f = [kind |-> "request_started", index |-> provider_call[c].tries + 1]
    OBVIOUS
  <2>2. f \in [kind : {"request_started"}, index : Nat]
    BY <1>0, <2>1
  <2> QED BY <2>1, <2>2 DEF Provider!Frame
<1>2. CASE Provider!End(c, "release", "receipt") /\ provider_broken' = TRUE
           /\ frames' \in {frames, [frames EXCEPT ![c] = Append(@, f)]}
  <2>1. PICK r \in ProviderRecord : /\ provider_call' = [provider_call EXCEPT ![c] = r]
                                       /\ r.pc = "release" /\ r.outcome = "receipt"
                                    /\ r.tries = provider_call[c].tries
                                       /\ r.leased = provider_call[c].leased
    BY <1>2, ProviderEndShape DEF ProviderPcs, ProviderOutcomes, Provider!AtWork
  <2> QED BY <1>0, <1>1, <1>2, <2>1, ProviderLatchStep
<1>3. CASE /\ IF provider_call[c].cancelled
              THEN provider_call' = [provider_call EXCEPT ![c].pc = "seal", ![c].got = "unsent"]
              ELSE Provider!Goto(c, "post")
           /\ UNCHANGED provider_broken /\ frames' = [frames EXCEPT ![c] = Append(@, f)]
  <2>1. \E r \in ProviderRecord : /\ provider_call' = [provider_call EXCEPT ![c] = r]
                                     /\ r.outcome = provider_call[c].outcome
                                  /\ r.tries = provider_call[c].tries
                                     /\ r.leased = provider_call[c].leased
                                  /\ r.pc = "post" \/ (r.pc = "seal" /\ r.got = "unsent")
    <3>1. CASE ~provider_call[c].cancelled
      <4>1. PICK r \in ProviderRecord : /\ provider_call' = [provider_call EXCEPT ![c] = r]
                                           /\ r.pc = "post"
                                        /\ r.outcome = provider_call[c].outcome
                                        /\ r.tries = provider_call[c].tries
                                            /\ r.leased = provider_call[c].leased
        BY <1>3, <3>1, ProviderGotoShape DEF ProviderPcs, Provider!AtWork
      <4> QED BY <4>1
    <3>2. CASE provider_call[c].cancelled
      <4>1. PICK r : r = [provider_call[c] EXCEPT !.pc = "seal", !.got = "unsent"]
        OBVIOUS
      <4>2. /\ r \in ProviderRecord /\ r.outcome = provider_call[c].outcome /\ r.pc = "seal"
               /\ r.got = "unsent"
            /\ r.tries = provider_call[c].tries /\ r.leased = provider_call[c].leased
        <5>1. provider_call[c] \in ProviderRecord
          BY ProviderTallies
        <5>2. "seal" \in ProviderPcs /\ "unsent" \in Provider!Brought
          BY DEF ProviderPcs, Provider!AtWork, Provider!Brought
        <5> QED BY <4>1, <5>1, <5>2 DEF ProviderRecord
      <4>3. provider_call' = [provider_call EXCEPT ![c] = r]
        BY <1>3, <3>2, <4>1, ProviderTyped
      <4> QED BY <4>2, <4>3
    <3> QED BY <3>1, <3>2
  <2>2. PICK r \in ProviderRecord : /\ provider_call' = [provider_call EXCEPT ![c] = r]
                                       /\ r.outcome = provider_call[c].outcome
                                    /\ r.tries = provider_call[c].tries
                                       /\ r.leased = provider_call[c].leased
                                    /\ r.pc = "post" \/ (r.pc = "seal" /\ r.got = "unsent")
    BY <2>1
  <2>3. provider_call'[c] = r
    BY <2>2, ProviderTyped, ProviderRecordMoves
  <2>4. PICK n \in Nat : ProviderGrown(c, f, n)
    BY <1>3, ProviderTyped, ProviderJournalGrows
  <2>5. /\ Provider!Opened(c) = provider_call[c].tries
           /\ Provider!Closed(c) = provider_call[c].tries /\ Provider!Matching(c)
              /\ Provider!Leased(c)
        /\ Provider!Bracketed(c)
    BY <1>0, ProviderTallies DEF Provider!Balanced
  <2>6. /\ Provider!Of(c, "request_started")' = Provider!Of(c, "request_started") \cup {n}
        /\ Provider!Of(c, "request_finished")' = Provider!Of(c, "request_finished")
        /\ Provider!Of(c, "call_finished")' = Provider!Of(c, "call_finished")
        /\ Provider!Cardinality(Provider!Of(c,
           "request_started")') = Provider!Cardinality(Provider!Of(c, "request_started")) + 1
        /\ Provider!Cardinality(Provider!Of(c,
           "request_finished")') = Provider!Cardinality(Provider!Of(c, "request_finished"))
        /\ Provider!Cardinality(Provider!Of(c,
           "call_started")') = Provider!Cardinality(Provider!Of(c, "call_started"))
    BY <1>1, <2>4 DEF ProviderGrown
  <2>7. Provider!Cardinality(Provider!Entered(c)') = Provider!Cardinality(Provider!Entered(c))
    <3>1. Provider!Cardinality(Provider!Entered(c)) \in Nat
      BY ProviderTallies
    <3> QED BY <1>1, <2>4, <3>1 DEF ProviderGrown
  <2>8. /\ Provider!Sealed(c)' = Provider!Sealed(c)
           /\ Provider!Opened(c)' = provider_call[c].tries + 1
              /\ Provider!Closed(c)' = provider_call[c].tries
    BY <2>5, <2>6 DEF Provider!Sealed, Provider!Of, Provider!Opened, Provider!Closed
  <2>9. Provider!Balanced(c)'
    BY <2>2, <2>3, <2>8 DEF Provider!Balanced
  <2>10. Provider!Matching(c)'
    <3>1. /\ Provider!Of(c, "request_started") \subseteq 1..Len(frames[c])
          /\ Provider!Sealed(c) \subseteq 1..Len(frames[c])
      BY ProviderTyped, ProviderPlacesAreFinite
    <3>2. \A i \in 1..Len(frames[c]) : frames'[c][i] = frames[c][i]
      BY <2>4 DEF ProviderGrown
    <3>3. frames'[c][n].index = provider_call[c].tries + 1
      BY <1>1, <2>4 DEF ProviderGrown
    <3>4. {frames'[c][i].index : i \in Provider!Of(c, "request_started")'} = 1..Provider!Opened(c)'
      <4>1. {frames[c][i].index : i \in Provider!Of(c,
            "request_started")} = 1..provider_call[c].tries
        BY <1>0, <2>5 DEF Provider!Matching
      <4>2. {frames'[c][i].index : i \in Provider!Of(c,
            "request_started")} = 1..provider_call[c].tries
        BY <3>1, <3>2, <4>1
      <4>3. {frames'[c][i].index : i \in Provider!Of(c, "request_started")'}
              = 1..provider_call[c].tries \cup {provider_call[c].tries + 1}
        BY <2>6, <3>3, <4>2
      <4> QED BY <1>0, <2>8, <4>3
    <3>5. ASSUME NEW i \in Provider!Of(c, "request_started")'
          PROVE  \/ \E j \in Provider!Sealed(c)' : i < j
                    /\ frames'[c][j].index = frames'[c][i].index
                 \/ Provider!Opened(c)' = Provider!Closed(c)' + 1
                    /\ frames'[c][i].index = Provider!Opened(c)'
      <4>1. CASE i = n
        BY <1>0, <2>8, <3>3, <4>1
      <4>2. CASE i \in Provider!Of(c, "request_started")
        <5>1. PICK j \in Provider!Sealed(c) : i < j /\ frames[c][j].index = frames[c][i].index
          BY <1>0, <2>5, <4>2 DEF Provider!Matching
        <5> QED BY <2>8, <3>1, <3>2, <4>2, <5>1
      <4> QED BY <2>6, <3>5, <4>1, <4>2
    <3>6. \A j \in Provider!Sealed(c)' : frames'[c][j].failure # "unclosed"
      BY <1>0, <2>5, <2>8, <3>1, <3>2 DEF Provider!Matching
    <3>7. posts'[c] = Provider!Cardinality(Provider!Entered(c)') + 0
      BY <1>0, <2>5, <2>7, ProviderTyped, ProviderPlacesAreFinite DEF Provider!Matching
    <3> QED BY <2>2, <2>3, <3>4, <3>5, <3>6, <3>7 DEF Provider!Matching
  <2>11. Provider!Bracketed(c)'
    BY <1>0, <2>2, <2>3, <2>4, <2>5, <2>6 DEF Provider!Bracketed, ProviderGrown
  <2>12. Provider!Leased(c)'
    BY <1>0, <2>2, <2>3, <2>5 DEF Provider!Leased, Provider!AtWork
  <2> QED BY <1>0, <1>3, <2>2, <2>4, <2>9, <2>10, <2>11, <2>12, ProviderTyped, ProviderOneMoves,
      ProviderSameAllowance DEF ProviderGrown
<1> QED BY <1>1, <1>2, <1>3 DEF Provider!Begin, Provider!Append1

\* The transport method is entered once more; what it brings is sealed next.
LEMMA ProviderPostStep == ASSUME Provider!Bounds, Provider!ProviderInv, NEW c \in ProviderCalls,
                                 Provider!Post(c) PROVE Provider!ProviderInv'
<1>0. /\ provider_call[c].pc = "post" /\ UNCHANGED <<frames, provider_broken, circuit, retries>>
      /\ posts' = [posts EXCEPT ![c] = @ + 1]
      /\ provider_call[c].outcome # "receipt" /\ frames[c] # <<>>
      /\ provider_call[c] \in ProviderRecord /\ posts[c] \in Nat
         /\ posts[c] <= provider_call[c].tries
  <2>1. provider_call[c].pc = "post" /\ UNCHANGED <<frames, provider_broken, circuit, retries>>
        /\ posts' = [posts EXCEPT ![c] = @ + 1]
    BY DEF Provider!Post, Provider!Env
  <2> QED BY <2>1, ProviderTallies DEF Provider!Bracketed, Provider!Leased
<1>1. PICK got \in Provider!Answers \cup {"cancelled"} :
          /\ provider_call' = [provider_call EXCEPT ![c].pc = "seal", ![c].got = got]
          /\ exposed' = IF got = "partial" THEN exposed \cup {c} ELSE exposed
  BY DEF Provider!Post
<1>2. PICK r : r = [provider_call[c] EXCEPT !.pc = "seal", !.got = got]
  OBVIOUS
<1>3. "seal" \in ProviderPcs /\ got \in Provider!Brought /\ got # "unsent"
  BY DEF ProviderPcs, Provider!AtWork, Provider!Answers, Provider!Brought
<1>4. /\ r \in ProviderRecord /\ r.pc = "seal" /\ r.got = got /\ r.tries = provider_call[c].tries
      /\ r.outcome = provider_call[c].outcome /\ r.leased = provider_call[c].leased
  BY <1>0, <1>2, <1>3 DEF ProviderRecord
<1>5. provider_call' = [provider_call EXCEPT ![c] = r]
  BY <1>1, <1>2, ProviderTyped
<1>6. provider_call'[c] = r
  BY <1>4, <1>5, ProviderTyped, ProviderRecordMoves
<1>7. /\ posts'[c] = posts[c] + 1 /\ posts' \in [ProviderCalls -> Nat]
      /\ \A d \in ProviderCalls : d # c => posts'[d] = posts[d]
  BY <1>0, ProviderTyped
<1>8. Provider!Balanced(c)'
  <2>1. Provider!Balanced(c)
    BY ProviderTallies
  <2> QED BY <1>0, <1>4, <1>6, <2>1, ProviderJournalRests DEF Provider!Balanced
<1>9. Provider!Matching(c)'
  <2>1. Provider!Matching(c) /\ Provider!Cardinality(Provider!Entered(c)) \in Nat
    BY ProviderTallies
  <2> QED BY <1>0, <1>3, <1>4, <1>6, <1>7, <2>1, ProviderJournalRests DEF Provider!Matching
<1>10. Provider!Bracketed(c)'
  <2>1. Provider!Bracketed(c)
    BY ProviderTallies
  <2> QED BY <1>0, <1>4, <1>6, <2>1, ProviderJournalRests DEF Provider!Bracketed
<1>11. Provider!Leased(c)'
  <2>1. Provider!Leased(c)
    BY ProviderTallies
  <2>2. c \in exposed' => r.got = "partial"
    BY <1>0, <1>1, <1>4, <2>1 DEF Provider!Leased
  <2>3. circuit'.probe = c => r.leased
    BY <1>0, <1>4, <2>1 DEF Provider!Leased
  <2>4. provider_call[c].tries \in Nat
    BY <1>0 DEF ProviderRecord
  <2> QED BY <1>0, <1>4, <1>6, <1>7, <2>2, <2>3, <2>4 DEF Provider!Leased, Provider!AtWork
<1>12. exposed' \subseteq exposed \cup {c}
  BY <1>1
<1> QED BY <1>0, <1>4, <1>5, <1>7, <1>8, <1>9, <1>10, <1>11, <1>12, ProviderTyped,
    ProviderOneMoves, ProviderSameAllowance

\* The frame that seals an attempt.
LEMMA ProviderFinishedShape ==
    ASSUME NEW c \in ProviderCalls, provider_call[c] \in ProviderRecord
    PROVE  /\ Provider!Finished(c) \in Provider!Frame
              /\ Provider!Finished(c).kind = "request_finished"
           /\ Provider!Finished(c).index = provider_call[c].tries + 1
           /\ Provider!Finished(c).entered = (provider_call[c].got # "unsent")
              /\ Provider!Finished(c).failure = provider_call[c].got
<1>1. PICK f : f = Provider!Finished(c)
  OBVIOUS
<1>2. /\ f.kind = "request_finished" /\ f.index = provider_call[c].tries + 1
      /\ f.entered = (provider_call[c].got # "unsent") /\ f.failure = provider_call[c].got
  BY <1>1 DEF Provider!Finished
<1>3. provider_call[c].tries + 1 \in Nat /\ provider_call[c].got \in Provider!Brought
      /\ (provider_call[c].got # "unsent") \in BOOLEAN
  BY DEF ProviderRecord
<1>4. f \in [kind : {"request_finished"}, index : Nat, entered : BOOLEAN,
      failure : Provider!Brought]
  BY <1>1, <1>3 DEF Provider!Finished
<1> QED BY <1>1, <1>2, <1>4 DEF Provider!Frame

\* An attempt is sealed: the one that was open has its answer.
LEMMA ProviderSealedStep ==
    ASSUME Provider!Bounds, Provider!ProviderInv, NEW c \in ProviderCalls,
           provider_call[c].pc = "seal", provider_call[c].got # "unclosed",
           frames' = [frames EXCEPT ![c] = Append(@, Provider!Finished(c))],
           UNCHANGED <<provider_broken, circuit, retries, posts, exposed>>,
           Provider!End(c, "release", "cancelled") \/ Provider!Goto(c, "judge")
    PROVE  Provider!ProviderInv'
<1>0. /\ provider_call[c].outcome # "receipt" /\ frames[c] # <<>>
         /\ provider_call[c] \in ProviderRecord
      /\ Provider!Opened(c) = provider_call[c].tries + 1
         /\ Provider!Closed(c) = provider_call[c].tries /\ provider_call[c].tries \in Nat
      /\ Provider!Matching(c) /\ Provider!Leased(c) /\ Provider!Bracketed(c) /\ posts[c] \in Nat
      /\ Provider!Cardinality(Provider!Entered(c)) \in Nat
  <2>1. Provider!Balanced(c) /\ Provider!Matching(c) /\ Provider!Leased(c)
        /\ Provider!Bracketed(c) /\ provider_call[c] \in ProviderRecord
    BY ProviderTallies
  <2>2. Provider!Opened(c) = provider_call[c].tries + 1
        /\ Provider!Closed(c) = provider_call[c].tries
    BY <2>1 DEF Provider!Balanced
  <2> QED BY <2>1, <2>2, ProviderTallies DEF Provider!Bracketed, ProviderRecord
<1>1. PICK f \in Provider!Frame : /\ f = Provider!Finished(c) /\ f.kind = "request_finished"
                                  /\ f.index = provider_call[c].tries + 1
                                     /\ f.entered = (provider_call[c].got # "unsent")
                                  /\ f.failure = provider_call[c].got
  BY <1>0, ProviderFinishedShape
<1>2. PICK r \in ProviderRecord : /\ provider_call' = [provider_call EXCEPT ![c] = r]
                                     /\ r.outcome # "receipt"
                                  /\ r.tries = provider_call[c].tries
                                     /\ r.leased = provider_call[c].leased
                                  /\ r.got = provider_call[c].got /\ r.pc \in {"judge", "release"}
  <2>1. CASE Provider!Goto(c, "judge")
    BY <1>0, <2>1, ProviderGotoShape DEF ProviderPcs, Provider!AtWork
  <2>2. CASE Provider!End(c, "release", "cancelled")
    BY <1>0, <2>2, ProviderEndShape DEF ProviderPcs, ProviderOutcomes, Provider!AtWork
  <2> QED BY <2>1, <2>2
<1>3. provider_call'[c] = r
  BY <1>2, ProviderTyped, ProviderRecordMoves
<1>4. PICK n \in Nat : ProviderGrown(c, f, n)
  BY <1>1, ProviderTyped, ProviderJournalGrows
<1>5. /\ Provider!Of(c, "request_started")' = Provider!Of(c, "request_started")
      /\ Provider!Of(c, "request_finished")' = Provider!Of(c, "request_finished") \cup {n}
      /\ Provider!Of(c, "call_finished")' = Provider!Of(c, "call_finished")
      /\ Provider!Cardinality(Provider!Of(c,
         "request_started")') = Provider!Cardinality(Provider!Of(c, "request_started"))
      /\ Provider!Cardinality(Provider!Of(c,
         "request_finished")') = Provider!Cardinality(Provider!Of(c, "request_finished")) + 1
      /\ Provider!Cardinality(Provider!Of(c,
         "call_started")') = Provider!Cardinality(Provider!Of(c, "call_started"))
  BY <1>1, <1>4 DEF ProviderGrown
<1>6. Provider!Cardinality(Provider!Entered(c)') = Provider!Cardinality(Provider!Entered(c)) + IF provider_call[c].got # "unsent" THEN 1 ELSE 0
  BY <1>0, <1>1, <1>4 DEF ProviderGrown
<1>7. /\ Provider!Sealed(c)' = Provider!Sealed(c) \cup {n}
         /\ Provider!Opened(c)' = provider_call[c].tries + 1
      /\ Provider!Closed(c)' = provider_call[c].tries + 1
  BY <1>0, <1>5 DEF Provider!Sealed, Provider!Of, Provider!Opened, Provider!Closed
<1>8. Provider!Balanced(c)'
  BY <1>2, <1>3, <1>7 DEF Provider!Balanced
<1>9. Provider!Matching(c)'
  <2>1. /\ Provider!Of(c, "request_started") \subseteq 1..Len(frames[c])
        /\ Provider!Sealed(c) \subseteq 1..Len(frames[c])
    BY ProviderTyped, ProviderPlacesAreFinite
  <2>2. \A i \in 1..Len(frames[c]) : frames'[c][i] = frames[c][i] /\ i < n
    BY <1>4 DEF ProviderGrown
  <2>3. frames'[c][n].index = provider_call[c].tries + 1 /\ frames'[c][n].failure # "unclosed"
    BY <1>1, <1>4 DEF ProviderGrown
  <2>4. {frames'[c][i].index : i \in Provider!Of(c, "request_started")'} = 1..Provider!Opened(c)'
    <3>1. {frames[c][i].index : i \in Provider!Of(c, "request_started")} = 1..Provider!Opened(c)
      BY <1>0 DEF Provider!Matching
    <3> QED BY <1>0, <1>5, <1>7, <2>1, <2>2, <3>1
  <2>5. ASSUME NEW i \in Provider!Of(c, "request_started")'
        PROVE  \E j \in Provider!Sealed(c)' : i < j /\ frames'[c][j].index = frames'[c][i].index
    <3>1. \/ \E j \in Provider!Sealed(c) : i < j /\ frames[c][j].index = frames[c][i].index
          \/ frames[c][i].index = provider_call[c].tries + 1
      BY <1>0, <1>5, <2>5 DEF Provider!Matching
    <3>2. frames'[c][i] = frames[c][i] /\ i < n
      BY <1>5, <2>1, <2>2, <2>5
    <3>3. CASE \E j \in Provider!Sealed(c) : i < j /\ frames[c][j].index = frames[c][i].index
      BY <1>7, <2>1, <2>2, <3>2, <3>3
    <3>4. CASE frames[c][i].index = provider_call[c].tries + 1
      BY <1>7, <2>3, <3>2, <3>4
    <3> QED BY <3>1, <3>3, <3>4
  <2>6. \A j \in Provider!Sealed(c)' : frames'[c][j].failure # "unclosed"
    BY <1>0, <1>7, <2>1, <2>2, <2>3 DEF Provider!Matching
  <2>7. posts'[c] = Provider!Cardinality(Provider!Entered(c)') + 0
    BY <1>0, <1>6 DEF Provider!Matching
  <2> QED BY <1>2, <1>3, <2>4, <2>5, <2>6, <2>7 DEF Provider!Matching
<1>10. Provider!Bracketed(c)'
  <2>1. Provider!Of(c, "call_finished") = {}
    BY <1>0 DEF Provider!Bracketed
  <2>2. frames'[c] # <<>>
    BY <1>4 DEF ProviderGrown
  <2> QED BY <1>0, <1>2, <1>3, <1>5, <2>1, <2>2 DEF Provider!Bracketed
<1>11. Provider!Leased(c)'
  BY <1>0, <1>2, <1>3 DEF Provider!Leased, Provider!AtWork
<1> QED BY <1>0, <1>2, <1>4, <1>8, <1>9, <1>10, <1>11, ProviderTyped, ProviderOneMoves,
    ProviderSameAllowance DEF ProviderGrown

LEMMA ProviderSealStep == ASSUME Provider!Bounds, Provider!ProviderInv, NEW c \in ProviderCalls,
                                 Provider!Seal(c) PROVE Provider!ProviderInv'
<1>0. /\ provider_call[c].pc = "seal" /\ provider_call[c].got # "unclosed"
      /\ UNCHANGED <<circuit, retries, posts, exposed>>
      /\ provider_call[c].outcome # "receipt" /\ frames[c] # <<>> /\ Provider!Balanced(c)
         /\ Provider!Leased(c)
      /\ provider_call[c] \in ProviderRecord /\ provider_call[c].tries \in Nat
  <2>1. /\ provider_call[c].pc = "seal" /\ provider_call[c].got # "unclosed"
        /\ UNCHANGED <<circuit, retries, posts, exposed>>
    BY DEF Provider!Seal, Provider!Env, Provider!History
  <2> QED BY <2>1, ProviderTallies DEF Provider!Bracketed, ProviderRecord
<1>1. CASE /\ provider_call[c].got = "unsent" /\ provider_broken /\ Provider!End(c, "release",
              "cancelled")
           /\ UNCHANGED <<frames, provider_broken>>
  <2>1. PICK r \in ProviderRecord : /\ provider_call' = [provider_call EXCEPT ![c] = r]
                                       /\ r.pc = "release"
                                    /\ r.tries = provider_call[c].tries /\ r.outcome = "cancelled"
                                    /\ r.leased = provider_call[c].leased
    BY <1>1, ProviderEndShape DEF ProviderPcs, ProviderOutcomes, Provider!AtWork
  <2>2. provider_call'[c] = r
    BY <2>1, ProviderTyped, ProviderRecordMoves
  <2>3. Provider!Balanced(c)'
    BY <1>0, <1>1, <2>1, <2>2, ProviderJournalRests DEF Provider!Balanced
  <2>4. Provider!Leased(c)'
    BY <1>0, <2>1, <2>2 DEF Provider!Leased, Provider!AtWork
  <2> QED BY <1>0, <1>1, <2>1, <2>3, <2>4, ProviderTyped, ProviderQuietStep, ProviderSameAllowance
<1>2. CASE /\ frames' = [frames EXCEPT ![c] = Append(@, Provider!Finished(c))]
              /\ UNCHANGED provider_broken
           /\ IF provider_call[c].cancelled THEN Provider!End(c, "release",
              "cancelled") ELSE Provider!Goto(c, "judge")
  BY <1>0, <1>2, ProviderSealedStep
<1>3. CASE /\ frames' \in {frames, [frames EXCEPT ![c] = Append(@, Provider!Finished(c))]}
              /\ provider_broken' = TRUE
           /\ Provider!End(c, "release", "receipt")
  <2>1. PICK r \in ProviderRecord : /\ provider_call' = [provider_call EXCEPT ![c] = r]
                                       /\ r.pc = "release" /\ r.outcome = "receipt"
                                    /\ r.tries = provider_call[c].tries
                                       /\ r.leased = provider_call[c].leased
    BY <1>3, ProviderEndShape DEF ProviderPcs, ProviderOutcomes, Provider!AtWork
  <2>2. Provider!Finished(c) \in Provider!Frame /\ Provider!Finished(c).kind = "request_finished"
    BY <1>0, ProviderFinishedShape
  <2> QED BY <1>0, <1>3, <2>1, <2>2, ProviderLatchStep
<1> QED BY <1>1, <1>2, <1>3 DEF Provider!Seal, Provider!Append1

LEMMA ProviderSealUnclosedStep == ASSUME Provider!Bounds, Provider!ProviderInv,
    NEW c \in ProviderCalls, Provider!SealUnclosed(c) PROVE Provider!ProviderInv'
<1>0. /\ provider_call[c].pc = "seal" /\ UNCHANGED <<circuit, retries, posts, exposed>>
         /\ frames[c] # <<>>
      /\ provider_broken' = TRUE /\ frames' \in {frames, [frames EXCEPT ![c] = Append(@,
         Provider!Finished(c))]}
  <2>1. provider_call[c].pc = "seal" /\ UNCHANGED <<circuit, retries, posts, exposed>>
    BY DEF Provider!SealUnclosed, Provider!Env, Provider!History
  <2> QED BY <2>1, ProviderTallies DEF Provider!Bracketed, Provider!SealUnclosed
<1>1. PICK r \in ProviderRecord : /\ provider_call' = [provider_call EXCEPT ![c] = r]
                                     /\ r.pc = "release" /\ r.outcome = "receipt"
                                  /\ r.tries = provider_call[c].tries
                                     /\ r.leased = provider_call[c].leased
  BY ProviderEndShape DEF Provider!SealUnclosed, ProviderPcs, ProviderOutcomes, Provider!AtWork
<1>2. Provider!Finished(c) \in Provider!Frame /\ Provider!Finished(c).kind = "request_finished"
  BY ProviderTallies, ProviderFinishedShape
<1> QED BY <1>0, <1>1, <1>2, ProviderLatchStep

\* The answer of the last attempt ends the call.
LEMMA ProviderLeaveStep ==
    ASSUME Provider!Bounds, Provider!ProviderInv, NEW c \in ProviderCalls,
           provider_call[c].pc = "judge",
           NEW out \in {"returned", "failed"}, Provider!End(c, "release", out),
           UNCHANGED <<frames, provider_broken, retries, posts, exposed>>,
           circuit' \in [failures : Nat, cooled : BOOLEAN,
               probe : ProviderCalls \cup {Provider!NoCall}],
           circuit'.probe \in {Provider!NoCall, circuit.probe}
    PROVE  Provider!ProviderInv'
<1>0. provider_call[c].outcome # "receipt" /\ Provider!Balanced(c) /\ Provider!Leased(c)
  BY ProviderTallies DEF Provider!Bracketed
<1>1. PICK r \in ProviderRecord : /\ provider_call' = [provider_call EXCEPT ![c] = r]
                                     /\ r.pc = "release"
                                  /\ r.tries = provider_call[c].tries /\ r.outcome = out
                                  /\ r.leased = provider_call[c].leased
  BY ProviderEndShape DEF ProviderPcs, ProviderOutcomes, Provider!AtWork
<1>2. provider_call'[c] = r
  BY <1>1, ProviderTyped, ProviderRecordMoves
<1>3. Provider!Balanced(c)'
  BY <1>0, <1>1, <1>2, ProviderJournalRests DEF Provider!Balanced
<1>4. Provider!Leased(c)'
  <2>1. circuit'.probe = c => circuit.probe = c
    BY DEF Provider!Bounds
  <2> QED BY <1>0, <1>1, <1>2, <2>1 DEF Provider!Leased, Provider!AtWork
<1> QED BY <1>0, <1>1, <1>3, <1>4, ProviderTyped, ProviderQuietStep, ProviderSameAllowance

LEMMA ProviderJudgedStep ==
    ASSUME Provider!Bounds, Provider!ProviderInv, NEW c \in ProviderCalls, Provider!Succeed(c)
           \/ Provider!GiveUp(c) \/ Provider!Raise(c)
    PROVE  Provider!ProviderInv'
<1>1. CASE Provider!Succeed(c)
  <2>1. /\ circuit' \in [failures : Nat, cooled : BOOLEAN,
           probe : ProviderCalls \cup {Provider!NoCall}]
        /\ circuit'.probe \in {Provider!NoCall, circuit.probe}
    BY <1>1, ProviderTyped DEF Provider!Succeed
  <2> QED BY <1>1, <2>1, ProviderLeaveStep DEF Provider!Succeed, Provider!History
<1>2. CASE Provider!GiveUp(c)
  <2>1. /\ circuit' \in [failures : Nat, cooled : BOOLEAN,
           probe : ProviderCalls \cup {Provider!NoCall}]
        /\ circuit'.probe \in {Provider!NoCall, circuit.probe}
    <3>1. Provider!Count(c)
      BY <1>2 DEF Provider!GiveUp
    <3>2. circuit.failures + 1 \in Nat /\ circuit.cooled \in BOOLEAN
      BY ProviderTyped
    <3>3. PICK cooled \in BOOLEAN :
              cooled = IF circuit.failures + 1 >= Threshold THEN FALSE ELSE circuit.cooled
      BY <3>2
    <3>4. \/ circuit' = circuit
          \/ circuit' = [failures |-> circuit.failures + 1, cooled |-> cooled,
             probe |-> Provider!NoCall]
      BY <3>1, <3>3 DEF Provider!Count
    <3> QED BY <3>2, <3>4, ProviderTyped
  <2> QED BY <1>2, <2>1, ProviderLeaveStep DEF Provider!GiveUp, Provider!History
<1>3. CASE Provider!Raise(c)
  BY <1>3, ProviderTyped, ProviderLeaveStep DEF Provider!Raise, Provider!Env, Provider!History
<1> QED BY <1>1, <1>2, <1>3

\* A retry is one of the segment's, and follows a sealed attempt.
LEMMA ProviderRetryStep == ASSUME Provider!Bounds, Provider!ProviderInv, NEW c \in ProviderCalls,
                                  Provider!Retry(c) PROVE Provider!ProviderInv'
<1>0. /\ provider_call[c].pc = "judge" /\ provider_call[c].got = "retryable" /\ retries > 0
         /\ retries' = retries - 1
      /\ UNCHANGED <<frames, provider_broken, circuit, posts, exposed>>
      /\ provider_call[c].tries + 1 < MaxAttempts
      /\ provider_call' = [provider_call EXCEPT ![c].pc = "backoff", ![c].tries = @ + 1]
  BY DEF Provider!Retry, Provider!MayRetry, Provider!Retryable, Provider!History
<1>1. /\ provider_call[c] \in ProviderRecord /\ provider_call[c].tries \in Nat
         /\ provider_call[c].outcome # "receipt"
      /\ Provider!Balanced(c) /\ Provider!Leased(c) /\ retries \in Nat
  BY <1>0, ProviderTallies, ProviderTyped DEF Provider!Bracketed, ProviderRecord
<1>2. PICK r : r = [provider_call[c] EXCEPT !.pc = "backoff", !.tries = @ + 1]
  OBVIOUS
<1>3. /\ r \in ProviderRecord /\ r.pc = "backoff" /\ r.tries = provider_call[c].tries + 1
      /\ r.outcome = provider_call[c].outcome /\ r.leased = provider_call[c].leased
  <2>1. "backoff" \in ProviderPcs
    BY DEF ProviderPcs, Provider!AtWork
  <2>2. PICK n \in Nat : n = provider_call[c].tries + 1
    BY <1>1
  <2>3. r = [provider_call[c] EXCEPT !.pc = "backoff", !.tries = n]
    BY <1>1, <1>2, <2>2 DEF ProviderRecord
  <2> QED BY <1>1, <2>1, <2>2, <2>3 DEF ProviderRecord
<1>4. provider_call' = [provider_call EXCEPT ![c] = r]
  BY <1>0, <1>2, ProviderTyped
<1>5. provider_call'[c] = r /\ \A d \in ProviderCalls : d # c
      => provider_call'[d] = provider_call[d]
  BY <1>3, <1>4, ProviderTyped, ProviderRecordMoves
<1>6. Provider!Balanced(c)'
  BY <1>0, <1>1, <1>3, <1>5, ProviderJournalRests DEF Provider!Balanced
<1>7. Provider!Leased(c)'
  <2>1. c \notin exposed
    BY <1>0, <1>1 DEF Provider!Leased
  <2>2. circuit.probe = c => provider_call[c].leased
    BY <1>1 DEF Provider!Leased
  <2>3. posts[c] <= provider_call[c].tries + 1 /\ posts[c] \in Nat
    BY <1>0, <1>1, ProviderTyped DEF Provider!Leased
  <2> QED BY <1>0, <1>3, <1>5, <2>1, <2>2, <2>3 DEF Provider!Leased, Provider!AtWork
<1>8. Provider!Allowance'
  <2>1. PICK a : a = <<c, provider_call[c].tries + 1>>
    OBVIOUS
  <2>2. a \in ProviderCalls \X (1..MaxAttempts) /\ a \notin Provider!Taken
    BY <1>0, <1>1, <2>1 DEF Provider!Taken, Provider!Bounds
  <2>3. Provider!Taken' = Provider!Taken \cup {a}
    <3> SUFFICES ASSUME NEW d \in ProviderCalls, NEW i \in 1..MaxAttempts
                 PROVE  i <= provider_call'[d].tries <=> i <= provider_call[d].tries \/ <<d, i>> = a
      BY <2>2 DEF Provider!Taken
    <3>1. CASE d = c
      BY <1>1, <1>3, <1>5, <2>1, <3>1 DEF Provider!Bounds
    <3>2. CASE d # c
      BY <1>5, <2>1, <3>2
    <3> QED BY <3>1, <3>2
  <2>4. Provider!IsFiniteSet(Provider!Taken)
    <3>1. Provider!IsFiniteSet(ProviderCalls \X (1..MaxAttempts))
      <4>1. Provider!IsFiniteSet(ProviderCalls) /\ Provider!IsFiniteSet(1..MaxAttempts)
        BY FS_Interval, ProviderFinite DEF Provider!Bounds
      <4> QED BY <4>1, FS_Product, ProviderFinite
    <3> QED BY <3>1, FS_Subset, ProviderFinite DEF Provider!Taken
  <2>5. Provider!Cardinality(Provider!Taken') = Provider!Cardinality(Provider!Taken) + 1
        /\ Provider!Cardinality(Provider!Taken) \in Nat
    BY <2>2, <2>3, <2>4, FS_AddElement, ProviderFinite, FS_CardinalityType, ProviderFinite
  <2>6. Provider!Allowance
    BY DEF Provider!ProviderInv
  <2> QED BY <1>0, <1>1, <2>5, <2>6 DEF Provider!Allowance, Provider!Bounds
<1>9. retries' \in Nat
  BY <1>0, <1>1
<1> QED BY <1>0, <1>1, <1>3, <1>4, <1>6, <1>7, <1>8, <1>9, ProviderTyped, ProviderQuietStep

LEMMA ProviderBackoffStep == ASSUME Provider!Bounds, Provider!ProviderInv,
                                    NEW c \in ProviderCalls, Provider!Backoff(c)
                                        PROVE Provider!ProviderInv'
<1>0. /\ provider_call[c].pc = "backoff" /\ UNCHANGED <<frames, provider_broken, circuit, retries,
                                                        posts, exposed>>
      /\ provider_call[c].outcome # "receipt" /\ Provider!Balanced(c) /\ Provider!Leased(c)
  <2>1. provider_call[c].pc = "backoff" /\ UNCHANGED <<frames, provider_broken, circuit, retries,
                                                       posts, exposed>>
    BY DEF Provider!Backoff, Provider!Env, Provider!History
  <2> QED BY <2>1, ProviderTallies DEF Provider!Bracketed
<1>1. PICK r \in ProviderRecord : /\ provider_call' = [provider_call EXCEPT ![c] = r]
                                     /\ r.pc \in {"release", "begin"}
                                  /\ r.tries = provider_call[c].tries /\ r.outcome # "receipt"
                                  /\ r.leased = provider_call[c].leased
  <2>1. CASE Provider!End(c, "release", "cancelled")
    BY <2>1, ProviderEndShape DEF ProviderPcs, ProviderOutcomes, Provider!AtWork
  <2>2. CASE Provider!Goto(c, "begin")
    BY <1>0, <2>2, ProviderGotoShape DEF ProviderPcs, Provider!AtWork
  <2> QED BY <2>1, <2>2 DEF Provider!Backoff
<1>2. provider_call'[c] = r
  BY <1>1, ProviderTyped, ProviderRecordMoves
<1>3. Provider!Balanced(c)'
  BY <1>0, <1>1, <1>2, ProviderJournalRests DEF Provider!Balanced
<1>4. Provider!Leased(c)'
  BY <1>0, <1>1, <1>2 DEF Provider!Leased, Provider!AtWork
<1> QED BY <1>0, <1>1, <1>3, <1>4, ProviderTyped, ProviderQuietStep, ProviderSameAllowance

\* A call gives its slot back, and only its own.
LEMMA ProviderReleaseStep == ASSUME Provider!Bounds, Provider!ProviderInv,
                                    NEW c \in ProviderCalls, Provider!Release(c)
                                        PROVE Provider!ProviderInv'
<1>0. /\ provider_call[c].pc = "release" /\ UNCHANGED <<frames, provider_broken, retries, posts,
                                                        exposed>>
      /\ circuit' = IF circuit.probe = c THEN [circuit EXCEPT !.probe = Provider!NoCall] ELSE circuit
      /\ Provider!Balanced(c) /\ Provider!Leased(c) /\ (provider_call[c].outcome = "receipt"
         => provider_broken)
      /\ frames[c] = <<>> => provider_call[c].outcome = "receipt"
  <2>1. /\ provider_call[c].pc = "release" /\ UNCHANGED <<frames, provider_broken, retries, posts,
                                                          exposed>>
        /\ circuit' = IF circuit.probe = c THEN [circuit EXCEPT !.probe = Provider!NoCall] ELSE circuit
    BY DEF Provider!Release, Provider!History
  <2> QED BY <2>1, ProviderTallies DEF Provider!Bracketed
<1>1. /\ circuit' \in [failures : Nat, cooled : BOOLEAN,
         probe : ProviderCalls \cup {Provider!NoCall}]
      /\ circuit'.probe \in {Provider!NoCall, circuit.probe} /\ circuit'.probe # c
  BY <1>0, ProviderTyped DEF Provider!Bounds
<1>2. PICK r \in ProviderRecord : /\ provider_call' = [provider_call EXCEPT ![c] = r]
                                  /\ r.pc = IF provider_call[c].outcome = "receipt" THEN "retire" ELSE "finish"
                                  /\ r.tries = provider_call[c].tries
                                     /\ r.outcome = provider_call[c].outcome
                                  /\ r.leased = provider_call[c].leased
  <2>1. PICK pc \in ProviderPcs : pc = IF provider_call[c].outcome = "receipt" THEN "retire" ELSE "finish"
    BY DEF ProviderPcs
  <2> QED BY <2>1, ProviderGotoShape DEF Provider!Release
<1>3. CASE provider_call[c].outcome = "receipt"
  BY <1>0, <1>1, <1>2, <1>3, ProviderLatchMove, ProviderTyped
<1>4. CASE provider_call[c].outcome # "receipt"
  <2>1. provider_call'[c] = r
    BY <1>2, ProviderTyped, ProviderRecordMoves
  <2>2. Provider!Balanced(c)'
    BY <1>0, <1>2, <1>4, <2>1, ProviderJournalRests DEF Provider!Balanced
  <2>3. Provider!Leased(c)'
    BY <1>0, <1>1, <1>2, <1>4, <2>1 DEF Provider!Leased, Provider!AtWork
  <2> QED BY <1>0, <1>1, <1>2, <1>4, <2>2, <2>3, ProviderTyped, ProviderQuietStep,
      ProviderSameAllowance
<1> QED BY <1>3, <1>4

LEMMA ProviderSummaryShape ==
    ASSUME NEW c \in ProviderCalls, Provider!Closed(c) \in Nat,
           Provider!Cardinality(Provider!Entered(c)) \in Nat,
           provider_call[c].outcome \in {"failed", "returned", "cancelled"}
    PROVE  /\ Provider!Summary(c) \in Provider!Frame /\ Provider!Summary(c).kind = "call_finished"
           /\ Provider!Summary(c).sealed = Provider!Closed(c)
              /\ Provider!Summary(c).entered = Provider!Cardinality(Provider!Entered(c))
<1>1. Provider!Summary(c) \in [kind : {"call_finished"}, sealed : Nat, entered : Nat,
                      outcome : {"failed", "returned", "cancelled"}]
  BY DEF Provider!Summary, Provider!Closed
<1> QED BY <1>1 DEF Provider!Frame, Provider!Summary, Provider!Closed

\* The summary is written when nothing is open, or the latch is set.
LEMMA ProviderFinishStep == ASSUME Provider!Bounds, Provider!ProviderInv, NEW c \in ProviderCalls,
                                   Provider!Finish(c) PROVE Provider!ProviderInv'
<1>0. /\ provider_call[c].pc = "finish" /\ UNCHANGED <<circuit, retries, posts, exposed>>
         /\ Provider!Goto(c, "done")
      /\ \/ provider_call[c].outcome = "cancelled" /\ provider_broken /\ UNCHANGED <<frames,
                                                                                     provider_broken>>
         \/ /\ ~(provider_call[c].outcome = "cancelled" /\ provider_broken)
            /\ frames' = [frames EXCEPT ![c] = Append(@, Provider!Summary(c))]
               /\ (provider_broken' = provider_broken \/ provider_broken' = TRUE)
         \/ UNCHANGED frames /\ provider_broken' = TRUE
  BY DEF Provider!Finish, Provider!Env, Provider!History, Provider!Append1
<1>1. /\ Provider!Balanced(c) /\ Provider!Matching(c) /\ Provider!Bracketed(c) /\ Provider!Leased(c)
      /\ provider_call[c] \in ProviderRecord /\ provider_call[c].outcome # "receipt"
         /\ circuit.probe # c
      /\ frames[c] # <<>> /\ Provider!Opened(c) \in Nat /\ Provider!Closed(c) \in Nat
      /\ Provider!Cardinality(Provider!Entered(c)) \in Nat /\ posts[c] \in Nat
  BY <1>0, ProviderTallies DEF Provider!Bracketed, Provider!Leased, Provider!AtWork
<1>2. PICK r \in ProviderRecord : /\ provider_call' = [provider_call EXCEPT ![c] = r]
                                     /\ r.pc = "done"
                                  /\ r.tries = provider_call[c].tries
                                     /\ r.outcome = provider_call[c].outcome
  BY <1>0, ProviderGotoShape DEF ProviderPcs
<1>3. provider_call'[c] = r
  BY <1>2, ProviderTyped, ProviderRecordMoves
<1>4. Provider!Leased(c)'
  BY <1>0, <1>1, <1>2, <1>3 DEF Provider!Leased
<1>5. CASE UNCHANGED frames /\ provider_broken' = TRUE
  <2>1. Provider!Balanced(c)'
    BY <1>0, <1>1, <1>2, <1>3, <1>5, ProviderJournalRests DEF Provider!Balanced
  <2>2. Provider!Matching(c)'
    BY <1>0, <1>1, <1>2, <1>3, <1>5, ProviderJournalRests DEF Provider!Matching
  <2>3. Provider!Of(c, "call_finished")' = {}
    BY <1>0, <1>1, <1>5, ProviderJournalRests DEF Provider!Bracketed
  <2>4. Provider!Bracketed(c)'
    BY <1>0, <1>1, <1>2, <1>3, <1>5, <2>3, ProviderJournalRests DEF Provider!Bracketed
  <2> QED BY <1>0, <1>2, <1>4, <1>5, <2>1, <2>2, <2>4, ProviderTyped, ProviderOneMoves,
      ProviderSameAllowance
<1>6. CASE /\ ~(provider_call[c].outcome = "cancelled" /\ provider_broken)
           /\ frames' = [frames EXCEPT ![c] = Append(@, Provider!Summary(c))]
              /\ (provider_broken' = provider_broken \/ provider_broken' = TRUE)
  <2>0. provider_call[c].outcome \in {"failed", "returned", "cancelled"}
        /\ Provider!Opened(c) = Provider!Closed(c)
    BY <1>0, <1>1, <1>6 DEF ProviderRecord, ProviderOutcomes, Provider!Balanced
  <2>1. PICK f \in Provider!Frame : /\ f = Provider!Summary(c) /\ f.kind = "call_finished"
                                    /\ f.sealed = Provider!Closed(c)
                                       /\ f.entered = Provider!Cardinality(Provider!Entered(c))
    BY <1>1, <2>0, ProviderSummaryShape
  <2>2. PICK n \in Nat : ProviderGrown(c, f, n)
    BY <1>6, <2>1, ProviderTyped, ProviderJournalGrows
  <2>3. /\ Provider!Of(c, "request_started")' = Provider!Of(c, "request_started")
        /\ Provider!Of(c, "request_finished")' = Provider!Of(c, "request_finished")
        /\ Provider!Of(c, "call_finished")' = Provider!Of(c, "call_finished") \cup {n}
        /\ Provider!Cardinality(Provider!Of(c,
           "request_started")') = Provider!Cardinality(Provider!Of(c, "request_started"))
        /\ Provider!Cardinality(Provider!Of(c,
           "request_finished")') = Provider!Cardinality(Provider!Of(c, "request_finished"))
        /\ Provider!Cardinality(Provider!Of(c,
           "call_started")') = Provider!Cardinality(Provider!Of(c, "call_started"))
        /\ Provider!Cardinality(Provider!Of(c,
           "call_finished")') = Provider!Cardinality(Provider!Of(c, "call_finished")) + 1
    <3>1. \A kind : Provider!Cardinality(Provider!Of(c, kind)) \in Nat
      BY ProviderTyped, ProviderPlacesAreFinite
    <3> QED BY <2>1, <2>2, <3>1 DEF ProviderGrown
  <2>4. Provider!Cardinality(Provider!Entered(c)') = Provider!Cardinality(Provider!Entered(c))
    BY <1>1, <2>1, <2>2 DEF ProviderGrown
  <2>5. Provider!Sealed(c)' = Provider!Sealed(c) /\ Provider!Opened(c)' = Provider!Opened(c)
        /\ Provider!Closed(c)' = Provider!Closed(c)
    BY <1>1, <2>3 DEF Provider!Sealed, Provider!Of, Provider!Opened, Provider!Closed
  <2>6. Provider!Balanced(c)'
    BY <1>2, <1>3, <2>0, <2>5 DEF Provider!Balanced
  <2>7. /\ Provider!Of(c, "request_started") \subseteq 1..Len(frames[c])
        /\ Provider!Sealed(c) \subseteq 1..Len(frames[c])
    BY ProviderTyped, ProviderPlacesAreFinite
  <2>8. /\ \A i \in 1..Len(frames[c]) : frames'[c][i] = frames[c][i] /\ i < n
        /\ frames'[c][n] = f /\ frames'[c] # <<>>
    BY <2>2 DEF ProviderGrown
  <2>9. Provider!Matching(c)'
    <3>1. {frames'[c][i].index : i \in Provider!Of(c, "request_started")'} = 1..Provider!Opened(c)'
      <4>1. {frames[c][i].index : i \in Provider!Of(c, "request_started")} = 1..Provider!Opened(c)
        BY <1>1 DEF Provider!Matching
      <4> QED BY <2>3, <2>5, <2>7, <2>8, <4>1
    <3>2. ASSUME NEW i \in Provider!Of(c, "request_started")'
          PROVE  \E j \in Provider!Sealed(c)' : i < j /\ frames'[c][j].index = frames'[c][i].index
      <4>1. PICK j \in Provider!Sealed(c) : i < j /\ frames[c][j].index = frames[c][i].index
        BY <1>1, <2>0, <2>3, <3>2 DEF Provider!Matching
      <4> QED BY <2>3, <2>5, <2>7, <2>8, <3>2, <4>1
    <3>3. \A j \in Provider!Sealed(c)' : frames'[c][j].failure # "unclosed"
      BY <1>1, <2>5, <2>7, <2>8 DEF Provider!Matching
    <3>4. posts'[c] = Provider!Cardinality(Provider!Entered(c)') + 0
      BY <1>0, <1>1, <2>4 DEF Provider!Matching
    <3> QED BY <1>2, <1>3, <3>1, <3>2, <3>3, <3>4 DEF Provider!Matching
  <2>10. Provider!Bracketed(c)'
    <3>1. Provider!Of(c, "call_finished") = {}
      BY <1>0, <1>1 DEF Provider!Bracketed
    <3>2. Provider!Of(c, "call_finished")' = {n} /\ Provider!Cardinality(Provider!Of(c,
          "call_finished")') = 1
      BY <2>3, <3>1, FS_EmptySet, ProviderFinite
    <3>3. \A j \in Provider!Sealed(c)' : j < n
      BY <2>5, <2>7, <2>8
    <3>4. Provider!Cardinality(Provider!Of(c, "call_started")') = 1
      BY <1>1, <2>3 DEF Provider!Bracketed
    <3> QED BY <1>1, <1>2, <1>3, <2>0, <2>1, <2>4, <2>5, <2>8, <3>2, <3>3, <3>4 DEF
        Provider!Bracketed
  <2>11. /\ provider_broken' \in BOOLEAN /\ (provider_broken => provider_broken')
         /\ frames' \in [ProviderCalls -> Seq(Provider!Frame)] /\ \A d \in ProviderCalls : d # c
            => frames'[d] = frames[d]
    <3>1. provider_broken' \in BOOLEAN /\ (provider_broken => provider_broken')
      <4>1. provider_broken \in BOOLEAN
        BY ProviderTyped
      <4>2. CASE provider_broken' = TRUE
        BY <4>2
      <4>3. CASE provider_broken' = provider_broken
        BY <4>1, <4>3
      <4> QED BY <1>6, <4>2, <4>3
    <3>2. frames' \in [ProviderCalls -> Seq(Provider!Frame)] /\ \A d \in ProviderCalls : d # c
          => frames'[d] = frames[d]
      BY <2>2 DEF ProviderGrown
    <3> QED BY <3>1, <3>2
  <2>12. Provider!Allowance'
    BY <1>0, <1>2, ProviderSameAllowance
  <2> QED BY <1>0, <1>2, <1>4, <2>6, <2>9, <2>10, <2>11, <2>12, ProviderTyped, ProviderOneMoves
<1> QED BY <1>0, <1>5, <1>6

LEMMA ProviderRetireStep == ASSUME Provider!Bounds, Provider!ProviderInv, NEW c \in ProviderCalls,
                                   Provider!Retire(c) PROVE Provider!ProviderInv'
<1>0. /\ provider_call[c].pc = "retire" /\ provider_broken' = TRUE /\ UNCHANGED <<frames, circuit,
                                                                                  retries, posts,
                                                                                      exposed>>
      /\ provider_call[c].outcome = "receipt" /\ circuit.probe # c
  <2>1. provider_call[c].pc = "retire" /\ provider_broken' = TRUE /\ UNCHANGED <<frames, circuit,
                                                                                 retries, posts,
                                                                                     exposed>>
    BY DEF Provider!Retire, Provider!Env, Provider!History
  <2> QED BY <2>1, ProviderTallies DEF Provider!Bracketed, Provider!Leased, Provider!AtWork
<1>1. PICK r \in ProviderRecord : /\ provider_call' = [provider_call EXCEPT ![c] = r]
                                     /\ r.pc = "done"
                                  /\ r.tries = provider_call[c].tries
                                     /\ r.outcome = provider_call[c].outcome
                                  /\ r.leased = provider_call[c].leased
  BY ProviderGotoShape DEF Provider!Retire, ProviderPcs
<1> QED BY <1>0, <1>1, ProviderLatchStep

LEMMA ProviderCancelStep == ASSUME Provider!Bounds, Provider!ProviderInv, NEW c \in ProviderCalls,
                                   Provider!Cancel(c) PROVE Provider!ProviderInv'
<1>0. /\ UNCHANGED <<frames, provider_broken, circuit, retries, posts, exposed>>
      /\ provider_call' = [provider_call EXCEPT ![c].cancelled = TRUE]
  BY DEF Provider!Cancel, Provider!Env, Provider!History
<1>1. PICK r : r = [provider_call[c] EXCEPT !.cancelled = TRUE]
  OBVIOUS
<1>2. /\ r \in ProviderRecord /\ r.pc = provider_call[c].pc /\ r.tries = provider_call[c].tries
         /\ r.outcome = provider_call[c].outcome
      /\ r.got = provider_call[c].got /\ r.leased = provider_call[c].leased
  BY <1>1, ProviderTyped DEF ProviderRecord
<1>3. provider_call' = [provider_call EXCEPT ![c] = r]
  BY <1>0, <1>1, ProviderTyped
<1>4. provider_call'[c] = r
  BY <1>2, <1>3, ProviderTyped, ProviderRecordMoves
<1>5. Provider!Balanced(c)'
  BY <1>0, <1>2, <1>4, ProviderTallies, ProviderJournalRests DEF Provider!Balanced
<1>6. Provider!Matching(c)'
  BY <1>0, <1>2, <1>4, ProviderTallies, ProviderJournalRests DEF Provider!Matching
<1>7. Provider!Bracketed(c)'
  BY <1>0, <1>2, <1>4, ProviderTallies, ProviderJournalRests DEF Provider!Bracketed
<1>8. Provider!Leased(c)'
  BY <1>0, <1>2, <1>4, ProviderTallies DEF Provider!Leased
<1> QED BY <1>0, <1>2, <1>3, <1>5, <1>6, <1>7, <1>8, ProviderTyped, ProviderOneMoves,
    ProviderSameAllowance

LEMMA ProviderCoolStep == ASSUME Provider!ProviderInv, Provider!Cool
                                 \/ UNCHANGED Provider!vars PROVE Provider!ProviderInv'
<1>0. /\ UNCHANGED <<provider_call, frames, provider_broken, retries, posts, exposed>>
      /\ circuit' = circuit \/ circuit' = [circuit EXCEPT !.cooled = TRUE]
  BY DEF Provider!Cool, Provider!History, Provider!vars
<1>1. Provider!ProviderTypes'
  BY <1>0, ProviderTyped DEF Provider!ProviderInv, Provider!ProviderTypes
<1>2. circuit'.probe = circuit.probe
  BY <1>0, ProviderTyped
<1>3. \A c \in ProviderCalls : Provider!Balanced(c)' /\ Provider!Matching(c)'
      /\ Provider!Bracketed(c)' /\ Provider!Leased(c)'
  BY <1>0, <1>2, ProviderOthersRest
<1>4. Provider!Allowance'
  BY <1>0 DEF Provider!ProviderInv, Provider!Allowance, Provider!Taken
<1> QED BY <1>1, <1>3, <1>4 DEF Provider!ProviderInv

LEMMA ProviderInitInv == ASSUME Provider!Bounds, Provider!Init PROVE Provider!ProviderInv
<1>1. \A c \in ProviderCalls : /\ provider_call[c] = Provider!Idle /\ frames[c] = <<>>
                                  /\ posts[c] = 0
                               /\ circuit.probe # c /\ c \notin exposed
  BY DEF Provider!Init, Provider!Bounds
<1>2. Provider!Idle \in ProviderRecord
  BY DEF Provider!Idle, ProviderRecord, ProviderPcs, ProviderOutcomes, Provider!Brought
<1>3. Provider!ProviderTypes
  <2>1. provider_call \in [ProviderCalls -> ProviderRecord]
        /\ frames \in [ProviderCalls -> Seq(Provider!Frame)] /\ posts \in [ProviderCalls -> Nat]
    BY <1>2 DEF Provider!Init
  <2>2. circuit \in [failures : Nat, cooled : BOOLEAN, probe : ProviderCalls \cup {Provider!NoCall}]
    BY DEF Provider!Init
  <2> QED BY <2>1, <2>2 DEF Provider!Init, Provider!ProviderTypes, ProviderRecord, ProviderPcs,
      ProviderOutcomes, Provider!Bounds
<1>4. \A c \in ProviderCalls : Provider!Balanced(c) /\ Provider!Matching(c)
      /\ Provider!Bracketed(c) /\ Provider!Leased(c)
  <2> SUFFICES ASSUME NEW c \in ProviderCalls PROVE Provider!Balanced(c) /\ Provider!Matching(c)
      /\ Provider!Bracketed(c) /\ Provider!Leased(c)
    OBVIOUS
  <2>1. /\ \A kind : Provider!Of(c, kind) = {} /\ Provider!Cardinality(Provider!Of(c, kind)) = 0
        /\ Provider!Sealed(c) = {} /\ Provider!Opened(c) = 0 /\ Provider!Closed(c) = 0
           /\ Provider!Cardinality(Provider!Entered(c)) = 0
    BY <1>1, ProviderBlank DEF Provider!Sealed, Provider!Of, Provider!Opened, Provider!Closed
  <2>2. Provider!Balanced(c)
    BY <1>1, <2>1 DEF Provider!Balanced, Provider!Idle
  <2>3. Provider!Matching(c)
    BY <1>1, <2>1 DEF Provider!Matching, Provider!Idle
  <2>4. Provider!Bracketed(c)
    BY <1>1, <2>1 DEF Provider!Bracketed, Provider!Idle
  <2>5. Provider!Leased(c)
    BY <1>1 DEF Provider!Leased, Provider!Idle
  <2> QED BY <2>2, <2>3, <2>4, <2>5
<1>5. Provider!Allowance
  <2>1. Provider!Taken = {}
    BY <1>1 DEF Provider!Taken, Provider!Idle
  <2> QED BY <2>1, FS_EmptySet, ProviderFinite DEF Provider!Allowance, Provider!Init,
      Provider!Bounds
<1> QED BY <1>3, <1>4, <1>5 DEF Provider!ProviderInv

LEMMA ProviderNextStep == ASSUME Provider!Bounds, Provider!ProviderInv,
                                 [Provider!Next]_(Provider!vars) PROVE Provider!ProviderInv'
<1>1. CASE Provider!Cool \/ UNCHANGED Provider!vars
  BY <1>1, ProviderCoolStep
<1>2. ASSUME NEW c \in ProviderCalls,
             Provider!Start(c) \/ Provider!Fenced(c) \/ Provider!Enter(c) \/ Provider!Begin(c)
                 \/ Provider!Post(c) \/ Provider!Seal(c) \/ Provider!SealUnclosed(c)
      PROVE  Provider!ProviderInv'
  BY <1>2, ProviderStartStep, ProviderFencedStep, ProviderEnterStep, ProviderBeginStep,
     ProviderPostStep, ProviderSealStep, ProviderSealUnclosedStep
<1>3. ASSUME NEW c \in ProviderCalls,
             Provider!Succeed(c) \/ Provider!Retry(c) \/ Provider!Backoff(c)
                 \/ Provider!GiveUp(c) \/ Provider!Raise(c) \/ Provider!Release(c)
             \/ Provider!Finish(c) \/ Provider!Retire(c) \/ Provider!Cancel(c)
      PROVE  Provider!ProviderInv'
  BY <1>3, ProviderJudgedStep, ProviderRetryStep, ProviderBackoffStep, ProviderReleaseStep,
     ProviderFinishStep, ProviderRetireStep, ProviderCancelStep
<1> QED BY <1>1, <1>2, <1>3 DEF Provider!Next

\* An accepted journal accounts for every transport method that was entered, and a
\* life without a fault leaves one.
LEMMA ProviderAccountsFor == ASSUME Provider!Bounds, Provider!ProviderInv
                                    PROVE Provider!ReceiptsDecide
<1>1. \A c \in ProviderCalls : Provider!Closed(c) = Provider!Cardinality(Provider!Sealed(c))
      /\ Provider!Sealed(c) = Provider!Of(c, "request_finished")
  BY DEF Provider!Closed, Provider!Sealed, Provider!Of
<1>2. Provider!NothingPaidIsLost
  <2> SUFFICES ASSUME ~Provider!Quarantined, NEW c \in ProviderCalls
               PROVE  /\ posts[c] = Provider!Cardinality(Provider!Entered(c))
                      /\ provider_call[c].pc \in {"post", "seal"} => frames[c] = <<>>
    BY DEF Provider!NothingPaidIsLost
  <2>1. CASE frames[c] = <<>>
    BY <2>1, ProviderBlank, ProviderTallies DEF Provider!Bracketed
  <2>2. CASE frames[c] # <<>>
    <3>1. Provider!Cardinality(Provider!Of(c, "call_finished")) = 1
      BY <2>2 DEF Provider!Quarantined, Provider!Matched
    <3>2. PICK k : k \in Provider!Of(c, "call_finished")
      BY <3>1, FS_EmptySet, ProviderFinite
    <3>3. provider_call[c].pc = "done" /\ provider_call[c].outcome # "receipt"
      BY <3>2, ProviderTallies DEF Provider!Bracketed
    <3> QED BY <3>3, ProviderTallies DEF Provider!Matching
  <2> QED BY <2>1, <2>2
<1>3. Provider!HealthyLifeReopens
  <2> SUFFICES ASSUME ~provider_broken, \A c \in ProviderCalls : provider_call[c].pc \in {"idle",
      "done"},
                      NEW c \in ProviderCalls, frames[c] # <<>>
               PROVE  Provider!Matched(c)
    BY DEF Provider!HealthyLifeReopens, Provider!Quarantined
  <2>1. Provider!Balanced(c) /\ Provider!Matching(c) /\ Provider!Bracketed(c)
    BY ProviderTallies
  <2>2. provider_call[c].pc = "done" /\ provider_call[c].outcome # "receipt"
    BY <2>1 DEF Provider!Bracketed
  <2>3. Provider!Opened(c) = Provider!Closed(c) /\ Provider!Opened(c) \in Nat
    BY <2>1, <2>2, ProviderTallies DEF Provider!Balanced
  <2>4. Provider!Cardinality(Provider!Of(c, "call_started")) = 1
        /\ Provider!Cardinality(Provider!Of(c, "call_finished")) = 1
    BY <2>1, <2>2 DEF Provider!Bracketed
  <2>5. /\ {frames[c][i].index : i \in Provider!Of(c, "request_started")} = 1..Provider!Opened(c)
        /\ \A i \in Provider!Of(c, "request_started") :
              \E j \in Provider!Sealed(c) : i < j /\ frames[c][j].index = frames[c][i].index
        /\ \A j \in Provider!Sealed(c) : frames[c][j].failure # "unclosed"
    BY <2>1, <2>2, <2>3 DEF Provider!Matching
  <2>6. \A k \in Provider!Of(c, "call_finished") :
            /\ frames[c][k].sealed = Provider!Closed(c)
               /\ frames[c][k].entered = Provider!Cardinality(Provider!Entered(c))
            /\ \A j \in Provider!Sealed(c) : j < k
    BY <2>1 DEF Provider!Bracketed
  <2> QED BY <1>1, <2>3, <2>4, <2>5, <2>6 DEF Provider!Matched, Provider!Opened
<1> QED BY <1>2, <1>3 DEF Provider!ReceiptsDecide

\* Where the slot of the circuit is, and how many attempts were paid for twice.
LEMMA ProviderSlotAndRetries ==
    ASSUME Provider!Bounds, Provider!ProviderInv
    PROVE  /\ circuit.probe # Provider!NoCall =>
                  provider_call[circuit.probe].pc \in {"begin", "post", "seal", "judge",
                      "backoff", "release"}
           /\ Provider!Cardinality({a \in ProviderCalls \X (1..MaxAttempts) : a[2] < posts[a[1]]}) <= RunRetries
<1>1. circuit.probe # Provider!NoCall =>
          provider_call[circuit.probe].pc \in {"begin", "post", "seal", "judge", "backoff",
              "release"}
  <2> SUFFICES ASSUME circuit.probe # Provider!NoCall
      PROVE provider_call[circuit.probe].pc \in Provider!AtWork
    BY DEF Provider!AtWork
  <2>1. PICK c \in ProviderCalls : circuit.probe = c
    BY ProviderTyped
  <2> QED BY <2>1, ProviderTallies DEF Provider!Leased
<1>2. PICK again : again = {a \in ProviderCalls \X (1..MaxAttempts) : a[2] < posts[a[1]]}
  OBVIOUS
<1>3. again \subseteq Provider!Taken
  <2> SUFFICES ASSUME NEW c \in ProviderCalls, NEW i \in 1..MaxAttempts, i < posts[c]
               PROVE  i <= provider_call[c].tries
    BY <1>2 DEF Provider!Taken
  <2>1. posts[c] <= provider_call[c].tries + 1 /\ posts[c] \in Nat /\ provider_call[c].tries \in Nat
    <3>1. Provider!Leased(c) /\ provider_call[c].tries \in Nat /\ posts[c] \in Nat
      BY ProviderTallies DEF ProviderRecord
    <3> QED BY <3>1 DEF Provider!Leased
  <2> QED BY <2>1 DEF Provider!Bounds
<1>4. Provider!IsFiniteSet(Provider!Taken)
  <2>1. Provider!IsFiniteSet(ProviderCalls) /\ Provider!IsFiniteSet(1..MaxAttempts)
    BY FS_Interval, ProviderFinite DEF Provider!Bounds
  <2>2. Provider!IsFiniteSet(ProviderCalls \X (1..MaxAttempts))
    BY <2>1, FS_Product, ProviderFinite
  <2> QED BY <2>2, FS_Subset, ProviderFinite DEF Provider!Taken
<1>5. /\ Provider!Cardinality(again) <= Provider!Cardinality(Provider!Taken)
      /\ Provider!Cardinality(again) \in Nat /\ Provider!Cardinality(Provider!Taken) \in Nat
  BY <1>3, <1>4, FS_Subset, ProviderFinite, FS_CardinalityType, ProviderFinite
<1>6. Provider!Cardinality(again) <= RunRetries
  <2>1. Provider!Cardinality(Provider!Taken) + retries = RunRetries /\ retries \in Nat
    BY ProviderTyped DEF Provider!ProviderInv, Provider!Allowance
  <2> QED BY <1>5, <2>1
<1> QED BY <1>1, <1>2, <1>6

\* The slot is given back by the call that has it, in a step of that call.
LEMMA ProviderSlotMoves ==
    ASSUME Provider!Bounds, Provider!ProviderInv, [Provider!Next]_(Provider!vars),
           circuit'.probe # circuit.probe, circuit.probe # Provider!NoCall
    PROVE  /\ provider_call[circuit.probe].pc \in {"judge", "release"}
              /\ circuit'.probe = Provider!NoCall
           /\ provider_call'[circuit.probe].pc # provider_call[circuit.probe].pc
<1>1. PICK c \in ProviderCalls : Provider!Enter(c) \/ Provider!Succeed(c) \/ Provider!GiveUp(c)
      \/ Provider!Release(c)
  BY ProviderTyped DEF Provider!Next, Provider!vars, Provider!Start, Provider!Fenced,
     Provider!Begin, Provider!Post, Provider!Seal, Provider!SealUnclosed, Provider!Retry,
     Provider!Backoff, Provider!Raise, Provider!Finish, Provider!Retire, Provider!Cancel,
     Provider!Cool, Provider!Env, Provider!History
<1>2. ~Provider!Enter(c)
  BY DEF Provider!Enter
<1>3. circuit.probe = c /\ circuit'.probe = Provider!NoCall
  <2>1. CASE Provider!Succeed(c)
    BY <2>1 DEF Provider!Succeed, Provider!Decides
  <2>2. CASE Provider!GiveUp(c)
    BY <2>2 DEF Provider!GiveUp, Provider!Count, Provider!Decides
  <2>3. CASE Provider!Release(c)
    BY <2>3, ProviderTyped DEF Provider!Release
  <2> QED BY <1>1, <1>2, <2>1, <2>2, <2>3
<1>4. CASE Provider!Succeed(c) \/ Provider!GiveUp(c)
  <2>1. provider_call[c].pc = "judge" /\ \E o \in ProviderOutcomes : Provider!End(c, "release", o)
    BY <1>4 DEF Provider!Succeed, Provider!GiveUp, ProviderOutcomes
  <2>2. PICK r \in ProviderRecord : provider_call' = [provider_call EXCEPT ![c] = r]
        /\ r.pc = "release"
    BY <2>1, ProviderEndShape DEF ProviderPcs, Provider!AtWork
  <2>3. provider_call'[c] = r
    BY <2>2, ProviderTyped, ProviderRecordMoves
  <2> QED BY <1>3, <2>1, <2>2, <2>3
<1>5. CASE Provider!Release(c)
  <2>1. provider_call[c].pc = "release" /\ \E pc \in {"retire", "finish"} : Provider!Goto(c, pc)
    BY <1>5 DEF Provider!Release
  <2>2. PICK r \in ProviderRecord : provider_call' = [provider_call EXCEPT ![c] = r]
        /\ r.pc \in {"retire", "finish"}
    BY <2>1, ProviderGotoShape DEF ProviderPcs
  <2>3. provider_call'[c] = r
    BY <2>2, ProviderTyped, ProviderRecordMoves
  <2> QED BY <1>3, <2>1, <2>2, <2>3
<1> QED BY <1>1, <1>2, <1>4, <1>5

\* What was shown in part is not asked for again.
LEMMA ProviderShownOnce ==
    ASSUME Provider!Bounds, Provider!ProviderInv, [Provider!Next]_(Provider!vars), NEW d \in exposed
    PROVE  posts'[d] = posts[d]
<1>1. d \in ProviderCalls /\ provider_call[d].pc # "post"
  BY ProviderTyped, ProviderTallies DEF Provider!Leased
<1>2. posts' = posts \/ \E c \in ProviderCalls : Provider!Post(c)
  BY DEF Provider!Next, Provider!vars, Provider!Start, Provider!Fenced, Provider!Enter,
     Provider!Begin, Provider!Seal, Provider!SealUnclosed, Provider!Succeed, Provider!Retry,
     Provider!Backoff, Provider!GiveUp, Provider!Raise, Provider!Release, Provider!Finish,
     Provider!Retire, Provider!Cancel, Provider!Cool, Provider!History
<1>3. ASSUME NEW c \in ProviderCalls, Provider!Post(c) PROVE posts'[d] = posts[d]
  BY <1>1, <1>3, ProviderTyped DEF Provider!Post
<1> QED BY <1>2, <1>3

-----------------------------------------------------------------------------
(* The components in their sum *)

LEMMA ToolsMoves == [SumNext]_allVars => [Tools!Next]_(Tools!vars)
BY DEF SumNext, allVars, toolsVars, Tools!vars

LEMMA DesktopMoves == [SumNext]_allVars => [Desktop!Next]_(Desktop!vars)
BY DEF SumNext, allVars, desktopVars, Desktop!vars

LEMMA InverseMoves == [SumNext]_allVars => [Undo!Next]_(Undo!vars)
BY DEF SumNext, allVars, inverseVars, Undo!vars

LEMMA ProviderMoves == [SumNext]_allVars => [Provider!Next]_(Provider!vars)
BY DEF SumNext, allVars, providerVars, Provider!vars

LEMMA ProfileMoves == [SumNext]_allVars => [Profile!Next]_(Profile!vars)
BY DEF SumNext, allVars, profileVars, Profile!vars

LEMMA GitMoves == [SumNext]_allVars => [Git!Next]_(Git!vars)
BY DEF SumNext, allVars, gitVars, Git!vars

\* A write happens only after the review of that very call was approved, whatever
\* is replayed (graph/nodes.py, deep and legacy).
THEOREM ReviewsDecide == SumSpec => []ReviewDecides
<1>1. SumInit /\ Tools!PlansAreBounded => Tools!ReviewInv
  BY ToolsInitInv DEF SumInit
<1>2. Tools!ReviewInv => ReviewDecides
  BY DEF Tools!ReviewInv, ReviewDecides
<1>3. Tools!PlansAreBounded
  BY ComponentsAssumption
<1> QED BY <1>1, <1>2, <1>3, ToolsMoves, ToolsNextStep, PTL DEF SumSpec

\* No second kernel runs beside one that has not ended, none without its folder's
\* lock, and none after the desktop closed (projects/switching.py).
THEOREM DesktopHolds == SumSpec => []DesktopOwnsOne
<1>1. SumInit /\ Desktop!LaunchNames => Desktop!DesktopInv
  BY DesktopInitInv DEF SumInit
<1>2. Desktop!LaunchNames
  BY ComponentsAssumption
<1>3. Desktop!DesktopInv => DesktopOwnsOne
  BY <1>2, DesktopSound DEF DesktopOwnsOne
<1> QED BY <1>1, <1>2, <1>3, DesktopMoves, DesktopNextStep, PTL DEF SumSpec

\* A verdict on an inverse patch rests on its row and receipt, and its preimage
\* is kept until then (inverse_reviews.py).
THEOREM InversesHold == SumSpec => []InverseVerdicts
<1>1. SumInit => Undo!ReviewsInv
  BY InverseInitInv DEF SumInit
<1>2. Undo!ReviewsInv => InverseVerdicts
  BY DEF Undo!ReviewsInv, Undo!ReviewSound, Undo!VerdictHasEvidence, InverseVerdicts
<1> QED BY <1>1, <1>2, InverseMoves, InverseNextStep, PTL DEF SumSpec

\* What a call of a provider says it received was sealed, and a life without a fault
\* leaves receipts that the next start accepts (provider_receipts.py).
THEOREM ReceiptsHold == SumSpec => []ReceiptsDecide
<1>1. Provider!Bounds
  BY ComponentsAssumption
<1>2. SumInit => Provider!ProviderInv
  BY <1>1, ProviderInitInv DEF SumInit
<1>3. Provider!ProviderInv => ReceiptsDecide
  BY <1>1, ProviderAccountsFor DEF ReceiptsDecide
<1> QED BY <1>1, <1>2, <1>3, ProviderMoves, ProviderNextStep, PTL DEF SumSpec

\* The breaker's one probe is a call under way, which alone gives the slot back; retries
\* are bounded, and what was shown in part is not posted again (provider.py).
THEOREM BreakerInSum == SumSpec => BreakerHolds
<1>1. Provider!Bounds
  BY ComponentsAssumption
<1>2. SumInit => Provider!ProviderInv
  BY <1>1, ProviderInitInv DEF SumInit
<1>3. Provider!ProviderInv =>
         /\ circuit.probe # Provider!NoCall =>
                provider_call[circuit.probe].pc \in {"begin", "post", "seal", "judge", "backoff", "release"}
         /\ Provider!Cardinality({a \in ProviderCalls \X (1..MaxAttempts) : a[2] < posts[a[1]]}) <= RunRetries
  BY <1>1, ProviderSlotAndRetries
<1>4. Provider!ProviderInv /\ [Provider!Next]_(Provider!vars) =>
         /\ [circuit'.probe # circuit.probe /\ circuit.probe # Provider!NoCall =>
                provider_call[circuit.probe].pc \in {"judge", "release"} /\ circuit'.probe = Provider!NoCall
                /\ provider_call'[circuit.probe].pc # provider_call[circuit.probe].pc]_(Provider!vars)
         /\ [\A c \in exposed : posts'[c] = posts[c]]_(Provider!vars)
  BY <1>1, ProviderSlotMoves, ProviderShownOnce
<1> QED BY <1>1, <1>2, <1>3, <1>4, ProviderMoves, ProviderNextStep, PTL
        DEF SumSpec, BreakerHolds, Provider!BreakerHolds

\* A key goes only to the destination it was entered for, and the receipt of a keyed
\* connection was earned by a probe with that key (settings.py).
THEOREM ProfilesHold == SumSpec => []ProfileSound
<1>1. SumInit /\ Profile!ProfileNames => Profile!ProfileInv
  BY ProfileInitInv DEF SumInit
<1>2. Profile!ProfileNames
  BY ComponentsAssumption
<1>3. Profile!ProfileInv => ProfileSound
  BY <1>2, ProfileKeysAndReceipts DEF ProfileSound
<1> QED BY <1>1, <1>2, <1>3, ProfileMoves, ProfileNextStep, PTL DEF SumSpec

\* An inspection that is answered describes one moment of the repository, under the
\* grant it was made with; a revocation answered leaves no reader (git_metadata.py).
THEOREM InspectionsHold == SumSpec => []InspectionSound
<1>1. SumInit /\ Git!GitBound => Git!GitInv
  BY GitInitInv DEF SumInit
<1>2. Git!GitBound
  BY ComponentsAssumption
<1>3. Git!GitInv => InspectionSound
  BY GitInspectionsAreSound DEF InspectionSound
<1> QED BY <1>1, <1>2, <1>3, GitMoves, GitNextStep, PTL DEF SumSpec
=============================================================================
