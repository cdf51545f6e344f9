--------------------------- MODULE ProviderAttempts ---------------------------
(***************************************************************************)
(* Calls of one model provider: bounded retries, the circuit breaker they   *)
(* share, and the receipts that tell a later life whether a paid request    *)
(* was left without an outcome.                                             *)
(*                                                                         *)
(* A call writes call_started, and for each transport attempt               *)
(* request_started before it is entered and request_finished after its      *)
(* response was closed, then call_finished with a summary.  Every append    *)
(* may fail after it was stored, or without; a call may be cancelled at any *)
(* await and the process may die at any step, so what is said of the stored *)
(* frames is said of every state.                                           *)
(***************************************************************************)
EXTENDS Naturals, Sequences, FiniteSets

CONSTANTS
    Calls,         \* calls of one execution segment, on one provider
    MaxAttempts,   \* attempts of a call
    RunRetries,    \* retries_left of the segment
    Threshold,     \* circuit_failure_threshold
    MaxFailures    \* bound: failures the breaker counts

VARIABLES
    call,     \* call -> [pc, tries, outcome, got, cancelled, leased]
    frames,   \* call -> its stored frames, in order
    circuit,  \* [failures, cooled, probe]
    retries,  \* retries left to the segment
    broken,   \* the fault latch of the owner
    posts,    \* call -> transport methods entered (history)
    exposed   \* calls that showed part of an answer (history)

vars == <<call, frames, circuit, retries, broken, posts, exposed>>

NoCall == "none"
\* got: what the last attempt brought; outcome "receipt": the latch ended it, nothing is written.
Idle == [pc |-> "idle", tries |-> 0, outcome |-> "failed", got |-> "none", cancelled |-> FALSE,
         leased |-> FALSE]

Init ==
    /\ call = [c \in Calls |-> Idle]
    /\ frames = [c \in Calls |-> <<>>]
    /\ circuit = [failures |-> 0, cooled |-> TRUE, probe |-> NoCall]
    /\ retries = RunRetries
    /\ broken = FALSE
    /\ posts = [c \in Calls |-> 0]
    /\ exposed = {}

Env == UNCHANGED <<circuit, retries>>
History == UNCHANGED <<posts, exposed>>
Goto(c, pc) == call' = [call EXCEPT ![c].pc = pc]
End(c, pc, outcome) == call' = [call EXCEPT ![c].pc = pc, ![c].outcome = outcome]

\* One append and its notification, joined before a cancellation is raised; next is the
\* step after a good one, failed the one after the latch was set.
Append1(c, frame, next, failed) ==
    \/ frames' = [frames EXCEPT ![c] = Append(@, frame)] /\ UNCHANGED broken /\ next
    \/ frames' = [frames EXCEPT ![c] = Append(@, frame)] /\ broken' = TRUE /\ failed
    \/ UNCHANGED frames /\ broken' = TRUE /\ failed

-----------------------------------------------------------------------------
(* anext_turn of the recorder, entry *)

\* The call may be cancelled while its first frame is written.
Start(c) ==
    /\ call[c].pc = "idle"
    /\ ~broken
    /\ Append1(c, [kind |-> "call_started"],
               Goto(c, "enter") \/ End(c, "finish", "cancelled"),
               End(c, "retire", "receipt"))
    /\ Env /\ History

\* Another call's failed append came between.
Fenced(c) ==
    /\ call[c].pc \in {"enter", "begin"}
    /\ broken
    /\ End(c, IF call[c].leased THEN "release" ELSE "retire", "receipt")
    /\ UNCHANGED <<frames, broken>> /\ Env /\ History

\* _enter_circuit: closed, or the one probe of a circuit that cooled down.
Enter(c) ==
    /\ call[c].pc = "enter" /\ ~broken
    /\ \/ /\ circuit.probe = NoCall /\ circuit.failures < Threshold
          /\ Goto(c, "begin")
          /\ UNCHANGED circuit
       \/ /\ circuit.probe = NoCall /\ circuit.failures >= Threshold /\ circuit.cooled
          /\ circuit' = [circuit EXCEPT !.probe = c]
          /\ call' = [call EXCEPT ![c].pc = "begin", ![c].leased = TRUE]
       \/ /\ circuit.probe # NoCall \/ (circuit.failures >= Threshold /\ ~circuit.cooled)
          /\ End(c, "finish", "failed")
          /\ UNCHANGED circuit
    /\ UNCHANGED <<frames, broken, retries>> /\ History

-----------------------------------------------------------------------------
(* One attempt: _request_turn, _request_stream_turn, the urlopen of the sync provider *)

\* The intent is durable before the transport method is entered; cancelled meanwhile, it
\* is sealed as never entered.
Begin(c) ==
    /\ call[c].pc = "begin" /\ ~broken
    /\ Append1(c, [kind |-> "request_started", index |-> call[c].tries + 1],
               IF call[c].cancelled
               THEN call' = [call EXCEPT ![c].pc = "seal", ![c].got = "unsent"]
               ELSE Goto(c, "post"),
               End(c, "release", "receipt"))
    /\ Env /\ History

\* partial: some text was shown before the stream broke; unclosed: the response did not
\* close; invalid: the body is no model turn.
Answers == {"ok", "retryable", "refused", "invalid", "partial", "unclosed"}

Post(c) ==
    /\ call[c].pc = "post"
    /\ posts' = [posts EXCEPT ![c] = @ + 1]
    /\ \E got \in Answers \cup (IF call[c].cancelled THEN {"cancelled"} ELSE {}) :
          /\ call' = [call EXCEPT ![c].pc = "seal", ![c].got = got]
          /\ exposed' = IF got = "partial" THEN exposed \cup {c} ELSE exposed
    /\ UNCHANGED <<frames, broken>> /\ Env

Finished(c) == [kind |-> "request_finished", index |-> call[c].tries + 1,
                entered |-> call[c].got # "unsent", failure |-> call[c].got]

\* Fault: an attempt that was cancelled before it was entered leaves its intent open.
SealUnlessCancelled(c) ==
    /\ call[c].pc = "seal" /\ call[c].got # "unclosed"
    /\ IF call[c].got = "unsent"
       THEN End(c, "release", "cancelled") /\ UNCHANGED <<frames, broken>>
       ELSE Append1(c, Finished(c), Goto(c, "judge"), End(c, "release", "receipt"))
    /\ Env /\ History

\* The response is closed and the attempt sealed before its result is used.  A response
\* that did not close is sealed too, and latches the fault.
Seal(c) ==
    /\ call[c].pc = "seal" /\ call[c].got # "unclosed"
    /\ \/ /\ call[c].got = "unsent" /\ broken
          /\ End(c, "release", "cancelled")
          /\ UNCHANGED <<frames, broken>>
       \/ /\ ~(call[c].got = "unsent" /\ broken)
          /\ Append1(c, Finished(c),
                     IF call[c].cancelled THEN End(c, "release", "cancelled") ELSE Goto(c, "judge"),
                     End(c, "release", "receipt"))
    /\ Env /\ History

SealUnclosed(c) ==
    /\ call[c].pc = "seal" /\ call[c].got = "unclosed"
    /\ broken' = TRUE
    /\ frames' \in {frames, [frames EXCEPT ![c] = Append(@, Finished(c))]}
    /\ End(c, "release", "receipt")
    /\ Env /\ History

-----------------------------------------------------------------------------
(* _anext_turn_owned: retry, give up; the circuit *)

Decides(c) == circuit.probe = (IF call[c].leased THEN c ELSE NoCall)

Succeed(c) ==
    /\ call[c].pc = "judge" /\ call[c].got = "ok"
    /\ circuit' = IF Decides(c) THEN [failures |-> 0, cooled |-> TRUE, probe |-> NoCall] ELSE circuit
    /\ End(c, "release", "returned")
    /\ UNCHANGED <<frames, broken, retries>> /\ History

Retryable == {"retryable"}

MayRetry(c) == /\ call[c].got \in Retryable
               /\ call[c].tries + 1 < MaxAttempts
               /\ retries > 0

\* reserve takes from what the whole segment has left; then the backoff is slept.
Retry(c) ==
    /\ call[c].pc = "judge" /\ MayRetry(c)
    /\ retries' = retries - 1
    /\ call' = [call EXCEPT ![c].pc = "backoff", ![c].tries = @ + 1]
    /\ UNCHANGED <<frames, broken, circuit>> /\ History

Backoff(c) ==
    /\ call[c].pc = "backoff"
    /\ IF call[c].cancelled THEN End(c, "release", "cancelled") ELSE Goto(c, "begin")
    /\ UNCHANGED <<frames, broken>> /\ Env /\ History

Count(c) ==
    circuit' = IF Decides(c)
               THEN [failures |-> circuit.failures + 1,
                     cooled |-> IF circuit.failures + 1 >= Threshold THEN FALSE ELSE circuit.cooled,
                     probe |-> NoCall]
               ELSE circuit

\* Out of attempts, of time or of the segment's allowance, or not to be retried at all.
GiveUp(c) ==
    /\ call[c].pc = "judge" /\ call[c].got \in Retryable \cup {"refused"}
    /\ circuit.failures < MaxFailures
    /\ Count(c)
    /\ End(c, "release", "failed")
    /\ UNCHANGED <<frames, broken, retries>> /\ History

\* An answer that is no turn says nothing of the provider's health.
Raise(c) ==
    /\ call[c].pc = "judge" /\ call[c].got \in {"invalid", "partial"} \ Retryable
    /\ End(c, "release", "failed")
    /\ UNCHANGED <<frames, broken>> /\ Env /\ History

\* Fault: the slot is freed whoever holds it.
ReleaseAny(c) ==
    /\ call[c].pc = "release"
    /\ circuit' = [circuit EXCEPT !.probe = NoCall]
    /\ Goto(c, IF call[c].outcome = "receipt" THEN "retire" ELSE "finish")
    /\ UNCHANGED <<frames, broken, retries>> /\ History

\* Only the lease of this very call is given back.
Release(c) ==
    /\ call[c].pc = "release"
    /\ circuit' = IF circuit.probe = c THEN [circuit EXCEPT !.probe = NoCall] ELSE circuit
    /\ Goto(c, IF call[c].outcome = "receipt" THEN "retire" ELSE "finish")
    /\ UNCHANGED <<frames, broken, retries>> /\ History

Cool ==
    /\ ~circuit.cooled
    /\ circuit' = [circuit EXCEPT !.cooled = TRUE]
    /\ UNCHANGED <<call, frames, broken, retries>> /\ History

-----------------------------------------------------------------------------
(* anext_turn of the recorder, exit *)

Entered(c) == {i \in DOMAIN frames[c] :
                  frames[c][i].kind = "request_finished" /\ frames[c][i].entered}
Sealed(c) == {i \in DOMAIN frames[c] : frames[c][i].kind = "request_finished"}

Summary(c) == [kind |-> "call_finished", sealed |-> Cardinality(Sealed(c)),
               entered |-> Cardinality(Entered(c)), outcome |-> call[c].outcome]

Finish(c) ==
    /\ call[c].pc = "finish"
    /\ \/ /\ call[c].outcome = "cancelled" /\ broken
          /\ Goto(c, "done")
          /\ UNCHANGED <<frames, broken>>
       \/ /\ ~(call[c].outcome = "cancelled" /\ broken)
          /\ Append1(c, Summary(c), Goto(c, "done"), Goto(c, "done"))
    /\ Env /\ History

\* The latch ended the call: its frames stay as they are.
Retire(c) ==
    /\ call[c].pc = "retire"
    /\ broken' = TRUE
    /\ Goto(c, "done")
    /\ UNCHANGED frames /\ Env /\ History

Cancel(c) ==
    /\ call[c].pc \notin {"idle", "done"}
    /\ ~call[c].cancelled
    /\ call' = [call EXCEPT ![c].cancelled = TRUE]
    /\ UNCHANGED <<frames, broken>> /\ Env /\ History

-----------------------------------------------------------------------------

Next ==
    \/ \E c \in Calls :
          Start(c) \/ Fenced(c) \/ Enter(c) \/ Begin(c) \/ Post(c) \/ Seal(c) \/ SealUnclosed(c)
          \/ Succeed(c) \/ Retry(c) \/ Backoff(c) \/ GiveUp(c) \/ Raise(c) \/ Release(c)
          \/ Finish(c) \/ Retire(c) \/ Cancel(c)
    \/ Cool

Spec == Init /\ [][Next]_vars

-----------------------------------------------------------------------------
(* The reader of the next life: ProviderReceiptRecoveryQueries._scan *)

Of(c, kind) == {i \in DOMAIN frames[c] : frames[c][i].kind = kind}

\* Both frames of the call are there, its attempts are numbered and each one matched
\* inside them, none failed to close its response, and the summary says the same.
Matched(c) ==
    LET starts == Of(c, "request_started")
        ends == Of(c, "request_finished") IN
    /\ Cardinality(Of(c, "call_started")) = 1 /\ Cardinality(Of(c, "call_finished")) = 1
    /\ {frames[c][i].index : i \in starts} = 1..Cardinality(starts)
    /\ Cardinality(starts) = Cardinality(ends)
    /\ \A i \in starts : \E j \in ends : i < j /\ frames[c][j].index = frames[c][i].index
    /\ \A j \in ends : frames[c][j].failure # "unclosed"
    /\ \A k \in Of(c, "call_finished") :
          /\ \A j \in ends : j < k
          /\ frames[c][k].sealed = Cardinality(ends) /\ frames[c][k].entered = Cardinality(Entered(c))

Quarantined == \E c \in Calls : frames[c] # <<>> /\ ~Matched(c)

-----------------------------------------------------------------------------
(* Properties *)

\* Whenever the process dies, a journal that is not quarantined accounts for every
\* transport method that was entered, and no call is under way that it calls finished.
NothingPaidIsLost ==
    ~Quarantined => \A c \in Calls :
        /\ posts[c] = Cardinality(Entered(c))
        /\ call[c].pc \in {"post", "seal"} => frames[c] = <<>>

\* A life without a fault, whatever was refused, retried or cancelled in it, leaves a
\* journal that the next start accepts.
HealthyLifeReopens ==
    ~broken /\ (\A c \in Calls : call[c].pc \in {"idle", "done"}) => ~Quarantined

ReceiptsDecide == NothingPaidIsLost /\ HealthyLifeReopens

\* An open circuit admits one call at a time: its slot is never lost, and no other call gives
\* it away; a segment's retries are bounded however its calls overlap; an answer that was
\* shown in part is never asked for again.
BreakerHolds ==
    /\ [](circuit.probe # NoCall =>
              call[circuit.probe].pc \in {"begin", "post", "seal", "judge", "backoff", "release"})
    /\ [][circuit'.probe # circuit.probe /\ circuit.probe # NoCall =>
              call[circuit.probe].pc \in {"judge", "release"} /\ circuit'.probe = NoCall
              /\ call'[circuit.probe].pc # call[circuit.probe].pc]_vars
    /\ [][\A c \in exposed : posts'[c] = posts[c]]_vars
    /\ [](Cardinality({a \in Calls \X (1..MaxAttempts) : a[2] < posts[a[1]]}) <= RunRetries)

(***************************************************************************)
(* Why they hold.  A call's frames are counted as they are written: as many  *)
(* attempts are open as its place in the code says, each seal follows its    *)
(* intent, and the summary comes last, once nothing is open.  A call that    *)
(* the latch ended writes no summary, so its journal is never accepted.      *)
(***************************************************************************)
Bounds == IsFiniteSet(Calls) /\ NoCall \notin Calls /\ MaxAttempts \in Nat /\ RunRetries \in Nat

Brought == Answers \cup {"none", "unsent", "cancelled"}

Frame ==
    [kind : {"call_started"}] \cup [kind : {"request_started"}, index : Nat]
    \cup [kind : {"request_finished"}, index : Nat, entered : BOOLEAN, failure : Brought]
    \cup [kind : {"call_finished"}, sealed : Nat, entered : Nat, outcome : {"failed", "returned", "cancelled"}]

AtWork == {"begin", "post", "seal", "judge", "backoff", "release"}

ProviderTypes ==
    /\ call \in [Calls -> [pc : {"idle", "enter", "finish", "retire", "done"} \cup AtWork, tries : Nat,
                           outcome : {"failed", "receipt", "cancelled", "returned"}, got : Brought,
                           cancelled : BOOLEAN, leased : BOOLEAN]]
    /\ frames \in [Calls -> Seq(Frame)]
    /\ circuit \in [failures : Nat, cooled : BOOLEAN, probe : Calls \cup {NoCall}]
    /\ retries \in Nat /\ broken \in BOOLEAN
    /\ posts \in [Calls -> Nat] /\ exposed \subseteq Calls

Opened(c) == Cardinality(Of(c, "request_started"))
Closed(c) == Cardinality(Sealed(c))

\* How many attempts were opened and sealed when the call is here.
Balanced(c) ==
    LET here == call[c].pc
        n == call[c].tries IN
    /\ here \in {"idle", "enter"} => n = 0 /\ Opened(c) = 0 /\ Closed(c) = 0
    /\ here \in {"begin", "backoff"} => Opened(c) = n /\ Closed(c) = n
    /\ here \in {"post", "seal"} => Opened(c) = n + 1 /\ Closed(c) = n
    /\ here = "judge" => Opened(c) = n + 1 /\ Closed(c) = n + 1
    /\ here \in {"release", "finish", "done"} /\ call[c].outcome # "receipt" =>
           \/ Opened(c) = Closed(c)
           \/ call[c].outcome = "cancelled" /\ broken /\ Opened(c) = Closed(c) + 1

\* What a call that the latch did not end has in its frames.
Matching(c) ==
    call[c].outcome # "receipt" =>
        /\ {frames[c][i].index : i \in Of(c, "request_started")} = 1..Opened(c)
        /\ \A i \in Of(c, "request_started") :
              \/ \E j \in Sealed(c) : i < j /\ frames[c][j].index = frames[c][i].index
              \/ Opened(c) = Closed(c) + 1 /\ frames[c][i].index = Opened(c)
        /\ \A j \in Sealed(c) : frames[c][j].failure # "unclosed"
        /\ posts[c] = Cardinality(Entered(c))
                      + (IF call[c].pc = "seal" /\ call[c].got # "unsent" THEN 1 ELSE 0)

\* The first and the last frame.
Bracketed(c) ==
    /\ call[c].pc = "idle" => frames[c] = <<>>
    /\ frames[c] = <<>> => posts[c] = 0 /\ (call[c].pc = "idle" \/ call[c].outcome = "receipt")
    /\ frames[c] # <<>> => Cardinality(Of(c, "call_started")) = 1
    /\ call[c].outcome = "receipt" => broken /\ call[c].pc \in {"release", "retire", "done"}
    /\ call[c].pc = "retire" => call[c].outcome = "receipt"
    /\ call[c].pc = "done" /\ ~broken => Cardinality(Of(c, "call_finished")) = 1
    /\ \A k \in Of(c, "call_finished") :
          /\ call[c].pc = "done" /\ call[c].outcome # "receipt" /\ Opened(c) = Closed(c)
          /\ frames[c][k].sealed = Closed(c) /\ frames[c][k].entered = Cardinality(Entered(c))
          /\ \A j \in Sealed(c) : j < k

\* The slot of the circuit is with a call at work, and what was shown is not asked again.
Leased(c) ==
    /\ circuit.probe = c => call[c].pc \in AtWork /\ call[c].leased
    /\ c \in exposed => \/ call[c].pc \in {"seal", "judge"} /\ call[c].got = "partial"
                        \/ call[c].pc \in {"release", "finish", "retire", "done"}
    /\ posts[c] <= call[c].tries
       \/ (call[c].pc \notin {"idle", "enter", "begin", "post", "backoff"} /\ posts[c] <= call[c].tries + 1)

\* Every retry was taken from the segment's allowance.
Taken == {a \in Calls \X (1..MaxAttempts) : a[2] <= call[a[1]].tries}
Allowance == Cardinality(Taken) + retries = RunRetries

ProviderInv ==
    /\ ProviderTypes
    /\ \A c \in Calls : Balanced(c) /\ Matching(c) /\ Bracketed(c) /\ Leased(c)
    /\ Allowance
=============================================================================
