------------------------------ MODULE LegacyJobs ------------------------------
(***************************************************************************)
(* The legacy console inside the desktop: requests of the page, two workers  *)
(* that run jobs, one approval broker per job, and close.                   *)
(*                                                                         *)
(* A job is written to the operation journal before it is accepted; its      *)
(* worker checks the admission before every model call, tool and approved    *)
(* effect, writes the outcome last and then shows it.  close fences, denies the pending    *)
(* approvals, and joins the requests and the workers; it cancels nothing.    *)
(***************************************************************************)
EXTENDS Naturals, FiniteSets

CONSTANTS
    Jobs,
    Workers,      \* threads of the pool; also the jobs accepted at a time
    MaxTools      \* bound: tools that a job asks for

VARIABLES
    closing,    \* JobManager._closing
    fault,      \* _operation_fault: no new effect is admitted
    dirty,      \* _operation_cleanup_uncertain or _submission_uncertain
    job,        \* job -> what its request or its worker does
    tools,      \* job -> tools asked for so far
    shown,      \* job -> its status in manager.jobs, or "none"
    journal,    \* job -> frames of its operation on the disk
    broker,     \* job -> its approval: "none", "open", "pending", "allowed", "denied" or "closed"
    consent,    \* job -> the user allowed the tool that it asks for now
    close       \* close_owned: "no", "deny", "requests", "pool", "returned" or "raised"

vars == <<closing, fault, dirty, job, tools, shown, journal, broker, consent, close>>
fences == <<closing, fault, dirty, close>>
page == <<shown, broker, consent>>

Init ==
    /\ closing = FALSE /\ fault = FALSE /\ dirty = FALSE
    /\ job = [j \in Jobs |-> "idle"] /\ tools = [j \in Jobs |-> 0]
    /\ shown = [j \in Jobs |-> "none"] /\ journal = [j \in Jobs |-> {}]
    /\ broker = [j \in Jobs |-> "none"] /\ consent = [j \in Jobs |-> FALSE]
    /\ close = "no"

Requesting == {j \in Jobs : job[j] \in {"request", "submit"}}
Working == {j \in Jobs : job[j] \in {"loop", "model", "ask", "answered", "effect", "end_completed", "end_failed",
                                     "noted_completed", "noted_failed"}}
Entered(j) == job[j] \in {"model", "effect"}

\* _assert_effect_admission
Admitted == ~closing /\ ~fault
To(j, pc) == job' = [job EXCEPT ![j] = pc]

-----------------------------------------------------------------------------
(* A request: submit *)

Request(j) ==
    /\ job[j] = "idle" /\ ~closing
    /\ To(j, "request")
    /\ UNCHANGED <<tools, journal>> /\ UNCHANGED fences /\ UNCHANGED page

Refuse(j) ==
    /\ job[j] = "request" /\ To(j, "refused")
    /\ UNCHANGED <<tools, journal>> /\ UNCHANGED fences /\ UNCHANGED page

\* Under the manager's lock: the journal's frame, then the job and its broker.
Accept(j) ==
    /\ job[j] = "request" /\ Admitted
    /\ Cardinality({i \in Jobs : shown[i] \in {"queued", "running"}}) < Workers
    /\ journal' = [journal EXCEPT ![j] = {"start"}]
    /\ shown' = [shown EXCEPT ![j] = "queued"] /\ broker' = [broker EXCEPT ![j] = "open"]
    /\ To(j, "submit")
    /\ UNCHANGED <<tools, consent>> /\ UNCHANGED fences

\* The frame or the conversation's message fails, the one before, the other after its effect.
AcceptFails(j) ==
    /\ job[j] = "request" /\ Admitted
    /\ \E written \in {{}, {"start"}} : journal' = [journal EXCEPT ![j] = written]
    /\ fault' = TRUE /\ dirty' = TRUE
    /\ To(j, "refused")
    /\ UNCHANGED <<tools, closing, close>> /\ UNCHANGED page

\* pool.submit; when it raises, the job may be in the queue all the same.
Submit(j) ==
    /\ job[j] = "submit"
    /\ \/ To(j, "queued") /\ UNCHANGED <<fault, dirty>>
       \/ /\ \E pc \in {"queued", "lost"} : To(j, pc)
          /\ fault' = TRUE /\ dirty' = TRUE
    /\ UNCHANGED <<tools, journal, closing, close>> /\ UNCHANGED page

-----------------------------------------------------------------------------
(* A worker: run, Core.run, AgentLoop.run *)

Begin(j) ==
    /\ job[j] = "queued" /\ Cardinality(Working) < Workers
    /\ shown' = [shown EXCEPT ![j] = "running"]
    /\ To(j, IF Admitted THEN "loop" ELSE "end_failed")
    /\ UNCHANGED <<tools, journal, broker, consent>> /\ UNCHANGED fences

\* The next model call, or the end when close or a fault came first.
Turn(j) ==
    /\ job[j] = "loop"
    /\ To(j, IF Admitted THEN "model" ELSE "end_failed")
    /\ UNCHANGED <<tools, journal>> /\ UNCHANGED fences /\ UNCHANGED page

\* The answer is looked at only when the job is still admitted: it is final, or an error, or
\* a tool; only reading, or what its capability refuses, needs no approval.
Answer(j) ==
    /\ job[j] = "model"
    /\ IF ~Admitted THEN To(j, "end_failed") /\ UNCHANGED tools
       ELSE \/ \E pc \in {"end_completed", "end_failed"} : To(j, pc) /\ UNCHANGED tools
            \/ /\ tools[j] < MaxTools /\ tools' = [tools EXCEPT ![j] = @ + 1]
               /\ \E pc \in {"ask", "loop"} : To(j, pc)
    /\ UNCHANGED journal /\ UNCHANGED fences /\ UNCHANGED page

\* ApprovalBroker.request: a closed broker denies at once.
Ask(j) ==
    /\ job[j] = "ask" /\ broker[j] \in {"open", "closed"}
    /\ IF broker[j] = "closed" THEN To(j, "loop") /\ UNCHANGED broker
       ELSE broker' = [broker EXCEPT ![j] = "pending"] /\ UNCHANGED job
    /\ UNCHANGED <<tools, journal, shown, consent>> /\ UNCHANGED fences

\* decide: once, while the approval is pending; allowing needs the admission.
Decide(j, allow) ==
    /\ broker[j] = "pending" /\ ~closing /\ (allow => Admitted)
    /\ broker' = [broker EXCEPT ![j] = IF allow THEN "allowed" ELSE "denied"]
    /\ consent' = [consent EXCEPT ![j] = allow]
    /\ UNCHANGED <<job, tools, journal, shown>> /\ UNCHANGED fences

\* The waiter wakes: by a decision, by its time, or because the broker closed.
Expire(j) ==
    /\ job[j] = "ask" /\ broker[j] = "pending"
    /\ broker' = [broker EXCEPT ![j] = "open"]
    /\ To(j, "loop")
    /\ UNCHANGED <<tools, journal, shown, consent>> /\ UNCHANGED fences

Wake(j) ==
    /\ job[j] = "ask" /\ broker[j] \in {"allowed", "denied", "closed"}
    /\ To(j, IF broker[j] = "allowed" THEN "answered" ELSE "loop")
    /\ broker' = [broker EXCEPT ![j] = IF @ = "closed" THEN @ ELSE "open"]
    /\ consent' = [consent EXCEPT ![j] = (broker[j] = "allowed")]
    /\ UNCHANGED <<tools, journal, shown>> /\ UNCHANGED fences

\* Consent is not admission: it is checked again before the tool is entered.
Enter(j) ==
    /\ job[j] = "answered"
    /\ To(j, IF Admitted THEN "effect" ELSE "end_failed")
    /\ UNCHANGED <<tools, journal>> /\ UNCHANGED fences /\ UNCHANGED page

\* The tool returns, or fails with an error that the loop reports to the model, or its
\* outcome is unknown and the owner is marked.
Leave(j) ==
    /\ job[j] = "effect"
    /\ consent' = [consent EXCEPT ![j] = FALSE]
    /\ \/ To(j, "loop") /\ UNCHANGED <<fault, dirty>>
       \/ To(j, "end_failed") /\ fault' = TRUE /\ dirty' \in {dirty, TRUE}
    /\ UNCHANGED <<tools, journal, shown, broker, closing, close>>

\* The session, the assistant's message and last the outcome; a failed job is a fault.
Outcome(j) == IF job[j] = "end_completed" THEN "returned" ELSE "failed"

Record(j) ==
    /\ job[j] \in {"end_completed", "end_failed"}
    /\ journal' = [journal EXCEPT ![j] = @ \cup {Outcome(j)}]
    /\ fault' = (fault \/ Outcome(j) = "failed")
    /\ To(j, IF Outcome(j) = "returned" THEN "noted_completed" ELSE "noted_failed")
    /\ UNCHANGED <<tools, closing, dirty, close>> /\ UNCHANGED page

\* One of the writes raises; the outcome may be on the disk all the same, when what
\* raised is the end of its append.
RecordFails(j) ==
    /\ job[j] \in {"end_completed", "end_failed"}
    /\ \E written \in {{}, {Outcome(j)}} : journal' = [journal EXCEPT ![j] = @ \cup written]
    /\ fault' = TRUE /\ dirty' = TRUE
    /\ To(j, "noted_failed")
    /\ UNCHANGED <<tools, closing, close>> /\ UNCHANGED page

\* The page sees the result, or the failure that stands for it.
Publish(j) ==
    /\ job[j] \in {"noted_completed", "noted_failed"}
    /\ shown' = [shown EXCEPT ![j] = IF job[j] = "noted_completed" THEN "completed" ELSE "failed"]
    /\ To(j, "done")
    /\ UNCHANGED <<tools, journal, broker, consent>> /\ UNCHANGED fences

\* The kernel's runtime marks its shared latch.
OwnerFault ==
    /\ ~fault /\ fault' = TRUE
    /\ UNCHANGED <<closing, dirty, job, tools, journal, close>> /\ UNCHANGED page

-----------------------------------------------------------------------------
(* close_owned *)

Fence ==
    /\ close = "no"
    /\ closing' = TRUE /\ close' = "deny"
    /\ UNCHANGED <<fault, dirty, job, tools, journal>> /\ UNCHANGED page

\* Fault: only the approvals that are pending now are denied.
DenyPending ==
    /\ close = "deny" /\ close' = "requests"
    /\ broker' = [j \in Jobs |-> IF broker[j] = "pending" THEN "closed" ELSE broker[j]]
    /\ UNCHANGED <<closing, fault, dirty, job, tools, shown, journal, consent>>

\* The brokers of every accepted job, also of those that ask later: none is accepted after
\* the fence.
Deny ==
    /\ close = "deny" /\ close' = "requests"
    /\ broker' = [j \in Jobs |-> IF broker[j] = "none" THEN "none" ELSE "closed"]
    /\ UNCHANGED <<closing, fault, dirty, job, tools, shown, journal, consent>>

JoinRequests ==
    /\ close = "requests" /\ Requesting = {}
    /\ close' = "pool"
    /\ UNCHANGED <<closing, fault, dirty, job, tools, journal>> /\ UNCHANGED page

\* Fault: futures that have not started are forgotten.
JoinRunning ==
    /\ close = "pool" /\ Working = {}
    /\ close' = IF dirty THEN "raised" ELSE "returned"
    /\ UNCHANGED <<closing, fault, dirty, job, tools, journal>> /\ UNCHANGED page

\* pool.shutdown without cancelling, then the verdict on what was left uncertain.
JoinPool ==
    /\ close = "pool" /\ Working = {} /\ \A j \in Jobs : job[j] # "queued"
    /\ close' = IF dirty THEN "raised" ELSE "returned"
    /\ UNCHANGED <<closing, fault, dirty, job, tools, journal>> /\ UNCHANGED page

Worker(j) ==
    \/ Begin(j) \/ Turn(j) \/ Answer(j) \/ Ask(j) \/ Wake(j) \/ Enter(j) \/ Leave(j)
    \/ Record(j) \/ RecordFails(j) \/ Publish(j)

Closer == Deny \/ JoinRequests \/ JoinPool

Next ==
    \/ \E j \in Jobs :
          Request(j) \/ Refuse(j) \/ Accept(j) \/ AcceptFails(j) \/ Submit(j) \/ Worker(j) \/ Expire(j)
          \/ \E allow \in BOOLEAN : Decide(j, allow)
    \/ OwnerFault \/ Fence \/ Closer

\* Model calls and tools return; nothing is assumed of the user or of the approval's time.
Fairness ==
    /\ WF_vars(Closer)
    /\ \A j \in Jobs : WF_vars(Worker(j)) /\ WF_vars(Refuse(j) \/ Accept(j) \/ Submit(j))

Spec == Init /\ [][Next]_vars /\ Fairness

-----------------------------------------------------------------------------
(* Properties *)

\* What the next start reads: an accepted operation without the frame of a clean return.
Unresolved == \E j \in Jobs : "start" \in journal[j] /\ "returned" \notin journal[j]

\* Whenever the process dies, an effect that was entered and did not return cleanly is
\* found.  The frame of a clean return comes before the page shows it, and after all that
\* the job does; only an owner that is marked has one for a job shown as failed.
JournalFinds ==
    \A j \in Jobs :
        /\ Entered(j) => Unresolved
        /\ shown[j] = "completed" => "returned" \in journal[j]
        /\ "returned" \in journal[j] =>
              /\ job[j] \in {"noted_completed", "noted_failed", "done"}
              /\ shown[j] = "failed" => dirty

\* When close returns, nothing runs or will run, no outcome is missing, and what the page
\* showed is what the next start will read.
ClosedIsDrained ==
    close = "returned" =>
        /\ Requesting = {} /\ Working = {} /\ \A j \in Jobs : job[j] # "queued"
        /\ \A j \in Jobs : journal[j] # {} =>
              /\ journal[j] \cap {"returned", "failed"} # {}
              /\ shown[j] = "completed" <=> "returned" \in journal[j]

\* A tool is entered only with the consent given for it, however the decision, the
\* time-out and close race.
EffectsHaveConsent == \A j \in Jobs : job[j] \in {"answered", "effect"} => consent[j]

JobsAreAccounted == JournalFinds /\ ClosedIsDrained /\ EffectsHaveConsent

\* close comes to an end although nobody decides the approvals that are pending, and no
\* effect is entered on an approval after the fence.
CloseEnds ==
    /\ (close = "deny") ~> (close \in {"returned", "raised"})
    /\ [][\A j \in Jobs : job[j] # "effect" /\ job'[j] = "effect" => ~closing /\ ~fault]_vars
-----------------------------------------------------------------------------
(* What every step preserves *)

Places == {"idle", "request", "refused", "submit", "queued", "lost", "loop", "model", "ask", "answered",
           "effect", "end_completed", "end_failed", "noted_completed", "noted_failed", "done"}

JobsTypes ==
    /\ job \in [Jobs -> Places] /\ consent \in [Jobs -> BOOLEAN]
    /\ shown \in [Jobs -> {"none", "queued", "running", "completed", "failed"}]
    /\ journal \in [Jobs -> SUBSET {"start", "returned", "failed"}]
    /\ broker \in [Jobs -> {"none", "open", "pending", "allowed", "denied", "closed"}]

\* What the page, the disk and the broker have of a job, by the place it is at.
JobSound(j) ==
    /\ job[j] \in {"idle", "request"} => shown[j] = "none" /\ journal[j] = {}
    /\ job[j] = "refused" =>
          shown[j] = "none" /\ (journal[j] = {} \/ (journal[j] = {"start"} /\ dirty))
    /\ job[j] \in {"submit", "queued", "lost"} => shown[j] = "queued" /\ journal[j] = {"start"}
    /\ job[j] = "lost" => dirty
    /\ j \in Working =>
          /\ shown[j] = "running"
          /\ job[j] \in {"noted_completed", "noted_failed"} \/ journal[j] = {"start"}
    /\ job[j] \in {"noted_completed", "noted_failed", "done"} =>
          /\ "start" \in journal[j]
          /\ journal[j] \cap {"returned", "failed"} # {} \/ dirty
    /\ job[j] = "noted_completed" => "returned" \in journal[j]
    /\ job[j] = "noted_failed" /\ "returned" \in journal[j] => dirty
    /\ job[j] = "done" =>
          /\ shown[j] \in {"completed", "failed"}
          /\ shown[j] = "completed" => "returned" \in journal[j]
          /\ shown[j] = "failed" /\ "returned" \in journal[j] => dirty
    /\ broker[j] \in {"pending", "allowed"} => job[j] = "ask"
    /\ broker[j] = "allowed" => consent[j]
    /\ job[j] \in {"answered", "effect"} => consent[j]

\* What close has joined does not come back.
CloseSound ==
    /\ close # "no" => closing
    /\ close \in {"pool", "returned", "raised"} => Requesting = {}
    /\ close \in {"returned", "raised"} => Working = {} /\ \A j \in Jobs : job[j] # "queued"
    /\ close = "returned" => ~dirty

JobsInv == JobsTypes /\ (\A j \in Jobs : JobSound(j)) /\ CloseSound
=============================================================================
