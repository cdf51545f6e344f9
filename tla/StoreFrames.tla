------------------------------ MODULE StoreFrames ------------------------------
(***************************************************************************)
(* The synchronous stores (conversations, tasks, the project catalog, the    *)
(* run journal and the settings): each use of a store opens its own database  *)
(* connection or file, works in it and closes it.                             *)
(*                                                                         *)
(* Several threads use a store at a time.  An error of storage closes the      *)
(* store for new uses and tells the owner before anything else is done; an     *)
(* open or a close whose effect is unknown leaves the handle to the owner,     *)
(* who then never reports that its resources are released.                    *)
(***************************************************************************)
EXTENDS Naturals, FiniteSets

CONSTANTS
    Calls,
    Stores,
    Files      \* the stores whose uses are files; the others are databases

VARIABLES
    call,      \* call -> [at, on, handle, tx, outcome, told]
    failed,    \* store -> admits no new use
    unclear,   \* store -> resource_cleanup_uncertain
    fault,     \* the owner's latch
    kept,      \* the owner has been handed these stores
    owner      \* "open", "closing", "released" or "held"

vars == <<call, failed, unclear, fault, kept, owner>>
latches == <<failed, fault>>
cleanup == <<unclear, kept>>

Idle == [at |-> "idle", on |-> "none", handle |-> FALSE, tx |-> "none",
         outcome |-> "none", told |-> "none"]

Init ==
    /\ call = [c \in Calls |-> Idle]
    /\ failed = [s \in Stores |-> FALSE] /\ unclear = [s \in Stores |-> FALSE]
    /\ fault = FALSE /\ kept = {} /\ owner = "open"

On(c) == call[c].on
IsFile(c) == On(c) \in Files

\* Fault: the owner learns of the failure only when the use is over.
FailLater(c) == failed' = [failed EXCEPT ![On(c)] = TRUE] /\ UNCHANGED fault

\* _mark_failed: the store and its owner, before the handle is touched again
Fail(c) == failed' = [failed EXCEPT ![On(c)] = TRUE] /\ fault' = TRUE

\* _retain_uncertain: the store and its owner keep the lost handle
Retain(c) ==
    /\ unclear' = [unclear EXCEPT ![On(c)] = TRUE] /\ kept' = kept \cup {On(c)}
    /\ Fail(c)

Set(c, fields) == call' = [call EXCEPT ![c] = fields]
To(c, at) == [call[c] EXCEPT !.at = at]
Tell(c, what) == [call[c] EXCEPT !.at = "done", !.told = what]

-----------------------------------------------------------------------------
Begin(c, s) ==
    /\ call[c].at = "idle" /\ owner = "open" /\ ~failed[s]
    /\ Set(c, [Idle EXCEPT !.at = "opening", !.on = s])
    /\ UNCHANGED owner /\ UNCHANGED latches /\ UNCHANGED cleanup

\* the factory returns a handle; or a file is not there, which some reads accept;
\* or its exclusive creation is refused; or it raises, and may have opened it all the same
Open(c) ==
    /\ call[c].at = "opening"
    /\ \/ Set(c, [To(c, "entering") EXCEPT !.handle = TRUE]) /\ UNCHANGED latches /\ UNCHANGED cleanup
       \/ IsFile(c) /\ Set(c, Tell(c, "absent")) /\ UNCHANGED latches /\ UNCHANGED cleanup
       \/ IsFile(c) /\ Set(c, Tell(c, "error")) /\ Fail(c) /\ UNCHANGED cleanup
       \/ \E lost \in BOOLEAN : Set(c, [Tell(c, "error") EXCEPT !.handle = lost]) /\ Retain(c)
    /\ UNCHANGED owner

\* a handle that cannot be entered is closed all the same
Enter(c) ==
    /\ call[c].at = "entering"
    /\ \/ Set(c, [To(c, "body") EXCEPT !.tx = "begun"]) /\ UNCHANGED latches
       \/ Set(c, [To(c, "closing") EXCEPT !.outcome = "error"]) /\ Fail(c)
    /\ UNCHANGED owner /\ UNCHANGED cleanup

\* the body: done, an error of storage, or a refusal of the request, which a
\* database rolls back and a file cannot
Body(c) ==
    /\ call[c].at = "body"
    /\ \/ Set(c, [To(c, "leaving") EXCEPT !.outcome = "ok"]) /\ UNCHANGED latches
       \/ Set(c, [To(c, "leaving") EXCEPT !.outcome = "error"]) /\ Fail(c)
       \/ ~IsFile(c) /\ Set(c, [To(c, "leaving") EXCEPT !.outcome = "refused"]) /\ UNCHANGED latches
    /\ UNCHANGED owner /\ UNCHANGED cleanup

\* a database's __exit__ commits or rolls back; what a failed one did is unknown
LeaveDatabase(c) ==
    /\ call[c].at = "leaving" /\ ~IsFile(c)
    /\ \/ /\ Set(c, [To(c, "closing") EXCEPT !.tx = IF call[c].outcome = "ok" THEN "committed" ELSE "undone"])
          /\ UNCHANGED latches
       \/ /\ \E tx \in {"committed", "undone"} :
              Set(c, [To(c, "closing") EXCEPT !.tx = tx, !.outcome = "error"])
          /\ Fail(c)
    /\ UNCHANGED owner /\ UNCHANGED cleanup

\* close, or a file's __exit__: done, or failed with the handle open or not
Close(c) ==
    /\ call[c].at \in {"closing"} \cup (IF IsFile(c) THEN {"leaving"} ELSE {})
    /\ \/ /\ (~IsFile(c) \/ call[c].outcome # "ok")
          /\ Set(c, [Tell(c, call[c].outcome) EXCEPT !.handle = FALSE])
          /\ UNCHANGED latches /\ UNCHANGED cleanup
       \/ /\ IsFile(c) /\ call[c].outcome = "ok"
          /\ Set(c, [To(c, "publishing") EXCEPT !.handle = FALSE])
          /\ UNCHANGED latches /\ UNCHANGED cleanup
       \/ \E lost \in BOOLEAN : Set(c, [Tell(c, "error") EXCEPT !.handle = lost]) /\ Retain(c)
    /\ UNCHANGED owner

\* the temporary file becomes the real one after its close has returned
Publish(c) ==
    /\ call[c].at = "publishing"
    /\ \/ Set(c, [Tell(c, "ok") EXCEPT !.tx = "committed"]) /\ UNCHANGED latches
       \/ Set(c, Tell(c, "error")) /\ Fail(c)
    /\ UNCHANGED owner /\ UNCHANGED cleanup

\* the owner joins the uses that it has admitted, then looks at its stores
CloseOwner ==
    /\ owner = "open" /\ owner' = "closing"
    /\ UNCHANGED call /\ UNCHANGED latches /\ UNCHANGED cleanup

\* the stores that the owner was handed, also those it never got a name for
Unresolved == kept # {}

Settle ==
    /\ owner = "closing" /\ \A c \in Calls : call[c].at \in {"idle", "done"}
    /\ owner' = IF Unresolved THEN "held" ELSE "released"
    /\ UNCHANGED call /\ UNCHANGED latches /\ UNCHANGED cleanup

Next ==
    \/ CloseOwner \/ Settle
    \/ \E c \in Calls :
        \/ \E s \in Stores : Begin(c, s)
        \/ Open(c) \/ Enter(c) \/ Body(c) \/ LeaveDatabase(c) \/ Close(c) \/ Publish(c)

Spec == Init /\ [][Next]_vars

-----------------------------------------------------------------------------
(* A use that reports success has committed and holds nothing; one that refuses  *)
(* a request has undone it; an error of storage is known to the owner before its  *)
(* handle is touched again ("Receipt fault BEFORE same rollback/close",           *)
(* conversations.py:157); and an owner that reports its resources released has    *)
(* no handle of any store left, not even one that a factory never returned.       *)
StoresTruthful ==
    /\ \A c \in Calls :
        /\ call[c].told = "ok" => call[c].tx = "committed" /\ ~call[c].handle
        /\ call[c].told = "refused" => call[c].tx = "undone" /\ ~call[c].handle
        /\ "error" \in {call[c].outcome, call[c].told} => fault /\ failed[On(c)]
    /\ owner = "released" => \A c \in Calls : ~call[c].handle

-----------------------------------------------------------------------------
(* Why the stores are truthful: what a use has become says what it reported,  *)
(* and whatever it may have left open is with the owner.                      *)

Steps == {"idle", "opening", "entering", "body", "leaving", "closing", "publishing", "done"}
Answers == {"none", "ok", "error", "refused", "absent"}

TypeOK ==
    /\ call \in [Calls -> [at : Steps, on : Stores \cup {"none"}, handle : BOOLEAN,
                           tx : {"none", "begun", "committed", "undone"},
                           outcome : Answers, told : Answers]]
    /\ failed \in [Stores -> BOOLEAN]

\* A use that began has a store, and until it opens nothing.
Placed(c) ==
    /\ call[c].at # "idle" => On(c) \in Stores
    /\ call[c].at \in {"idle", "opening", "publishing"} => ~call[c].handle
    /\ call[c].outcome # "none" => call[c].at # "idle"
    /\ call[c].told # "none" => call[c].at = "done"

\* The outcome of the body is that of its transaction before the handle closes.
OutcomeKept(c) ==
    /\ call[c].at = "leaving" /\ IsFile(c) => call[c].outcome # "refused"
    /\ call[c].at = "closing" => /\ call[c].outcome = "ok" => call[c].tx = "committed"
                                 /\ call[c].outcome = "refused" => call[c].tx = "undone"

Reported(c) ==
    /\ call[c].told = "ok" => call[c].tx = "committed" /\ ~call[c].handle
    /\ call[c].told = "refused" => call[c].tx = "undone" /\ ~call[c].handle
    /\ "error" \in {call[c].outcome, call[c].told} => fault /\ failed[On(c)]

Retained(c) == call[c].at = "done" /\ call[c].handle => On(c) \in kept

UseSound(c) == Placed(c) /\ OutcomeKept(c) /\ Reported(c) /\ Retained(c)

ReleasedSound ==
    owner = "released" => kept = {} /\ \A c \in Calls : call[c].at \in {"idle", "done"}

StoresInv == TypeOK /\ (\A c \in Calls : UseSound(c)) /\ ReleasedSound
=============================================================================
