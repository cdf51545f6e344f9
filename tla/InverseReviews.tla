--------------------------- MODULE InverseReviews ---------------------------
(***************************************************************************)
(* Manual inverse patches: an operator prepares the inverse of an applied   *)
(* patch, decides on it, and reconciles what a failure left undecided.      *)
(*                                                                         *)
(* The review, the ledger row of its effect and the files are three stores  *)
(* that no transaction spans.  Every operation holds the workspace's write  *)
(* lock, so they do not interleave with one another: what interleaves with  *)
(* the steps of one are its failures, a crash, the clock and the user.      *)
(* PatchApply has the effect in detail; here it succeeds, is undone, or     *)
(* leaves the files half way.                                               *)
(***************************************************************************)
EXTENDS Naturals, FiniteSets

CONSTANTS
    Reviews,     \* operation ids the operator uses
    MaxPending,  \* MAX_PENDING
    MaxEdits,    \* bound: edits of the user
    MaxCrashes   \* bound: process crashes

VARIABLES
    files,        \* the patched files: as the patch left them, as before it, or neither
    preimage,     \* the source receipt still holds what the files were
    review,       \* id -> [status, overdue, decision] in inverse_patch_reviews
    row,          \* id -> status of its effect in tool_executions
    receipt,      \* id -> status of its receipt
    entered,      \* id -> times its effect reached the files (history)
    work,         \* the operation under the write lock
    quarantined,  \* start found unsealed rows: metadata only
    edits, crashes

vars == <<files, preimage, review, row, receipt, entered, work, quarantined, edits, crashes>>

Statuses == {"none", "pending", "applying", "applied", "failed", "rejected", "expired",
             "indeterminate"}
Idle == [pc |-> "idle"]

Init ==
    /\ files = "after"
    /\ preimage = TRUE
    /\ review = [r \in Reviews |-> [status |-> "none", overdue |-> FALSE, decision |-> ""]]
    /\ row = [r \in Reviews |-> "none"]
    /\ receipt = [r \in Reviews |-> "none"]
    /\ entered = [r \in Reviews |-> 0]
    /\ work = Idle
    /\ quarantined = FALSE
    /\ edits = 0 /\ crashes = 0

TypeOK ==
    /\ files \in {"after", "before", "other"}
    /\ review \in [Reviews -> [status : Statuses, overdue : BOOLEAN,
                               decision : {"", "approve", "reject"}]]
    /\ row \in [Reviews -> {"none", "running", "completed", "failed"}]
    /\ receipt \in [Reviews -> {"none", "prepared", "applied", "failed"}]
    /\ entered \in [Reviews -> Nat]
    /\ work \in {Idle} \cup
         [pc : {"bind", "reserve", "effect", "seal", "seal_failed", "except", "finish"}, r : Reviews]

Free == work = Idle /\ ~quarantined
At(pc) == work.pc = pc
Goto(pc) == work' = [work EXCEPT !.pc = pc]
Status(r) == review[r].status
SetStatus(r, status) == review' = [review EXCEPT ![r].status = status]
Still == UNCHANGED <<preimage, quarantined, edits, crashes>>

\* _expire: a pending review whose time is over.
Lapsed(r) == Status(r) = "pending" /\ review[r].overdue

Live == {r \in Reviews : Status(r) = "applying" \/ (Status(r) = "pending" /\ ~review[r].overdue)}

-----------------------------------------------------------------------------
(* prepare *)

\* read_applied_patch, prepare_inverse on the files as they are, save.
Prepare(r) ==
    /\ Free
    /\ Status(r) = "none"
    /\ preimage
    /\ files = "after"
    /\ Cardinality(Live) < MaxPending
    /\ SetStatus(r, "pending")
    /\ UNCHANGED <<files, row, receipt, entered, work>> /\ Still

\* The same operation id again: the stored review, after its expiry.
PrepareReplay(r) ==
    /\ Free
    /\ Lapsed(r)
    /\ SetStatus(r, "expired")
    /\ UNCHANGED <<files, row, receipt, entered, work>> /\ Still

-----------------------------------------------------------------------------
(* decide: claim, then the effect through the ledger, then the verdict *)

ClaimLapsed(r) ==
    /\ Free
    /\ Lapsed(r)
    /\ SetStatus(r, "expired")
    /\ UNCHANGED <<files, row, receipt, entered, work>> /\ Still

ClaimReject(r) ==
    /\ Free
    /\ Status(r) = "pending" /\ ~Lapsed(r)
    /\ review' = [review EXCEPT ![r].status = "rejected", ![r].decision = "reject"]
    /\ UNCHANGED <<files, row, receipt, entered, work>> /\ Still

ClaimApprove(r) ==
    /\ Free
    /\ Status(r) = "pending" /\ ~Lapsed(r)
    /\ review' = [review EXCEPT ![r].status = "applying", ![r].decision = "approve"]
    /\ work' = [pc |-> "bind", r |-> r]
    /\ UNCHANGED <<files, row, receipt, entered>> /\ Still

\* The stored source must still be the one the proposal inverts.
Bind ==
    /\ At("bind")
    /\ \/ preimage /\ Goto("reserve")
       \/ Goto("except")
    /\ UNCHANGED <<files, review, row, receipt, entered>> /\ Still

\* _begin, which may fail with or without its row.
Reserve ==
    /\ At("reserve")
    /\ \/ Goto("except") /\ UNCHANGED row
       \/ /\ row' = [row EXCEPT ![work.r] = "running"]
          /\ \E pc \in {"effect", "except"} : Goto(pc)
    /\ UNCHANGED <<files, review, receipt, entered>> /\ Still

\* apply refuses before any effect: a changed file, or an error.
Refuse ==
    /\ At("effect")
    /\ Goto("seal_failed")
    /\ UNCHANGED <<files, review, row, receipt, entered>> /\ Still

\* apply reaches the files; when it fails it puts them back, or part of them.
Effect ==
    /\ At("effect")
    /\ files = "after"
    /\ receipt' = [receipt EXCEPT ![work.r] = "prepared"]
    /\ entered' = [entered EXCEPT ![work.r] = @ + 1]
    /\ \/ files' = "before" /\ Goto("seal")
       \/ files' \in {"after", "other"} /\ Goto("seal_failed")
    /\ UNCHANGED <<review, row>> /\ Still

\* The sealing transaction commits, commits and then raises, or does not commit.
Seal ==
    /\ At("seal")
    /\ \/ /\ row' = [row EXCEPT ![work.r] = "completed"]
          /\ receipt' = [receipt EXCEPT ![work.r] = "applied"]
          /\ \E pc \in {"finish", "except"} : Goto(pc)
       \/ Goto("except") /\ UNCHANGED <<row, receipt>>
    /\ UNCHANGED <<files, review, entered>> /\ Still

SealFailed ==
    /\ At("seal_failed")
    /\ \/ /\ row' = [row EXCEPT ![work.r] = "failed"]
          /\ receipt' = [receipt EXCEPT ![work.r] = IF @ = "none" THEN "none" ELSE "failed"]
       \/ UNCHANGED <<row, receipt>>
    /\ Goto("except")
    /\ UNCHANGED <<files, review, entered>> /\ Still

\* Fault: every exception of a decision counts as a failure without effect.
VerdictFailed(r) == "failed"

\* What the exception of a decision may conclude from the row alone.
Verdict(r) == IF row[r] \in {"none", "failed"} THEN "failed" ELSE "indeterminate"

\* finish may fail too: the review stays applying.
Except ==
    /\ At("except")
    /\ \/ SetStatus(work.r, Verdict(work.r))
       \/ UNCHANGED review
    /\ work' = Idle
    /\ UNCHANGED <<files, row, receipt, entered>> /\ Still

Finish ==
    /\ At("finish")
    /\ \/ SetStatus(work.r, "applied")
       \/ UNCHANGED review
    /\ work' = Idle
    /\ UNCHANGED <<files, row, receipt, entered>> /\ Still

-----------------------------------------------------------------------------
(* reconcile, retention *)

\* read_patch_evidence decides; no row at all proves nothing.
Evidence(r) ==
    CASE row[r] = "completed" /\ receipt[r] = "applied" -> "applied"
      [] row[r] = "failed" -> "failed"
      [] OTHER -> "indeterminate"

Reconcile(r) ==
    /\ Free
    /\ Status(r) \in {"applying", "indeterminate"}
    /\ SetStatus(r, Evidence(r))
    /\ UNCHANGED <<files, row, receipt, entered, work>> /\ Still

\* root_record: no effect of the run may be unsealed.
Quiescent == \A r \in Reviews : row[r] # "running"

RetainReviews(r) ==
    /\ Free
    /\ Quiescent
    /\ Lapsed(r)
    /\ SetStatus(r, "expired")
    /\ UNCHANGED <<files, row, receipt, entered, work>> /\ Still

\* has_live_review: any review without a final status protects the whole run.
LiveReview == \E r \in Reviews : Status(r) \in {"pending", "applying", "indeterminate"}

RetainReceipts ==
    /\ Free
    /\ Quiescent
    /\ preimage
    /\ ~LiveReview
    /\ preimage' = FALSE
    /\ UNCHANGED <<files, review, row, receipt, entered, work, quarantined, edits, crashes>>

-----------------------------------------------------------------------------
(* Clock, user and crash *)

Overdue(r) ==
    /\ Status(r) = "pending" /\ ~review[r].overdue
    /\ review' = [review EXCEPT ![r].overdue = TRUE]
    /\ UNCHANGED <<files, row, receipt, entered, work>> /\ Still

Edit(f) ==
    /\ edits < MaxEdits
    /\ files' = f
    /\ edits' = edits + 1
    /\ UNCHANGED <<preimage, review, row, receipt, entered, work, quarantined, crashes>>

\* The next process looks for unsealed rows before it serves operations.
Crash ==
    /\ crashes < MaxCrashes
    /\ crashes' = crashes + 1
    /\ work' = Idle
    /\ quarantined' = ~Quiescent
    /\ UNCHANGED <<files, preimage, review, row, receipt, entered, edits>>

Next ==
    \/ \E r \in Reviews :
          Prepare(r) \/ PrepareReplay(r) \/ ClaimLapsed(r) \/ ClaimReject(r) \/ ClaimApprove(r)
          \/ Reconcile(r) \/ RetainReviews(r) \/ Overdue(r)
    \/ Bind \/ Reserve \/ Refuse \/ Effect \/ Seal \/ SealFailed \/ Except \/ Finish
    \/ RetainReceipts \/ Crash
    \/ \E f \in {"after", "other"} : Edit(f)

Spec == Init /\ [][Next]_vars

-----------------------------------------------------------------------------
(* Properties *)

\* Whatever fails between the three stores, a verdict is never ahead of its
\* evidence: applied needs the sealed row and receipt of one effect, failed a
\* row that proves a known end, and a review nobody approved has no row.  No
\* approval reaches the files twice.
VerdictHasEvidence ==
    \A r \in Reviews :
        /\ Status(r) = "applied" => row[r] = "completed" /\ receipt[r] = "applied"
        /\ Status(r) = "failed" => row[r] \in {"none", "failed"}
        /\ review[r].decision # "approve" => row[r] = "none"
        /\ row[r] = "none" => entered[r] = 0
        /\ entered[r] <= 1

\* While any review of the run is undecided, retention keeps the contents the
\* inverse would restore.
UndecidedKeepsPreimage ==
    ~preimage => \A r \in Reviews : Status(r) \notin {"pending", "applying", "indeterminate"}

-----------------------------------------------------------------------------
(* Why verdicts have evidence: the row of a review is written only by the    *)
(* operation that applies it, and that operation knows how far its row is.   *)

ReviewSound(r) ==
    /\ review[r].decision = "approve"
          <=> Status(r) \in {"applying", "applied", "failed", "indeterminate"}
    /\ row[r] # "none" => review[r].decision = "approve"
    /\ row[r] = "none" => entered[r] = 0
    /\ row[r] = "completed" => receipt[r] = "applied"
    /\ entered[r] \in {0, 1}
    /\ Status(r) = "applied" => row[r] = "completed"
    /\ Status(r) = "failed" => row[r] \in {"none", "failed"}

WorkSound ==
    work # Idle =>
        /\ Status(work.r) = "applying"
        /\ work.pc \in {"bind", "reserve"} => row[work.r] = "none"
        /\ work.pc \in {"effect", "seal", "seal_failed"} => row[work.r] = "running"
        /\ work.pc = "effect" => entered[work.r] = 0
        /\ work.pc = "finish" => row[work.r] = "completed"

ReviewsInv ==
    TypeOK /\ (\A r \in Reviews : ReviewSound(r)) /\ WorkSound /\ UndecidedKeepsPreimage
=============================================================================
