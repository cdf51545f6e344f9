------------------------------ MODULE Components ------------------------------
(***************************************************************************)
(* Thirteen components that meet failures, crashes, cancellations or other  *)
(* writers.  They share no state and a behaviour moves one of them, chosen   *)
(* at its start: what is explored is the sum of their state spaces, not the *)
(* product.  CheckpointLease is the module extended; the others are         *)
(* instances, with constants and variables renamed where two have the same  *)
(* name.                                                                    *)
(***************************************************************************)
EXTENDS CheckpointLease, Sequences

CONSTANTS
    \* PatchApply
    NFiles, MaxUserWrites,
    \* InverseReviews
    InverseIds, MaxPending, InverseEdits, InverseCrashes,
    \* VerificationReviews
    VerificationIds, Cancels, NCommands, Capacity, VerificationCrashes,
    \* ToolReview
    Plans, MaxSteps, ToolEdits,
    \* StoreFrames
    Uses, Stores, StoreFiles,
    \* GitView
    Queries, MaxWrites,
    \* ServiceLife
    Procs, Ops, Readers,
    \* ProviderAttempts
    ProviderCalls, MaxAttempts, RunRetries, Threshold, MaxFailures,
    \* ProjectSwitch
    Projects, Kernels, HomeProject,
    \* ConversationContext
    Conversations, MaxTurns, MaxGroups, TurnCrashes,
    \* ProfileKeys
    Dests, Models, Probes, Runs, Requests, MaxRevisions, ProfileEdits,
    \* ToolLedger
    LedgerKeys, Ledgers, Callers, Inputs, LedgerCrashes

VARIABLES
    subject,   \* the component this behaviour is about
    \* PatchApply
    file, writes, round, proposal, row, receipt, call, effect, lost,
    \* InverseReviews
    files, preimage, review, inverse_row, inverse_receipt, entered,
    inverse_work, quarantined, edits, crashes,
    \* VerificationReviews
    verification_review, steps, stops, stale, task, lock, request, results,
    launches, booting, verification_crashes,
    \* ToolReview
    engine, tools_at, step, calls, done, saved, tools_review, asked, verdict,
    effects, workspace,
    \* StoreFrames
    stores_call, failed, stores_unclear, fault, kept, stores_owner,
    \* GitView
    linked, history, grant, shown, revoked, desk, query,
    \* ServiceLife
    holder, svc, life, serving, service_asked, broken, uncertain, op, run,
    journal, read,
    \* ProviderAttempts
    provider_call, frames, circuit, retries, provider_broken, posts, exposed,
    \* ProjectSwitch
    kernel, desktop_owner, selected, act, gone, fenced, desktop_unclear,
    desktop_catalog, destroyed, finished, left,
    \* ConversationContext
    turns_row, accepted, status, thread, lease, fallback, turns_at, outcome,
    checkpoint, context, turns_crashes,
    \* ProfileKeys
    profile_file, pending, temp, profile_broken, probe, profile_run, clients,
    proved, last, profile_edits,
    \* ToolLedger
    ledger_row, performed, latch, ledger_caller, ledger_quarantined, restarts

Patch == INSTANCE PatchApply
Undo == INSTANCE InverseReviews WITH
    Reviews <- InverseIds, MaxEdits <- InverseEdits, MaxCrashes <- InverseCrashes,
    row <- inverse_row, receipt <- inverse_receipt, work <- inverse_work
Verification == INSTANCE VerificationReviews WITH
    Reviews <- VerificationIds, MaxCrashes <- VerificationCrashes,
    review <- verification_review, crashes <- verification_crashes
Tools == INSTANCE ToolReview WITH
    MaxEdits <- ToolEdits, at <- tools_at, review <- tools_review
Frames == INSTANCE StoreFrames WITH
    Calls <- Uses, Files <- StoreFiles, call <- stores_call,
    unclear <- stores_unclear,
    owner <- stores_owner
Git == INSTANCE GitView
Service == INSTANCE ServiceLife WITH
    asked <- service_asked
Provider == INSTANCE ProviderAttempts WITH
    Calls <- ProviderCalls, call <- provider_call, broken <- provider_broken
Desktop == INSTANCE ProjectSwitch WITH
    Home <- HomeProject, owner <- desktop_owner, unclear <- desktop_unclear,
    catalog <- desktop_catalog
Turns == INSTANCE ConversationContext WITH
    MaxCrashes <- TurnCrashes, row <- turns_row, at <- turns_at,
    crashes <- turns_crashes
Profile == INSTANCE ProfileKeys WITH
    MaxEdits <- ProfileEdits, file <- profile_file, broken <- profile_broken,
    run <- profile_run, edits <- profile_edits
Ledger == INSTANCE ToolLedger WITH
    Keys <- LedgerKeys, MaxRestarts <- LedgerCrashes, row <- ledger_row,
    caller <- ledger_caller, quarantined <- ledger_quarantined

ASSUME ComponentsAssumption ==
    /\ Service!Names /\ Tools!PlansAreBounded /\ Desktop!LaunchNames
    /\ Provider!Bounds /\ Profile!ProfileNames /\ Verification!PlanNames
    /\ Git!GitBound /\ Patch!PatchBound /\ Turns!TurnBound
    /\ Ledger!LedgerBound

patchVars == <<file, writes, round, proposal, row, receipt, call, effect,
               lost>>
inverseVars == <<files, preimage, review, inverse_row, inverse_receipt,
                 entered, inverse_work, quarantined, edits, crashes>>
verificationVars == <<verification_review, steps, stops, stale, task, lock,
                      request, results, launches, booting,
                      verification_crashes>>
toolsVars == <<engine, tools_at, step, calls, done, saved, tools_review,
               asked, verdict, effects, workspace>>
storesVars == <<stores_call, failed, stores_unclear, fault, kept,
                stores_owner>>
gitVars == <<linked, history, grant, shown, revoked, desk, query>>
serviceVars == <<holder, svc, life, serving, service_asked, broken,
                 uncertain, op, run, journal, read>>
providerVars == <<provider_call, frames, circuit, retries, provider_broken,
                  posts, exposed>>
desktopVars == <<kernel, desktop_owner, selected, act, gone, fenced,
                 desktop_unclear, desktop_catalog, destroyed, finished, left>>
turnsVars == <<turns_row, accepted, status, thread, lease, fallback,
               turns_at, outcome, checkpoint, context, turns_crashes>>
profileVars == <<profile_file, pending, temp, profile_broken, probe,
                 profile_run, clients, proved, last, profile_edits>>
ledgerVars == <<ledger_row, performed, latch, ledger_caller,
                ledger_quarantined, restarts>>

allVars == <<subject, vars, patchVars, inverseVars, verificationVars,
             toolsVars, storesVars, gitVars, serviceVars,
             providerVars, desktopVars, turnsVars, profileVars,
             ledgerVars>>

Subjects == {"lease", "patch", "inverse", "verification", "tools",
             "stores", "git", "service", "provider", "desktop", "turns",
             "profile", "ledger"}

\* One component moves in a behaviour; the others rest where they start.
SumInit ==
    /\ subject \in Subjects
    /\ Init
    /\ Patch!Init
    /\ Undo!Init
    /\ Verification!Init
    /\ Tools!Init
    /\ Frames!Init
    /\ Git!Init
    /\ Service!Init
    /\ Provider!Init
    /\ Desktop!Init
    /\ Turns!Init
    /\ Profile!Init
    /\ Ledger!Init

SumNext ==
    \/ /\ subject = "lease" /\ Next
       /\ UNCHANGED <<subject, patchVars, inverseVars, verificationVars,
                       toolsVars, storesVars, gitVars, serviceVars,
                       providerVars, desktopVars, turnsVars, profileVars, ledgerVars>>
    \/ /\ subject = "patch" /\ Patch!Next
       /\ UNCHANGED <<subject, vars, inverseVars, verificationVars,
                       toolsVars, storesVars, gitVars, serviceVars,
                       providerVars, desktopVars, turnsVars, profileVars, ledgerVars>>
    \/ /\ subject = "inverse" /\ Undo!Next
       /\ UNCHANGED <<subject, vars, patchVars, verificationVars,
                       toolsVars, storesVars, gitVars, serviceVars,
                       providerVars, desktopVars, turnsVars, profileVars, ledgerVars>>
    \/ /\ subject = "verification" /\ Verification!Next
       /\ UNCHANGED <<subject, vars, patchVars, inverseVars,
                       toolsVars, storesVars, gitVars, serviceVars,
                       providerVars, desktopVars, turnsVars, profileVars, ledgerVars>>
    \/ /\ subject = "tools" /\ Tools!Next
       /\ UNCHANGED <<subject, vars, patchVars, inverseVars,
                       verificationVars, storesVars, gitVars,
                       serviceVars, providerVars, desktopVars, turnsVars,
                       profileVars, ledgerVars>>
    \/ /\ subject = "stores" /\ Frames!Next
       /\ UNCHANGED <<subject, vars, patchVars, inverseVars,
                       verificationVars, toolsVars, gitVars,
                       serviceVars, providerVars, desktopVars, turnsVars,
                       profileVars, ledgerVars>>
    \/ /\ subject = "git" /\ Git!Next
       /\ UNCHANGED <<subject, vars, patchVars, inverseVars,
                       verificationVars, toolsVars, storesVars,
                       serviceVars, providerVars, desktopVars, turnsVars,
                       profileVars, ledgerVars>>
    \/ /\ subject = "service" /\ Service!Next
       /\ UNCHANGED <<subject, vars, patchVars, inverseVars,
                       verificationVars, toolsVars, storesVars,
                       gitVars, providerVars, desktopVars, turnsVars,
                       profileVars, ledgerVars>>
    \/ /\ subject = "provider" /\ Provider!Next
       /\ UNCHANGED <<subject, vars, patchVars, inverseVars,
                       verificationVars, toolsVars, storesVars,
                       gitVars, serviceVars, desktopVars, turnsVars,
                       profileVars, ledgerVars>>
    \/ /\ subject = "desktop" /\ Desktop!Next
       /\ UNCHANGED <<subject, vars, patchVars, inverseVars,
                       verificationVars, toolsVars, storesVars,
                       gitVars, serviceVars, providerVars, turnsVars,
                       profileVars, ledgerVars>>
    \/ /\ subject = "turns" /\ Turns!Next
       /\ UNCHANGED <<subject, vars, patchVars, inverseVars,
                       verificationVars, toolsVars, storesVars,
                       gitVars, serviceVars, providerVars, desktopVars,
                       profileVars, ledgerVars>>
    \/ /\ subject = "profile" /\ Profile!Next
       /\ UNCHANGED <<subject, vars, patchVars, inverseVars,
                       verificationVars, toolsVars, storesVars,
                       gitVars, serviceVars, providerVars, desktopVars,
                       turnsVars, ledgerVars>>
    \/ /\ subject = "ledger" /\ Ledger!Next
       /\ UNCHANGED <<subject, vars, patchVars, inverseVars,
                       verificationVars, toolsVars, storesVars,
                       gitVars, serviceVars, providerVars, desktopVars,
                       turnsVars, profileVars>>

SumSpec == SumInit /\ [][SumNext]_allVars

----------------------------------------------------------------------------
(* patching.py: the receipt of a patch tells what happened to each file, the *)
(* preimage is kept before anything is written, and another program's write  *)
(* is lost only in the window between comparison and replacement.            *)
PatchSound ==
    subject = "patch" =>
        /\ Patch!TypeOK
        /\ Patch!ReceiptTruthful
        /\ Patch!PreimageBeforeEffect
        /\ Patch!OnlyRacingWriteLost

(* inverse_reviews.py: a verdict on an inverse patch rests on its ledger row *)
(* and receipt, and no preimage goes while a review still needs it.          *)
InverseVerdicts ==
    subject = "inverse" =>
        Undo!TypeOK /\ Undo!VerdictHasEvidence /\ Undo!UndecidedKeepsPreimage

(* verification_reviews.py: a review is completed only by commands that ran  *)
(* and were sealed, none of them twice.                                      *)
EvidenceIsReal ==
    subject = "verification" => Verification!TypeOK /\ Verification!EvidenceIsReal

(* A cancellation answered means the review is over and starts nothing more. *)
CancelSettles == Verification!CancelSettles

(* graph/nodes.py, deep and legacy: a write happens only after the review of *)
(* that very call was approved, whatever is replayed.                        *)
ReviewDecides == subject = "tools" => Tools!ReviewDecides

(* storage.py and tasks/manager.py: a store whose cleanup is uncertain says  *)
(* so to its owner, and takes no further use.                                *)
StoresTruthful == subject = "stores" => Frames!StoresTruthful

(* git_metadata.py: an inspection describes one moment of the repository,    *)
(* under the grant it was made with.                                         *)
InspectionSound == subject = "git" => Git!TypeOK /\ Git!InspectionSound

(* service.py, ownership.py: only the holder of the workspace lock acts, and *)
(* an unknown effect keeps the next owner from acting.                       *)
OwnershipHolds == subject = "service" => Service!OwnershipHolds

(* provider_receipts.py: what a call says it received was sealed.            *)
ReceiptsDecide == subject = "provider" => Provider!ReceiptsDecide

(* provider.py: the breaker's one probe is a call under way, and what has    *)
(* shown output is not posted again.                                         *)
BreakerHolds == Provider!BreakerHolds

(* projects/switching.py: the desktop owns exactly the kernel it shows.      *)
DesktopOwnsOne == subject = "desktop" => Desktop!DesktopOwnsOne

(* persistence/conversations.py: a turn reads whole turns and all it may.    *)
TurnsContinueWhole == subject = "turns" => Turns!TurnsContinueWhole

(* settings.py: a key goes only where it was entered for, and a receipt      *)
(* stands for the connection that was probed.                                *)
ProfileSound == subject = "profile" => Profile!ProfileSound

(* tool_ledger.py: whatever races, fails, is cancelled, restarts or calls    *)
(* again, one tool call has its effect once.                                 *)
EffectAtMostOnce == subject = "ledger" => Ledger!EffectAtMostOnce

(* tool_ledger.py: a completed row, and a result handed out, are the truth   *)
(* about the effect of exactly that input.                                   *)
ResultsTrue == subject = "ledger" => Ledger!ResultsTrue

(* tool_recovery.py: while an effect of an earlier process is unknown, this  *)
(* one enters no effect at all.                                              *)
NoEffectPastUnknown == Ledger!NoEffectPastUnknown
==============================================================================
