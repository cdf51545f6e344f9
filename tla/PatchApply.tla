----------------------------- MODULE PatchApply -----------------------------
(***************************************************************************)
(* PatchService.apply under execute_patch_once: an approved patch, and then *)
(* the inverse of it, are applied file by file while another program writes *)
(* the same files, any system call may raise and the process may die.       *)
(*                                                                         *)
(* The ledger row and its receipt are what the rest of the system knows of  *)
(* a patch; effect is what happened to the files.  One action is one        *)
(* snapshot, one system call that changes a file, or one transaction.       *)
(* A file's data stands for its bytes and mode, its id for the identity of  *)
(* lstat (inode, size, times): every write makes a new one.                 *)
(***************************************************************************)
EXTENDS Naturals, Sequences

CONSTANTS
    NFiles,        \* files of the patch, changed in this order
    MaxUserWrites  \* bound: writes of the other program

Files == 1..NFiles
Rounds == {1, 2}   \* the patch, then its inverse

VARIABLES
    file,      \* file -> [data, id, by]
    writes,    \* writes of the other program so far
    round,     \* the patch being prepared or applied
    proposal,  \* round -> file -> [base, target], fixed when it is prepared
    row,       \* round -> status of its row in tool_executions
    receipt,   \* round -> [status, outcome] in patch_effect_receipts
    call,      \* the worker inside apply
    effect,    \* round -> file -> what apply did to it (history)
    lost       \* other program's writes that apply destroyed (history)

vars == <<file, writes, round, proposal, row, receipt, call, effect, lost>>

Data == {"missing", "old", "new", "user"}
NoReceipt == [status |-> "none", outcome |-> [i \in Files |-> "pending"]]

\* at: the file the worker is at; seen: identity compared last; mine: identity
\* observed after its own write; replaced: files written, latest first.
NoCall == [pc |-> "prepare", at |-> 1, seen |-> [i \in Files |-> 0],
           cmp |-> 0, mine |-> [i \in Files |-> 0], replaced |-> <<>>,
           outcome |-> [i \in Files |-> "unchanged"], temps |-> {}, raised |-> FALSE]

Init ==
    /\ file \in [Files -> {[data |-> d, id |-> 1, by |-> "user"] : d \in {"missing", "old"}}]
    /\ writes = 0
    /\ round = 1
    /\ proposal = [r \in Rounds |-> [i \in Files |-> [base |-> "none", target |-> "none"]]]
    /\ row = [r \in Rounds |-> "none"]
    /\ receipt = [r \in Rounds |-> NoReceipt]
    /\ call = NoCall
    /\ effect = [r \in Rounds |-> [i \in Files |-> "none"]]
    /\ lost = {}

TypeOK ==
    /\ \A i \in Files : file[i].data \in Data /\ file[i].id \in Nat
    /\ \A r \in Rounds : row[r] \in {"none", "running", "completed", "failed"}
    /\ \A r \in Rounds : receipt[r].status \in {"none", "prepared", "applied", "failed"}
    /\ call.at \in 1..(NFiles + 1)
    /\ call.outcome \in [Files -> {"unchanged", "applied", "preserved", "rolled_back", "unknown"}]
    /\ effect \in [Rounds -> [Files -> {"none", "replaced", "restored"}]]

At(pc) == call.pc = pc
Here == file[call.at]
Change == proposal[round][call.at]
Unmoved == UNCHANGED <<writes, round, proposal>>

\* The worker leaves the loop over the files by an exception.
Raise(c) == [c EXCEPT !.raised = TRUE, !.pc = "rollback"]

-----------------------------------------------------------------------------
(* prepare, prepare_inverse *)

\* One file is read and its change bound to what was read.
PrepareFile ==
    /\ At("prepare")
    /\ call.at <= NFiles
    /\ round = 2 => Here.data = proposal[1][call.at].target
    /\ proposal' = [proposal EXCEPT ![round][call.at] =
          [base |-> Here.data,
           target |-> IF round = 1 THEN "new" ELSE proposal[1][call.at].base]]
    /\ call' = [call EXCEPT !.at = @ + 1]
    /\ UNCHANGED <<file, writes, round, row, receipt, effect, lost>>

\* A patch that changes nothing, or a source the user has changed since.
PrepareRefused ==
    /\ At("prepare")
    /\ call.at <= NFiles
    /\ IF round = 1 THEN Here.data = "new" ELSE Here.data # proposal[1][call.at].target
    /\ call' = [call EXCEPT !.pc = "end"]
    /\ UNCHANGED <<file, writes, round, proposal, row, receipt, effect, lost>>

\* The approved proposal enters execute_patch_once: its key is reserved.
Reserve ==
    /\ At("prepare")
    /\ call.at = NFiles + 1
    /\ row' = [row EXCEPT ![round] = "running"]
    /\ call' = [call EXCEPT !.pc = "check", !.at = 1]
    /\ UNCHANGED <<file, receipt, effect, lost>> /\ Unmoved

-----------------------------------------------------------------------------
(* apply: before any effect *)

Check ==
    /\ At("check")
    /\ call.at <= NFiles
    /\ call' = IF Here.data = Change.base
               THEN [call EXCEPT !.seen[call.at] = Here.id, !.at = @ + 1]
               ELSE [call EXCEPT !.pc = "fail"]
    /\ UNCHANGED <<file, row, receipt, effect, lost>> /\ Unmoved

RecordIntent ==
    /\ At("check")
    /\ call.at = NFiles + 1
    /\ \/ /\ receipt' = [receipt EXCEPT ![round].status = "prepared"]
          /\ \E pc \in {"temporary", "fail"} : call' = [call EXCEPT !.pc = pc, !.at = 1]
       \/ call' = [call EXCEPT !.pc = "fail"] /\ UNCHANGED receipt
    /\ UNCHANGED <<file, row, effect, lost>> /\ Unmoved

\* Every new content is written beside its target first.
Temporary ==
    /\ At("temporary")
    /\ \/ call' = [call EXCEPT !.temps = {i \in Files : proposal[round][i].target # "missing"},
                               !.pc = "compare"]
       \/ call' = Raise(call)
    /\ UNCHANGED <<file, row, receipt, effect, lost>> /\ Unmoved

-----------------------------------------------------------------------------
(* apply: one file after the other *)

\* The snapshot may raise; a file that differs is a conflict.
Compare ==
    /\ At("compare")
    /\ call.at <= NFiles
    /\ call' = IF Here.data = Change.base /\ Here.id = call.seen[call.at]
               THEN [call EXCEPT !.cmp = Here.id, !.pc = "replace"]
               ELSE Raise(call)
    /\ UNCHANGED <<file, row, receipt, effect, lost>> /\ Unmoved

\* What a write of the worker destroys, if another program wrote the file.
\* window: after the worker's last comparison; twin: the worker's own bytes,
\* between its replacement and its observation, so that it took them for its own.
Destroys(expected) ==
    IF Here.by = "tool" \/ (At("replace") /\ Here.id = expected) THEN {}
    ELSE {[file |-> call.at,
           how |-> CASE Here.id # call.cmp -> "window"
                     [] Here.id = call.mine[call.at] /\ Here.data = Change.target -> "twin"
                     [] OTHER -> "seen"]}

Write(data) == file' = [file EXCEPT ![call.at] = [data |-> data, id |-> @.id + 1, by |-> "tool"]]

\* Fault: an effect is journaled only once it was observed.
ReplaceUnjournaled ==
    /\ At("replace")
    /\ Write(Change.target)
    /\ effect' = [effect EXCEPT ![round][call.at] = "replaced"]
    /\ lost' = lost \cup Destroys(call.seen[call.at])
    /\ call' = [call EXCEPT !.pc = "observe", !.temps = @ \ {call.at}]
    /\ UNCHANGED <<row, receipt>> /\ Unmoved

\* os.replace or unlink; the effect is journaled before it is observed.
Replace ==
    /\ At("replace")
    /\ Write(Change.target)
    /\ effect' = [effect EXCEPT ![round][call.at] = "replaced"]
    /\ lost' = lost \cup Destroys(call.seen[call.at])
    /\ call' = [call EXCEPT !.pc = "observe", !.replaced = <<call.at>> \o @,
                            !.temps = @ \ {call.at}]
    /\ UNCHANGED <<row, receipt>> /\ Unmoved

Observe ==
    /\ At("observe")
    /\ \/ /\ Here.data = Change.target
          /\ call' = [call EXCEPT !.mine[call.at] = Here.id, !.outcome[call.at] = "applied",
                                  !.at = @ + 1, !.pc = "compare"]
       \/ /\ Here.data # Change.target
          /\ call' = Raise([call EXCEPT !.outcome[call.at] = "preserved"])
    /\ UNCHANGED <<file, row, receipt, effect, lost>> /\ Unmoved

\* A snapshot, os.replace or unlink of the loop raises and has done nothing.
LoopRaises ==
    /\ call.pc \in {"compare", "replace", "observe"}
    /\ call.at <= NFiles
    /\ call' = Raise(call)
    /\ UNCHANGED <<file, row, receipt, effect, lost>> /\ Unmoved

Applied ==
    /\ At("compare")
    /\ call.at = NFiles + 1
    /\ call' = [call EXCEPT !.pc = "cleanup", !.at = 1]
    /\ UNCHANGED <<file, row, receipt, effect, lost>> /\ Unmoved

-----------------------------------------------------------------------------
(* apply: the handler undoes its writes, latest first *)

Undoing == Head(call.replaced)

\* The next file to undo, or none is left.
RollbackNext ==
    /\ At("rollback")
    /\ call' = IF call.replaced = <<>> THEN [call EXCEPT !.pc = "cleanup", !.at = 1]
               ELSE [call EXCEPT !.pc = "rollback_compare", !.at = Undoing]
    /\ UNCHANGED <<file, row, receipt, effect, lost>> /\ Unmoved

Undone(outcome) ==
    [call EXCEPT !.pc = "rollback", !.outcome[call.at] = outcome, !.replaced = Tail(@)]

StillMine ==
    /\ call.outcome[call.at] = "applied"
    /\ Here.data = Change.target
    /\ Here.id = call.mine[call.at]

RollbackCompare ==
    /\ At("rollback_compare")
    /\ call' = IF StillMine THEN [call EXCEPT !.cmp = Here.id, !.pc = "restore"]
               ELSE Undone("preserved")
    /\ UNCHANGED <<file, row, receipt, effect, lost>> /\ Unmoved

\* The preimage is put back; removing the temporary may still raise.
Restore ==
    /\ At("restore")
    /\ Write(Change.base)
    /\ effect' = [effect EXCEPT ![round][call.at] = "restored"]
    /\ lost' = lost \cup Destroys(call.mine[call.at])
    /\ \E outcome \in {"rolled_back", "unknown"} : call' = Undone(outcome)
    /\ UNCHANGED <<row, receipt>> /\ Unmoved

RollbackRaises ==
    /\ call.pc \in {"rollback_compare", "restore"}
    /\ call' = Undone("unknown")
    /\ UNCHANGED <<file, row, receipt, effect, lost>> /\ Unmoved

-----------------------------------------------------------------------------
(* The end of apply and of execute_patch_once *)

\* Removing the temporaries may raise: the caller then gets that error.
Cleanup ==
    /\ At("cleanup")
    /\ \/ call' = [call EXCEPT !.pc = "seal", !.temps = {}]
       \/ call' = [call EXCEPT !.pc = "seal", !.raised = TRUE]
    /\ UNCHANGED <<file, row, receipt, effect, lost>> /\ Unmoved

AllApplied == \A i \in Files : call.outcome[i] = "applied"

Completed == [status |-> IF AllApplied THEN "applied" ELSE "failed", outcome |-> call.outcome]

\* _finish_patch: receipt and row in one transaction.
Seal ==
    /\ At("seal")
    /\ receipt' = [receipt EXCEPT ![round] = Completed]
    /\ row' = [row EXCEPT ![round] = IF call.raised THEN "failed" ELSE "completed"]
    /\ call' = [call EXCEPT !.pc = "end"]
    /\ UNCHANGED <<file, effect, lost>> /\ Unmoved

\* An error before the effects: the row fails, whatever intent there is stays.
SealFailed ==
    /\ At("fail")
    /\ row' = [row EXCEPT ![round] = "failed"]
    /\ call' = [call EXCEPT !.pc = "end"]
    /\ UNCHANGED <<file, receipt, effect, lost>> /\ Unmoved

\* The sealing transaction fails, or the process dies: the row stays running.
Unsealed ==
    /\ call.pc \notin {"prepare", "end", "lost"}
    /\ call' = [call EXCEPT !.pc = "lost"]
    /\ UNCHANGED <<file, row, receipt, effect, lost>> /\ Unmoved

\* The operator asks for the inverse of what read_applied_patch confirms.
Confirmed == row[1] = "completed" /\ receipt[1].status = "applied"

PrepareInverse ==
    /\ At("end")
    /\ round = 1
    /\ Confirmed
    /\ round' = 2
    /\ call' = NoCall
    /\ UNCHANGED <<file, writes, proposal, row, receipt, effect, lost>>

-----------------------------------------------------------------------------
\* Another program replaces a file, with its own data or by chance with ours.
UserWrite(i, d) ==
    /\ writes < MaxUserWrites
    /\ file' = [file EXCEPT ![i] = [data |-> d, id |-> @.id + 1, by |-> "user"]]
    /\ writes' = writes + 1
    /\ UNCHANGED <<round, proposal, row, receipt, call, effect, lost>>

Next ==
    \/ PrepareFile \/ PrepareRefused \/ Reserve
    \/ Check \/ RecordIntent \/ Temporary
    \/ Compare \/ Replace \/ Observe \/ LoopRaises \/ Applied
    \/ RollbackNext \/ RollbackCompare \/ Restore \/ RollbackRaises
    \/ Cleanup \/ Seal \/ SealFailed \/ Unsealed \/ PrepareInverse
    \/ \E i \in Files, d \in {"user", "new"} : UserWrite(i, d)

Spec == Init /\ [][Next]_vars

-----------------------------------------------------------------------------
(* Properties *)

\* A row that is not running tells the truth: its receipt names, file by file,
\* what apply did, and a completed row that every file was replaced and none
\* put back.  A failed row whose receipt is still the intent touched nothing.
Told == [unchanged |-> {"none"}, applied |-> {"replaced"}, preserved |-> {"replaced"},
         rolled_back |-> {"restored"}, unknown |-> {"replaced", "restored"}, pending |-> {"none"}]

ReceiptTruthful ==
    \A r \in Rounds :
        row[r] \in {"completed", "failed"} =>
            /\ \A i \in Files : effect[r][i] \in Told[receipt[r].outcome[i]]
            /\ row[r] = "completed" => receipt[r].status = "applied"
            /\ receipt[r].status = "applied" => \A i \in Files : effect[r][i] = "replaced"

\* No file is touched before its preimage is durable: after a crash at any
\* point the receipt of the round says what the file held.
PreimageBeforeEffect ==
    \A r \in Rounds, i \in Files :
        effect[r][i] # "none" => receipt[r].status # "none" /\ row[r] # "none"

\* The patch destroys a write of another program only if that write fell
\* between the worker's last comparison of the file and its own write, or put
\* the patch's own bytes there before the worker first looked at them.
OnlyRacingWriteLost == \A l \in lost : l.how \in {"window", "twin"}

(***************************************************************************)
(* Why they hold: the files replaced are the first ones of the patch, the  *)
(* handler undoes them from the last, and every other file is as its       *)
(* outcome tells; a write that the worker itself has compared is destroyed *)
(* by nobody, because its identity is still the one compared.              *)
(***************************************************************************)
Outcomes == {"unchanged", "applied", "preserved", "rolled_back", "unknown"}
Undoes == {"rollback", "rollback_compare", "restore"}
Works == {"temporary", "compare", "replace", "observe", "cleanup", "seal"} \cup Undoes
CallStates == [pc : Works \cup {"prepare", "check", "fail", "end", "lost"}, at : 1..(NFiles + 1),
               seen : [Files -> Nat], cmp : Nat, mine : [Files -> Nat], replaced : Seq(Files),
               outcome : [Files -> Outcomes], temps : SUBSET Files, raised : BOOLEAN]
Changes == [base : Data \cup {"none"}, target : Data \cup {"none"}]

PatchTypes ==
    /\ file \in [Files -> [data : Data, id : Nat, by : {"user", "tool"}]]
    /\ round \in Rounds /\ proposal \in [Rounds -> [Files -> Changes]]
    /\ row \in [Rounds -> {"none", "running", "completed", "failed"}]
    /\ receipt \in [Rounds -> [status : {"none", "prepared", "applied", "failed"},
                               outcome : [Files -> Outcomes \cup {"pending"}]]]
    /\ call \in CallStates
    /\ effect \in [Rounds -> [Files -> {"none", "replaced", "restored"}]]

\* A change is fixed before it is reserved, the patch's before its inverse is prepared.
Fixed(r, i) == proposal[r][i].base \in Data /\ proposal[r][i].target \in Data

ProposalSound ==
    /\ \A r \in Rounds : row[r] # "none" => \A i \in Files : Fixed(r, i)
    /\ At("prepare") => \A i \in 1..(call.at - 1) : Fixed(round, i)

Untried(r) ==
    /\ receipt[r].status # "applied"
    /\ \A i \in Files : receipt[r].outcome[i] = "pending" /\ effect[r][i] = "none"

RowSound ==
    /\ round = 1 => row[2] = "none" /\ Untried(2)
    /\ round = 2 => row[1] # "none"
    /\ At("prepare") => row[round] = "none"
    /\ call.pc \in {"prepare", "check", "fail", "temporary"} =>
          Untried(round) /\ call.replaced = <<>> /\ \A i \in Files : call.outcome[i] = "unchanged"
    /\ call.pc \in Works \cup {"check", "fail", "lost"} => row[round] = "running"
    /\ call.pc \in Works => receipt[round].status = "prepared"

Latest == Len(call.replaced)

\* The first files of the patch have been replaced and found so, no other was touched.
LoopSound ==
    /\ \A k \in 1..Latest : call.replaced[k] = Latest + 1 - k
    /\ call.pc \in {"replace", "observe"} => call.at <= NFiles
    /\ call.pc \in {"compare", "replace"} => Latest = call.at - 1
    /\ At("observe") => Latest = call.at
    /\ At("temporary") => call.at = 1
    /\ call.pc \in {"compare", "replace", "observe"} =>
          \A i \in Files :
              /\ call.outcome[i] = IF i < call.at THEN "applied" ELSE "unchanged"
              /\ effect[round][i] = IF i <= Latest THEN "replaced" ELSE "none"

UndoSound ==
    /\ call.pc \in Undoes =>
          /\ call.raised
          /\ \A i \in Files : IF i <= Latest THEN effect[round][i] = "replaced"
                                             ELSE effect[round][i] \in Told[call.outcome[i]]
    /\ call.pc \in {"rollback_compare", "restore"} => Latest >= 1 /\ call.at = Latest
    /\ call.pc \in {"cleanup", "seal"} =>
          /\ \A i \in Files : effect[round][i] \in Told[call.outcome[i]]
          /\ call.raised \/ AllApplied

\* Between a comparison and the write that follows it.
ComparedSound ==
    /\ At("replace") => call.cmp = call.seen[call.at]
    /\ At("restore") => /\ call.cmp = call.mine[call.at] /\ call.cmp <= Here.id
                        /\ Here.id = call.cmp => Here.data = Change.target

PatchInv ==
    /\ PatchTypes /\ ProposalSound /\ RowSound /\ LoopSound /\ UndoSound /\ ComparedSound
    /\ ReceiptTruthful /\ PreimageBeforeEffect /\ OnlyRacingWriteLost

\* A patch has a number of files.
PatchBound == NFiles \in Nat
=============================================================================
