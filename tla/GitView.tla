------------------------------ MODULE GitView ------------------------------
(***************************************************************************)
(* The read-only Git inspection of the Changes page.  A status or a diff   *)
(* is assembled from many small reads of a repository that other programs  *)
(* go on writing: the worktree pointer, HEAD, the loose and the packed     *)
(* reference, the index (copied into a private view that Git commands then *)
(* run in) and the files of the working tree.  Nothing locks that          *)
(* repository.  The guard of git_metadata.py remembers the signature of    *)
(* every path it looks at, and all of them are looked at again before and  *)
(* after each command and once more before the answer is given.            *)
(*                                                                         *)
(* A linked worktree keeps its metadata outside the workspace: it may only *)
(* be read under a grant, which the native window gives after the user has *)
(* confirmed one directory, and which ends when it is revoked or when the  *)
(* pointers change.                                                        *)
(*                                                                         *)
(* External: whatever else writes the repository changes one path at a     *)
(* time, and each change gives the path a signature it never had (device,  *)
(* inode, size, times; of a missing path, those of its directory).         *)
(***************************************************************************)
EXTENDS Naturals, Sequences

CONSTANTS
    Queries,    \* the status and diff requests each made at most once
    MaxWrites   \* bound: changes other programs make to the repository

VARIABLES
    linked,     \* the workspace is a linked worktree (.git is a pointer file)
    history,    \* the repository's successive contents; the last is current
    grant,      \* _git_metadata_binding, or None
    shown,      \* the directory identities the user has confirmed
    revoked,    \* the last word of the user was a revocation
    desk,       \* the native window's authorisation, a step at a time
    query       \* the state of each request

vars == <<linked, history, grant, shown, revoked, desk, query>>

None == <<>>

\* What the guard observes, in the order a request first meets it.
Order == <<"pointer", "root", "head", "loose", "packed", "index", "file">>

Paths == {Order[i] : i \in 1..Len(Order)}

Stamps == 0..MaxWrites

\* The identity of the metadata directory, and of the pointers to it.
Binding == Stamps \X Stamps

Stages == {"idle", "grant", "inspector", "discover", "head", "loose", "packed",
           "index", "check", "prepare", "git", "collect", "snapshot", "exit",
           "done"}

World == history[Len(history)]

Sign(p) == World.sign[p]

TypeOK ==
    /\ linked \in BOOLEAN
    /\ \A i \in 1..Len(history) :
          history[i] \in [sign : [Paths -> Stamps], loose : BOOLEAN]
    /\ grant \in Binding \cup {None}
    /\ shown \subseteq Stamps
    /\ revoked \in BOOLEAN
    /\ desk \in [at : {"idle", "confirm", "grant", "verify", "revoke"},
                 selected : Stamps, binding : Binding \cup {None}]
    /\ \A q \in Queries :
          /\ query[q].at \in Stages
          /\ DOMAIN query[q].seen \subseteq Paths

Request ==
    [at |-> "idle", diff |-> FALSE, binding |-> None,
     seen |-> <<>>, loose |-> FALSE, since |-> 0, then |-> "none",
     command |-> 1, view |-> FALSE, result |-> "none"]

NoDialog == [at |-> "idle", selected |-> 0, binding |-> None]

Init ==
    /\ linked \in BOOLEAN
    /\ history \in {<<[sign |-> [p \in Paths |-> 0], loose |-> l]>> : l \in BOOLEAN}
    /\ grant = None
    /\ shown = {}
    /\ revoked = FALSE
    /\ desk = NoDialog
    /\ query = [q \in Queries |-> Request]

----------------------------------------------------------------------------
(* Other programs. *)

\* A commit, a checkout, an editor or a moved worktree writes one path; a
\* loose reference may appear, or go when the references are packed.
Write(p) ==
    /\ Len(history) <= MaxWrites
    /\ p \in {"root", "pointer"} => linked
    /\ \E l \in IF p = "loose" THEN BOOLEAN ELSE {World.loose} :
          history' = Append(history, [sign |-> [World.sign EXCEPT ![p] = Len(history)],
                                      loose |-> l])
    /\ UNCHANGED <<linked, grant, shown, revoked, desk, query>>

----------------------------------------------------------------------------
(* The grant. *)

\* The workspace lock: requests share it, a grant or a revocation has it
\* alone and, once it waits, holds back the requests that come after it.
Reading == {q \in Queries : query[q].at \notin {"idle", "done"}}

DeskWrites == desk.at \in {"grant", "verify", "revoke"}

\* What a linked worktree is bound to: the pointers' contents and the
\* directories' identities.
Bound == <<Sign("root"), Sign("pointer")>>

\* _check_git_metadata_grant: a binding that no longer holds is cleared.
Lapsed == grant # None /\ grant # Bound

\* The user picks a directory; only its identity is looked at.
Select ==
    /\ desk.at = "idle"
    /\ desk' = [desk EXCEPT !.at = "confirm", !.selected = Sign("root")]
    /\ UNCHANGED <<linked, history, grant, shown, revoked, query>>

\* The dialog that shows it is confirmed, or not.
Confirm(yes) ==
    /\ desk.at = "confirm"
    /\ desk' = IF yes THEN [desk EXCEPT !.at = "grant"] ELSE NoDialog
    /\ shown' = IF yes THEN shown \cup {desk.selected} ELSE shown
    /\ UNCHANGED <<linked, history, grant, revoked, query>>

\* capture_linked_metadata, alone under the workspace lock: the selected
\* directory must still be the one that was shown, and be this worktree's.
Capture ==
    /\ desk.at = "grant"
    /\ Reading = {}
    /\ desk' = IF linked /\ Sign("root") = desk.selected
               THEN [at |-> "verify", selected |-> 0, binding |-> Bound] ELSE NoDialog
    /\ UNCHANGED <<linked, history, grant, shown, revoked, query>>

\* What was captured is compared once more, then becomes the authority.
Grant ==
    /\ desk.at = "verify"
    /\ desk' = NoDialog
    /\ grant' = IF desk.binding = Bound THEN desk.binding ELSE grant
    /\ revoked' = (revoked /\ desk.binding # Bound)
    /\ UNCHANGED <<linked, history, shown, query>>

AskRevoke ==
    /\ desk.at = "idle"
    /\ desk' = [desk EXCEPT !.at = "revoke"]
    /\ UNCHANGED <<linked, history, grant, shown, revoked, query>>

\* _revoke_git_metadata: answered only when no request reads any more.
Revoke ==
    /\ desk.at = "revoke"
    /\ Reading = {}
    /\ desk' = NoDialog
    /\ grant' = None
    /\ revoked' = TRUE
    /\ UNCHANGED <<linked, history, shown, query>>

\* The window shows the grant; a lapsed one ends.
ShowGrant ==
    /\ ~DeskWrites
    /\ Lapsed
    /\ grant' = None
    /\ UNCHANGED <<linked, history, shown, revoked, desk, query>>

----------------------------------------------------------------------------
(* A request. *)

Set(q, row) == query' = [query EXCEPT ![q] = row]

\* The request is over: with an answer, or refused with a reason.
Over(q) == [query[q] EXCEPT !.at = "exit", !.result = "refused"]

\* Every path looked at so far is looked at again, then `then` follows.
Recheck(row, then) == [row EXCEPT !.at = "check", !.then = then]

\* git_status, or git_diff.
Ask(q, diff) ==
    /\ query[q].at = "idle"
    /\ ~DeskWrites
    /\ Set(q, [Request EXCEPT !.at = "grant", !.diff = diff, !.since = Len(history)])
    /\ UNCHANGED <<linked, history, grant, shown, revoked, desk>>

CheckGrant(q) ==
    /\ query[q].at = "grant"
    /\ IF Lapsed
       THEN /\ grant' = None
            /\ Set(q, Over(q))
       ELSE /\ grant' = grant
            /\ Set(q, [query[q] EXCEPT !.at = "inspector"])
    /\ UNCHANGED <<linked, history, shown, revoked, desk>>

\* The inspector takes the binding in force now: another request may have
\* cleared it.  A directory that was replaced may be gone, which clears it.
MakeInspector(q) ==
    /\ query[q].at = "inspector"
    /\ \/ /\ Set(q, [query[q] EXCEPT !.at = "discover", !.binding = grant])
          /\ grant' = grant
       \/ /\ grant # None
          /\ grant[1] # Sign("root")
          /\ grant' = None
          /\ Set(q, Over(q))
    /\ UNCHANGED <<linked, history, shown, revoked, desk>>

\* _MetadataGuard.read: the path's signature is remembered.
See(row, p) ==
    [row EXCEPT !.seen = [x \in DOMAIN row.seen \cup {p} |->
                             IF x = p THEN Sign(p) ELSE row.seen[x]]]

\* _bound_pointer and the binding's directories.
Confined(q) == query[q].binding = Bound

\* _discover: a linked worktree is followed only as the binding says.
Discover(q) ==
    /\ query[q].at = "discover"
    /\ LET row == See(query[q], "pointer") IN
       IF ~linked
       THEN grant' = grant /\ Set(q, [row EXCEPT !.at = "head"])
       ELSE IF Confined(q)
            THEN /\ grant' = grant
                 /\ Set(q, [See(row, "root") EXCEPT !.at = "head"])
            ELSE \* git_metadata_authorization_changed also ends the grant
                 /\ grant' = IF query[q].binding = None THEN grant ELSE None
                 /\ Set(q, Over(q))
    /\ UNCHANGED <<linked, history, shown, revoked, desk>>

ReadHead(q) ==
    /\ query[q].at = "head"
    /\ Set(q, [See(query[q], "head") EXCEPT !.at = "loose"])
    /\ UNCHANGED <<linked, history, grant, shown, revoked, desk>>

\* The branch's own file decides; missing, and that is remembered too, the
\* packed references do.
ReadLoose(q) ==
    /\ query[q].at = "loose"
    /\ Set(q, [See(query[q], "loose") EXCEPT
                  !.at = IF World.loose THEN "index" ELSE "packed",
                  !.loose = World.loose])
    /\ UNCHANGED <<linked, history, grant, shown, revoked, desk>>

ReadPacked(q) ==
    /\ query[q].at = "packed"
    /\ Set(q, [See(query[q], "packed") EXCEPT !.at = "index"])
    /\ UNCHANGED <<linked, history, grant, shown, revoked, desk>>

\* The index, and its shared part; then everything is looked at again.
ReadIndex(q) ==
    /\ query[q].at = "index"
    /\ Set(q, Recheck(See(query[q], "index"), "prepare"))
    /\ UNCHANGED <<linked, history, grant, shown, revoked, desk>>

\* The private directory the commands run in: copies of HEAD and the index.
Prepare(q) ==
    /\ query[q].at = "prepare"
    /\ Set(q, [query[q] EXCEPT !.at = "git", !.view = TRUE])
    /\ UNCHANGED <<linked, history, grant, shown, revoked, desk>>

\* check_unchanged.  It looks at one path after the other; as a signature
\* never comes back, a path that has its own when its turn comes had it when
\* the walk began, and one that loses it during the walk is met by Refuse.
Unchanged(q) == \A p \in DOMAIN query[q].seen : Sign(p) = query[q].seen[p]

\* The commands are the list of the index, the tree of HEAD and, for a diff,
\* the blobs; the check that follows one and the check that precedes the
\* next are taken as one.
AfterCommand(q) ==
    CASE query[q].command = 1 -> [query[q] EXCEPT !.at = "git", !.command = 2]
      [] query[q].command = 2 -> [query[q] EXCEPT !.at = "collect"]
      [] OTHER -> [query[q] EXCEPT !.at = "snapshot"]

Check(q) ==
    /\ query[q].at = "check"
    /\ Set(q, IF ~Unchanged(q) THEN Over(q)
              ELSE CASE query[q].then = "prepare" -> [query[q] EXCEPT !.at = "prepare"]
                     [] query[q].then = "git" -> [query[q] EXCEPT !.at = "git"]
                     [] query[q].then = "output" -> AfterCommand(q)
                     [] OTHER -> [query[q] EXCEPT !.at = "exit", !.result = "available"])
    /\ UNCHANGED <<linked, history, grant, shown, revoked, desk>>

\* A command ends; what it wrote is used only after another look.
GitEnds(q) ==
    /\ query[q].at = "git"
    /\ Set(q, Recheck(query[q], "output"))
    /\ UNCHANGED <<linked, history, grant, shown, revoked, desk>>

\* Fault: the rows are answered without looking at anything again.
PublishRows(q, row) == [row EXCEPT !.at = "exit", !.result = "available"]

\* After the rows: a status is checked a last time and answered.
Publish(q, row) == Recheck(row, "publish")

\* _collect: the working tree's files are compared with the index.  A
\* diff goes on to the blobs (that of a status other than the caller's is
\* among what Refuse stands for).
Collect(q) ==
    /\ query[q].at = "collect"
    /\ LET row == See(query[q], "file") IN
       Set(q, IF row.diff THEN Recheck([row EXCEPT !.command = 3], "git")
              ELSE Publish(q, row))
    /\ UNCHANGED <<linked, history, grant, shown, revoked, desk>>

\* The other side of a diff is the file as it was read for the rows: the
\* guard refuses it if it has changed since.
Snapshot(q) ==
    /\ query[q].at = "snapshot"
    /\ Set(q, IF Sign("file") # query[q].seen["file"]
              THEN Over(q) ELSE Publish(q, query[q]))
    /\ UNCHANGED <<linked, history, grant, shown, revoked, desk>>

\* Where a request awaits a worker or a command.
Awaiting == {"grant", "inspector", "discover", "head", "loose", "packed", "index",
             "check", "prepare", "git", "collect", "snapshot"}

\* A malformed, oversized, linked or missing file, a failed or slow command,
\* the deadline: whatever the step, the request is refused.
Refuse(q) ==
    /\ query[q].at \in Awaiting \ {"grant", "inspector"}
    /\ Set(q, Over(q))
    /\ UNCHANGED <<linked, history, grant, shown, revoked, desk>>

\* The caller goes away, or the service closes: the worker or the command of
\* the moment is drained first, and the view a worker enters meanwhile is
\* known to the request that must remove it.
Cancel(q) ==
    /\ query[q].at \in Awaiting
    /\ Set(q, [Over(q) EXCEPT !.view = @ \/ query[q].at = "prepare"])
    /\ UNCHANGED <<linked, history, grant, shown, revoked, desk>>

\* The private view is removed, the workspace lock released, the answer given.
Exit(q) ==
    /\ query[q].at = "exit"
    /\ Set(q, [Request EXCEPT !.at = "done"])
    /\ UNCHANGED <<linked, history, grant, shown, revoked, desk>>

Next ==
    \/ \E p \in Paths : Write(p)
    \/ Select
    \/ \E yes \in BOOLEAN : Confirm(yes)
    \/ Capture
    \/ Grant
    \/ AskRevoke
    \/ Revoke
    \/ ShowGrant
    \/ \E q \in Queries :
          \/ \E d \in BOOLEAN : Ask(q, d)
          \/ CheckGrant(q)
          \/ MakeInspector(q)
          \/ Discover(q)
          \/ ReadHead(q)
          \/ ReadLoose(q)
          \/ ReadPacked(q)
          \/ ReadIndex(q)
          \/ Prepare(q)
          \/ Check(q)
          \/ GitEnds(q)
          \/ Collect(q)
          \/ Snapshot(q)
          \/ Refuse(q)
          \/ Cancel(q)
          \/ Exit(q)

Spec == Init /\ [][Next]_vars

----------------------------------------------------------------------------
(* An answer that is given describes the repository as it was at one       *)
(* moment of the request: everything it was assembled from held together,  *)
(* the branch was loose or packed as it was taken to be, and for a linked  *)
(* worktree the grant's pointers and directory were then in place.         *)
AnswersOneMoment ==
    \A q \in Queries : query[q].result = "available" =>
        \E i \in query[q].since..Len(history) :
            /\ \A p \in DOMAIN query[q].seen :
                  history[i].sign[p] = query[q].seen[p]
            /\ query[q].loose = history[i].loose
            /\ linked => query[q].binding = <<history[i].sign["root"],
                                             history[i].sign["pointer"]>>

\* The authority in force is for a directory the user was shown and confirmed.
GrantWasShown == grant # None => grant[1] \in shown

\* Once a revocation is answered, no request still reads under a binding.
RevocationIsFinal ==
    revoked => \A q \in Reading : query[q].binding = None

\* Commands and workers have their private view; no request leaves one.
ViewsEnd ==
    \A q \in Queries :
        /\ query[q].at \in {"git", "collect", "snapshot"} => query[q].view
        /\ query[q].at = "done" => ~query[q].view

(* The four together: what an inspection may say, and under whose leave.   *)
InspectionSound == AnswersOneMoment /\ GrantWasShown /\ RevocationIsFinal /\ ViewsEnd

(***************************************************************************)
(* Why they hold: a stamp dates the last write of its path, so a path that *)
(* has the stamp it was read with has been left alone since; and the grant *)
(* is empty from the answer of a revocation to the next confirmed grant.   *)
(***************************************************************************)
Rows == [at : Stages, diff : BOOLEAN, binding : Binding \cup {None},
         seen : UNION {[S -> Stamps] : S \in SUBSET Paths}, loose : BOOLEAN,
         since : 0..(MaxWrites + 1), then : {"none", "prepare", "git", "output", "publish"},
         command : 1..3, view : BOOLEAN, result : {"none", "refused", "available"}]

GitTypes ==
    /\ linked \in BOOLEAN /\ revoked \in BOOLEAN
    /\ history \in Seq([sign : [Paths -> Stamps], loose : BOOLEAN])
    /\ Len(history) \in 1..(MaxWrites + 1)
    /\ grant \in Binding \cup {None} /\ shown \subseteq Stamps
    /\ desk \in [at : {"idle", "confirm", "grant", "verify", "revoke"},
                 selected : Stamps, binding : Binding \cup {None}]
    /\ query \in [Queries -> Rows]

\* A stamp is older than the content it is part of, and two contents with one
\* stamp of the loose reference agree on whether it is there.
Dated ==
    \A j \in 1..Len(history) :
        /\ \A p \in Paths : history[j].sign[p] < j
        /\ \A i \in 1..j : history[i].sign["loose"] = history[j].sign["loose"]
                               => history[i].loose = history[j].loose

\* What the user has confirmed is all that is, or is about to be, the grant.
GrantSound ==
    /\ revoked => grant = None
    /\ grant # None => grant[1] \in shown
    /\ desk.at = "grant" => desk.selected \in shown
    /\ desk.at = "verify" => desk.binding # None /\ desk.binding[1] \in shown

\* The request read the branch's file in some content, and follows a linked
\* worktree only by the pointers it has read.
Followed(q) ==
    /\ query[q].at \in {"packed", "index", "check", "prepare", "git", "collect", "snapshot"} =>
          /\ "loose" \in DOMAIN query[q].seen
          /\ \E i \in 1..Len(history) : /\ history[i].sign["loose"] = query[q].seen["loose"]
                                        /\ history[i].loose = query[q].loose
    /\ query[q].at \in {"head", "loose", "packed", "index", "check", "prepare", "git",
                        "collect", "snapshot"} /\ linked =>
          /\ {"root", "pointer"} \subseteq DOMAIN query[q].seen
          /\ query[q].binding = <<query[q].seen["root"], query[q].seen["pointer"]>>

AnsweredAt(q, i) ==
    /\ \A p \in DOMAIN query[q].seen : history[i].sign[p] = query[q].seen[p]
    /\ query[q].loose = history[i].loose
    /\ linked => query[q].binding = <<history[i].sign["root"], history[i].sign["pointer"]>>

RequestSound(q) ==
    /\ q \in Reading => query[q].since \in 1..Len(history)
    /\ q \in Reading /\ revoked => query[q].binding = None
    /\ query[q].at = "check" => query[q].then # "none" /\ (query[q].then # "prepare" => query[q].view)
    /\ query[q].at \in {"git", "collect", "snapshot"} => query[q].view
    /\ query[q].at = "done" => ~query[q].view
    /\ query[q].result = "available" =>
          query[q].at = "exit" /\ \E i \in query[q].since..Len(history) : AnsweredAt(q, i)

GitInv ==
    GitTypes /\ Dated /\ GrantSound /\ \A q \in Queries : Followed(q) /\ RequestSound(q)

\* The bound of the writes is a number.
GitBound == MaxWrites \in Nat

=============================================================================
