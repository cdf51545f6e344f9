---------------------------- MODULE ProjectSwitch -----------------------------
(***************************************************************************)
(* The desktop: one window, and one kernel at a time that owns the folder    *)
(* of a project.                                                            *)
(*                                                                         *)
(* A kernel takes the folder's lock, starts the legacy worker and then the   *)
(* API worker, and is closed by a fence, a join of its workers and, only     *)
(* when nothing is left of unknown outcome, the release of the lock.  The    *)
(* switcher closes the old kernel before it makes another.  Calls of the     *)
(* page and the close of the window share one action lock; the window can    *)
(* also go away by itself, in the middle of a switch.                        *)
(*                                                                         *)
(* The switcher's own closing flag is set under the action lock only, so a   *)
(* switch sees it before its first step or not at all.                       *)
(***************************************************************************)
EXTENDS Naturals, FiniteSets

CONSTANTS
    Projects,
    Kernels,      \* bound: kernels made in the life of the desktop
    Home          \* the project the desktop is launched with

VARIABLES
    kernel,     \* kernel -> [pc, project, workers, dirty]
    owner,      \* project -> the kernel with its folder's lock, "other", or "none"
    selected,   \* switcher.kernel, or "none"
    act,        \* the holder of the action lock: [pc, target, previous, made]
    gone,       \* WindowApi._closing, or the window's closed event
    fenced,     \* ProjectSwitcher._closing
    unclear,    \* _construction_uncertain
    catalog,    \* "ok", "failed" or "unresolved"
    destroyed,  \* the desktop itself asked for the window to be destroyed
    finished,   \* _projects_closed
    left        \* the main thread: "open", "returned" from webview.start, "closing" at last

vars == <<kernel, owner, selected, act, gone, fenced, unclear, catalog, destroyed, finished, left>>
window == <<gone, destroyed, finished, left>>
switcher == <<fenced, unclear, catalog>>

None == "none"
Idle == [pc |-> "idle", target |-> None, previous |-> None, made |-> None]
Unborn == [pc |-> "unborn", project |-> None, workers |-> {}, dirty |-> FALSE]

Init ==
    \E k \in Kernels :
        /\ kernel = [i \in Kernels |-> IF i = k
               THEN [pc |-> "ready", project |-> Home, workers |-> {"legacy", "api"}, dirty |-> FALSE]
               ELSE Unborn]
        /\ owner = [p \in Projects |-> IF p = Home THEN k ELSE None]
        /\ selected = k
        /\ act = Idle
        /\ gone = FALSE /\ destroyed = FALSE /\ finished = FALSE /\ left = "open"
        /\ fenced = FALSE /\ unclear = FALSE /\ catalog = "ok"

Holds(k) == \E p \in Projects : owner[p] = k

-----------------------------------------------------------------------------
(* The kernel: DesktopKernel *)

\* close: the fence is up, the workers were told to end.
Fence(k) ==
    kernel' = [kernel EXCEPT ![k].pc = IF @ = "closed" THEN @ ELSE "fenced"]

\* A worker ends after the fence, or by itself.  Its cleanup may have failed: the
\* service's, the legacy server's, a database handle's.
WorkerEnds(k, w) ==
    /\ w \in kernel[k].workers
    /\ \E failed \in BOOLEAN :
          kernel' = [kernel EXCEPT ![k].workers = @ \ {w}, ![k].dirty = @ \/ failed]
    /\ UNCHANGED <<owner, selected, act>> /\ UNCHANGED switcher /\ UNCHANGED window

\* Every worker was joined and nothing unresolved was retained.
Drained(k) == kernel[k].pc = "fenced" /\ kernel[k].workers = {} /\ ~kernel[k].dirty

\* The end of close: the listener and then the folder's lock are released.
Closed(k) ==
    \/ kernel[k].pc = "closed" /\ UNCHANGED <<kernel, owner>>
    \/ /\ Drained(k)
       /\ kernel' = [kernel EXCEPT ![k].pc = "closed"]
       /\ owner' = [p \in Projects |-> IF owner[p] = k THEN None ELSE owner[p]]

\* A join takes too long, a source is unresolved, the listener's close has an unknown
\* outcome: close raises and the lock stays.
CloseRaises(k) ==
    /\ kernel[k].pc = "fenced" /\ UNCHANGED owner
    /\ \/ UNCHANGED kernel
       \/ Drained(k) /\ kernel' = [kernel EXCEPT ![k].dirty = TRUE]

\* Another program locks a folder, or unlocks it.
Foreign(p) ==
    /\ owner[p] \in {None, "other"}
    /\ owner' = [owner EXCEPT ![p] = IF @ = None THEN "other" ELSE None]
    /\ UNCHANGED <<kernel, selected, act>> /\ UNCHANGED switcher /\ UNCHANGED window

-----------------------------------------------------------------------------
(* A switch: WindowApi.project_switch, ProjectSwitcher.switch *)

Page(pc) == act.pc = pc
To(pc) == act' = [act EXCEPT !.pc = pc]
Return == act' = Idle

\* The page's call is admitted, and the target resolved before the old kernel stops.
Switch(p) ==
    /\ Page("idle") /\ ~gone /\ catalog = "ok" /\ ~fenced /\ ~unclear
    /\ \/ selected = None /\ UNCHANGED kernel
          /\ act' = [Idle EXCEPT !.pc = "construct", !.target = p]
       \/ /\ selected # None
          /\ ~(kernel[selected].project = p /\ kernel[selected].pc = "ready")
          /\ Fence(selected)
          /\ act' = [Idle EXCEPT !.pc = "close_old", !.target = p, !.previous = kernel[selected].project]
    /\ UNCHANGED <<owner, selected>> /\ UNCHANGED switcher /\ UNCHANGED window

\* Fault: the switch goes on although the old kernel did not end.
ForgetOld ==
    /\ Page("close_old")
    /\ Closed(selected) \/ CloseRaises(selected)
    /\ selected' = None /\ To("construct")
    /\ UNCHANGED switcher /\ UNCHANGED window

OldClosed ==
    /\ Page("close_old")
    /\ Closed(selected)
    /\ selected' = None /\ To("construct")
    /\ UNCHANGED switcher /\ UNCHANGED window

OldStays ==
    /\ Page("close_old")
    /\ CloseRaises(selected) /\ Return
    /\ UNCHANGED selected /\ UNCHANGED switcher /\ UNCHANGED window

Made(k, p) ==
    /\ kernel[k].pc = "unborn"
    /\ kernel' = [kernel EXCEPT ![k].pc = "made", ![k].project = p]
    /\ selected' = k
    /\ act' = [act EXCEPT !.made = k, !.target = p,
                          !.pc = IF @ = "construct" THEN "acquire" ELSE "reacquire"]
    /\ UNCHANGED <<owner, fenced, unclear, catalog>> /\ UNCHANGED window

\* _construct_original: the candidate is published before it starts.
Construct(k) == Page("construct") /\ Made(k, act.target)

\* The factory's outcome is unknown: nothing more is made, restored or closed.
ConstructUnclear ==
    /\ Page("construct") \/ Page("restore")
    /\ unclear' = TRUE /\ Return
    /\ UNCHANGED <<kernel, owner, selected, fenced, catalog>> /\ UNCHANGED window

\* The folder is no longer the one that was selected, or the catalog could not say.
TargetMoved ==
    /\ Page("construct")
    /\ catalog' \in {catalog, "failed", "unresolved"}
    /\ IF act.previous = None THEN Return ELSE To("restore")
    /\ UNCHANGED <<kernel, owner, selected, fenced, unclear>> /\ UNCHANGED window

\* start: the folder's lock before any worker.
Acquire ==
    /\ Page("acquire") \/ Page("reacquire")
    /\ owner[act.target] = None
    /\ owner' = [owner EXCEPT ![act.target] = act.made]
    /\ To(IF Page("acquire") THEN "start" ELSE "restart")
    /\ UNCHANGED <<kernel, selected>> /\ UNCHANGED switcher /\ UNCHANGED window

\* One worker after the other; a handle of the constructor may be lost on the way.
StartWorker ==
    /\ Page("start") \/ Page("restart")
    /\ kernel[act.made].pc = "made" /\ kernel[act.made].workers # {"legacy", "api"}
    /\ kernel' = [kernel EXCEPT ![act.made].workers = IF @ = {} THEN {"legacy"} ELSE {"legacy", "api"}]
    /\ UNCHANGED <<owner, selected, act>> /\ UNCHANGED switcher /\ UNCHANGED window

\* The API says that it started; the time of the opening is written to the catalog, whose
\* failure leaves the new kernel as it is.
Started ==
    /\ Page("start") \/ Page("restart")
    /\ kernel[act.made].workers = {"legacy", "api"}
    /\ kernel' = [kernel EXCEPT ![act.made].pc = "ready"]
    /\ Return
    /\ catalog' \in IF Page("start") THEN {"ok", "failed", "unresolved"} ELSE {catalog}
    /\ UNCHANGED <<owner, selected, fenced, unclear>> /\ UNCHANGED window

\* Another owner, a failed construction or a worker that does not start: start closes what
\* it has, and the switcher closes it once more.
StartFails ==
    /\ act.pc \in {"acquire", "reacquire", "start", "restart"}
    /\ \E lost \in BOOLEAN : kernel' = [kernel EXCEPT ![act.made].pc = "fenced", ![act.made].dirty = @ \/ lost]
    /\ To(IF act.pc \in {"acquire", "start"} THEN "close_new" ELSE "close_restored")
    /\ UNCHANGED <<owner, selected>> /\ UNCHANGED switcher /\ UNCHANGED window

\* Only a closed candidate makes room for the previous project.
NewClosed ==
    /\ Page("close_new")
    /\ Closed(act.made)
    /\ selected' = None
    /\ IF act.previous = None THEN Return ELSE To("restore")
    /\ UNCHANGED switcher /\ UNCHANGED window

NewStays ==
    /\ Page("close_new") \/ Page("close_restored")
    /\ CloseRaises(act.made) /\ Return
    /\ UNCHANGED selected /\ UNCHANGED switcher /\ UNCHANGED window

\* The start of the restored kernel failed: it stays selected, closed.
RestoredClosed ==
    /\ Page("close_restored")
    /\ Closed(act.made) /\ Return
    /\ UNCHANGED selected /\ UNCHANGED switcher /\ UNCHANGED window

Restore(k) == Page("restore") /\ Made(k, act.previous)

\* The recent-project database fails in a call that only lists, registers or resolves.
CatalogFails ==
    /\ Page("idle") /\ ~gone /\ catalog = "ok"
    /\ catalog' \in {"failed", "unresolved"}
    /\ UNCHANGED <<kernel, owner, selected, act, fenced, unclear>> /\ UNCHANGED window

-----------------------------------------------------------------------------
(* The window: closing, closed, and the end of launch_desktop *)

\* switcher.close, under the action lock.
Shut ==
    /\ fenced' = TRUE
    /\ IF unclear
       THEN UNCHANGED <<kernel, act>>
       ELSE /\ To("shut")
            /\ IF selected = None THEN UNCHANGED kernel ELSE Fence(selected)

\* The user closes: controls are fenced, and while an action is under way it is a veto.
NativeClosing ==
    /\ left = "open" /\ ~destroyed
    /\ gone' = TRUE
    /\ CASE finished -> destroyed' = TRUE /\ UNCHANGED <<kernel, act, fenced>>
         [] ~finished /\ ~Page("idle") -> UNCHANGED <<kernel, act, fenced, destroyed>>
         [] OTHER -> Shut /\ UNCHANGED destroyed
    /\ UNCHANGED <<owner, selected, unclear, catalog, finished, left>>

\* The window is lost: the page's thread goes on, webview.start returns.
WindowLost ==
    /\ left = "open"
    /\ gone' = TRUE /\ left' = "returned"
    /\ UNCHANGED <<kernel, owner, selected, act, destroyed, finished>> /\ UNCHANGED switcher

\* finally: waits for the action lock, whatever holds it.
FinalClose ==
    /\ left = "returned" /\ Page("idle")
    /\ left' = "closing"
    /\ IF finished THEN UNCHANGED <<kernel, act, fenced>> ELSE Shut
    /\ UNCHANGED <<owner, selected, unclear, catalog, gone, destroyed, finished>>

\* The project counts as closed only when no source of the catalog is unresolved either;
\* then the window that asked for it goes.
ShutDone ==
    /\ Page("shut")
    /\ IF selected = None THEN UNCHANGED <<kernel, owner>> ELSE Closed(selected)
    /\ selected' = None /\ Return
    /\ finished' = (catalog # "unresolved")
    /\ destroyed' = (finished' /\ left = "open")
    /\ UNCHANGED <<gone, left>> /\ UNCHANGED switcher

ShutFails ==
    /\ Page("shut") /\ selected # None
    /\ CloseRaises(selected) /\ Return
    /\ UNCHANGED selected /\ UNCHANGED switcher /\ UNCHANGED window

Next ==
    \/ \E p \in Projects : Switch(p) \/ Foreign(p)
    \/ \E k \in Kernels : Construct(k) \/ Restore(k) \/ \E w \in {"legacy", "api"} : WorkerEnds(k, w)
    \/ OldClosed \/ OldStays \/ ConstructUnclear \/ TargetMoved \/ Acquire \/ StartWorker \/ Started
    \/ StartFails \/ NewClosed \/ NewStays \/ RestoredClosed \/ CatalogFails
    \/ NativeClosing \/ WindowLost \/ FinalClose \/ ShutDone \/ ShutFails

Spec == Init /\ [][Next]_vars

-----------------------------------------------------------------------------
(* Properties *)

Running(k) == kernel[k].workers # {} \/ Holds(k)

\* Whatever fails in a switch, no second kernel runs beside the one that has not ended.
SingleKernel == \A j, k \in Kernels : Running(j) /\ Running(k) => j = k

\* No worker runs without its folder's lock, and a kernel that counts as closed left no
\* worker and no handle of unknown outcome.
ReleasedIsDrained ==
    \A k \in Kernels :
        /\ kernel[k].workers # {} => Holds(k)
        /\ kernel[k].pc = "closed" => ~kernel[k].dirty /\ ~Holds(k)

\* When the desktop says its projects are closed, or destroys its window, nothing of
\* either kernel of a switch is left.
ClosedLeavesNothing == finished \/ destroyed => \A k \in Kernels : ~Running(k)

DesktopOwnsOne == SingleKernel /\ ReleasedIsDrained /\ ClosedLeavesNothing

(***************************************************************************)
(* Why DesktopOwnsOne holds: only the kernel that is selected can run, the   *)
(* steps that make another find none selected, and one that was fenced is    *)
(* dropped from the selection only once it has closed.                       *)
(***************************************************************************)
\* The launch project is a project, and no kernel is called "none" or "other".
LaunchNames ==
    /\ Home \in Projects
    /\ None \notin Kernels /\ "other" \notin Kernels

Making == {"acquire", "reacquire", "start", "restart", "close_new", "close_restored"}

DesktopTypes ==
    /\ kernel \in [Kernels -> [pc : {"unborn", "made", "ready", "fenced", "closed"},
                               project : Projects \cup {None},
                               workers : SUBSET {"legacy", "api"}, dirty : BOOLEAN]]
    /\ owner \in [Projects -> Kernels \cup {None, "other"}]
    /\ selected \in Kernels \cup {None}
    /\ act \in [pc : {"idle", "construct", "restore", "close_old", "shut"} \cup Making,
                target : Projects \cup {None}, previous : Projects \cup {None},
                made : Kernels \cup {None}]
    /\ gone \in BOOLEAN /\ destroyed \in BOOLEAN /\ finished \in BOOLEAN
    /\ left \in {"open", "returned", "closing"}

KernelSound(k) ==
    /\ Running(k) => k = selected
    /\ kernel[k].workers # {} => Holds(k)
    /\ kernel[k].pc = "closed" => kernel[k].workers = {} /\ ~kernel[k].dirty /\ ~Holds(k)
    /\ kernel[k].pc = "unborn" => kernel[k].workers = {} /\ ~Holds(k)

\* What the holder of the action lock knows of the kernels.
ActionSound ==
    /\ selected # None => kernel[selected].pc # "unborn"
    /\ act.pc \in {"construct", "restore"} => selected = None
    /\ act.pc = "close_old" => selected # None
    /\ act.pc \in {"close_old", "construct", "acquire", "start"} => act.target \in Projects
    /\ act.pc = "restore" => act.previous \in Projects
    /\ act.pc = "reacquire" => act.target \in Projects
    /\ act.pc \in Making => act.made = selected /\ selected # None
    /\ act.pc \in {"acquire", "reacquire", "start", "restart"} => kernel[selected].pc = "made"
    /\ act.pc \in {"start", "restart"} => Holds(selected)

\* A desktop that has closed its projects makes nothing more.
EndSound ==
    /\ act.pc = "shut" \/ left # "open" => gone
    /\ finished => gone /\ act.pc = "idle" /\ selected = None
    /\ destroyed => finished

DesktopInv ==
    DesktopTypes /\ (\A k \in Kernels : KernelSound(k)) /\ ActionSound /\ EndSound

=============================================================================
