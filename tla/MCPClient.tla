------------------------------ MODULE MCPClient ------------------------------
(***************************************************************************)
(* The MCP client: one configured server, its connection and the calls that *)
(* share it.                                                                *)
(*                                                                         *)
(* A connection is entered and exited by one owner task.  Calls look it up  *)
(* under the server's lock, replace one that failed, wait for a slot and     *)
(* borrow it.  A call first lists the server's tools, which may be retried  *)
(* on a new connection; a tool call then runs once, bound to the connection *)
(* and the descriptor it was authorised on.  Three latches stop the client: *)
(* a failed exit, a tool whose outcome is unknown, a result that could not  *)
(* be published.  Operations fail and are cancelled at any time.            *)
(***************************************************************************)
EXTENDS Naturals, FiniteSets

CONSTANTS
    Calls,        \* callers
    ToolCalls,    \* those that execute a tool; the others refresh the catalog
    Slots,        \* max_concurrency of the server
    MaxOpens      \* bound: connections

VARIABLES
    owner,     \* connection -> what its owner task does
    released,  \* connections whose release event is set
    conn,      \* the entry of _connections, 0 if none
    client,    \* the entry of _clients, 0 if none: a published, valid session
    lock,      \* who holds the server's lock
    listing,   \* who holds the catalog's lock, or "free"
    catalog,   \* [source, version, available]: the last discovery and whether it may be used
    call,      \* caller -> its position and what it holds
    faults,    \* the latches that are set
    closer     \* what close does; it began as soon as it is not "no"

vars == <<owner, released, conn, client, lock, listing, catalog, call, faults, closer>>

Conns == 1..MaxOpens
Free == "free"
Closer == "closer"
Closed == closer # "no"
Admitted == faults = {}
Usable == Admitted /\ ~Closed

\* phase: the get of list_server, its discovery, the tool; tries: attempts used;
\* source, version: what a tool call was authorised on; entered: tool calls begun.
NoCall == [pc |-> "idle", phase |-> "list", k |-> 0, tries |-> 0, source |-> 0, version |-> 0,
           entered |-> 0, then |-> ""]

Init ==
    /\ owner = [k \in Conns |-> "none"]
    /\ released = {}
    /\ conn = 0 /\ client = 0
    /\ lock = Free /\ listing = Free
    /\ catalog = [source |-> 0, version |-> 0, available |-> TRUE]
    /\ call = [c \in Calls |-> NoCall]
    /\ faults = {}
    /\ closer = "no"

Borrows(c, k) == call[c].pc = "borrow" /\ call[c].k = k
Owned == UNCHANGED <<owner, released>>
Shared == UNCHANGED <<conn, client>>
Rest == UNCHANGED <<listing, catalog, faults, closer>>

\* check_source
SourceHolds(k) == Usable /\ k # 0 /\ k = conn /\ k = client /\ k \notin released
\* source_for_descriptor: the same discovery, and no refresh in progress or failed.
DescriptorHolds(c) == /\ catalog.available /\ catalog.version = call[c].version
                      /\ SourceHolds(catalog.source)

Set(c, pc) == call' = [call EXCEPT ![c].pc = pc]
\* A call leaves; the catalog's lock goes with it.
Leave(c, how) == /\ Set(c, how)
                 /\ listing' = IF listing = c THEN Free ELSE listing
LeaveOnly(c, how) == Leave(c, how) /\ Owned /\ Shared /\ UNCHANGED <<lock, catalog, faults, closer>>

-----------------------------------------------------------------------------
(* The owner task: own_connection *)

Ready(k) ==
    /\ owner[k] = "opening"
    /\ owner' = [owner EXCEPT ![k] = "open"]
    /\ UNCHANGED <<released, lock, call>> /\ Shared /\ Rest

\* Every exit is observed; one that did not return known closed latches the fault.
Exited(k) ==
    \/ owner' = [owner EXCEPT ![k] = "closed"] /\ UNCHANGED faults
    \/ owner' = [owner EXCEPT ![k] = "broken"] /\ faults' = faults \cup {"cleanup"}

\* Connecting failed or ran into its timeout.
FailOpen(k) ==
    /\ owner[k] = "opening"
    /\ Exited(k)
    /\ UNCHANGED <<released, lock, call, listing, catalog, closer>> /\ Shared

\* Fault: the owner leaves as soon as it is released.
ExitEarly(k) ==
    /\ owner[k] = "open" /\ k \in released
    /\ Exited(k)
    /\ UNCHANGED <<released, lock, call, listing, catalog, closer>> /\ Shared

Exit(k) ==
    /\ owner[k] = "open" /\ k \in released
    /\ \A c \in Calls : ~Borrows(c, k)
    /\ Exited(k)
    /\ UNCHANGED <<released, lock, call, listing, catalog, closer>> /\ Shared

-----------------------------------------------------------------------------
(* list_server, execute: the phases of a call *)

\* list_server enters the catalog's lock.
List(c) ==
    /\ call[c].pc = "idle"
    /\ listing = Free
    /\ listing' = c
    /\ Set(c, "get")
    /\ Owned /\ Shared /\ UNCHANGED <<lock, catalog, faults, closer>>

\* The discovery of this session is in the cache: no listing unless a refresh is asked for.
Cached(c) == /\ c \in ToolCalls
             /\ catalog.available /\ catalog.source = call[c].k

\* get of list_server returned: use the cache, or list the tools again.
Listed(c) ==
    /\ call[c].pc = "got" /\ call[c].phase = "list"
    /\ \/ /\ Cached(c)
          /\ Leave(c, "listed")
          /\ UNCHANGED catalog
       \/ /\ ~Cached(c)
          /\ catalog' = [catalog EXCEPT !.available = FALSE]
          /\ call' = [call EXCEPT ![c].pc = "get", ![c].phase = "read", ![c].k = 0]
          /\ UNCHANGED listing
    /\ Owned /\ Shared /\ UNCHANGED <<lock, faults, closer>>

\* The discovery returned: its source is checked and the maps change in one step.
Discover(c) ==
    /\ call[c].pc = "read"
    /\ \/ /\ SourceHolds(call[c].k)
          /\ catalog' = [source |-> call[c].k, version |-> catalog.version + 1, available |-> TRUE]
          /\ Leave(c, IF c \in ToolCalls THEN "listed" ELSE "done")
       \/ Leave(c, "error") /\ UNCHANGED catalog
    /\ Owned /\ Shared /\ UNCHANGED <<lock, faults, closer>>

\* execute binds the descriptor it validated to its source.
Authorise(c) ==
    /\ call[c].pc = "listed"
    /\ \/ /\ catalog.available /\ SourceHolds(catalog.source)
          /\ call' = [call EXCEPT ![c] = [NoCall EXCEPT !.pc = "get", !.phase = "tool",
                                              !.source = catalog.source,
                                              !.version = catalog.version]]
       \/ ~(catalog.available /\ SourceHolds(catalog.source)) /\ Set(c, "error")
    /\ Owned /\ Shared /\ UNCHANGED lock /\ Rest

-----------------------------------------------------------------------------
(* get *)

\* What get and call refuse before they wait for anything.
Refused(c) == ~Usable \/ (call[c].phase = "tool" /\ ~SourceHolds(call[c].source))

Get(c) ==
    /\ call[c].pc = "get"
    /\ \/ Refused(c) /\ Leave(c, "error")
       \/ ~Refused(c) /\ Set(c, "lock") /\ UNCHANGED listing
    /\ Owned /\ Shared /\ UNCHANGED <<lock, catalog, faults, closer>>

\* Release the connection that is there; its owner's exit is awaited under the lock.
BeginDiscard ==
    /\ client' = 0
    /\ released' = released \cup ({conn} \ {0})
    /\ UNCHANGED <<owner, conn>>

\* The lock is held: a valid session is shared, anything else is discarded first.
TakeLock(c) ==
    /\ call[c].pc = "lock"
    /\ lock = Free
    /\ \/ ~Usable /\ Leave(c, "error") /\ UNCHANGED lock /\ Owned /\ Shared
       \/ /\ Usable /\ client # 0
          /\ call' = [call EXCEPT ![c].pc = "got", ![c].k = client]
          /\ UNCHANGED <<lock, listing>> /\ Owned /\ Shared
       \/ /\ Usable /\ client = 0
          /\ lock' = c
          /\ Set(c, "drain")
          /\ BeginDiscard
          /\ UNCHANGED listing
    /\ UNCHANGED <<catalog, faults, closer>>

\* _discard: the entry goes only after a known exit, otherwise it is retained.
Discarded == conn \in {0} \cup {k \in Conns : owner[k] = "closed"}
Stuck == conn \in {k \in Conns : owner[k] = "broken"}

Next1 == CHOOSE k \in Conns : owner[k] = "none" /\ \A j \in 1..(k - 1) : owner[j] # "none"
CanOpen == \E k \in Conns : owner[k] = "none"

\* get opens a new connection, unless a latch or close came while it drained.
Connect(c) ==
    /\ call[c].pc = "drain" /\ Discarded
    /\ Usable /\ CanOpen
    /\ conn' = Next1
    /\ owner' = [owner EXCEPT ![Next1] = "opening"]
    /\ Set(c, "opening")
    /\ UNCHANGED <<released, client, lock>> /\ Rest

\* It is refused, or its caller was cancelled while it drained.
Unconnected(c) ==
    /\ call[c].pc = "drain" /\ Discarded
    /\ conn' = 0
    /\ lock' = Free
    /\ Leave(c, "error")
    /\ Owned /\ UNCHANGED <<client, catalog, faults, closer>>

\* ready was set; the session is published unless a latch or close came first.
Publish(c) ==
    /\ call[c].pc = "opening"
    /\ owner[conn] = "open"
    /\ Usable
    /\ client' = conn
    /\ lock' = Free
    /\ call' = [call EXCEPT ![c].pc = "got", ![c].k = conn]
    /\ Owned /\ UNCHANGED conn /\ Rest

\* call has an Exception handler: a plain failure of a listing is tried once more.
MayRetry(c) == call[c].phase = "read" /\ call[c].tries = 0

\* Startup failed, came too late, or the caller was cancelled: drain that same owner.
Undo(c) ==
    /\ call[c].pc = "opening"
    /\ call' = [call EXCEPT ![c].pc = "undo",
                            ![c].then = IF owner[conn] = "closed" /\ MayRetry(c) THEN "get" ELSE "error"]
    /\ BeginDiscard
    /\ UNCHANGED lock /\ Rest

Undone(c) ==
    /\ call[c].pc = "undo" /\ Discarded
    /\ conn' = 0
    /\ lock' = Free
    /\ \/ /\ call[c].then = "error" \/ ~Usable
          /\ Leave(c, "error")
       \/ /\ Usable /\ call[c].then = "get"
          /\ call' = [call EXCEPT ![c].pc = "get", ![c].tries = 1]
          /\ UNCHANGED listing
    /\ Owned /\ UNCHANGED <<client, catalog, faults, closer>>

\* The exit failed: MCPCleanupError is never retried and the connection stays.
Unclosed(c) ==
    /\ call[c].pc \in {"drain", "undo", "invdrain"} /\ Stuck
    /\ lock' = Free
    /\ Leave(c, "error")
    /\ Owned /\ Shared /\ UNCHANGED <<catalog, faults, closer>>

-----------------------------------------------------------------------------
(* session, call *)

Queue(c) ==
    /\ call[c].pc = "got" /\ call[c].phase # "list"
    /\ Set(c, "slot")
    /\ Owned /\ Shared /\ UNCHANGED lock /\ Rest

SlotFree == Cardinality({c \in Calls : call[c].pc = "borrow"}) < Slots

\* What holds when a call that waited for a slot begins.
Fresh(c) ==
    /\ SourceHolds(call[c].k)
    /\ call[c].phase = "tool" => SourceHolds(call[c].source) /\ DescriptorHolds(c)

\* The checks, the lease and the call of the SDK are one step: no await between.
Borrow(c) ==
    /\ call[c].pc = "slot" /\ SlotFree
    /\ \/ ~Fresh(c) /\ Leave(c, "error")
       \/ /\ Fresh(c)
          /\ call' = [call EXCEPT ![c].pc = "borrow",
                                  ![c].entered = IF call[c].phase = "tool" THEN @ + 1 ELSE @]
          /\ UNCHANGED listing
    /\ Owned /\ Shared /\ UNCHANGED <<lock, catalog, faults, closer>>

\* The reply came; after a fault it is no success.
Return(c) ==
    /\ call[c].pc = "borrow"
    /\ \/ Admitted /\ Set(c, IF call[c].phase = "tool" THEN "publish" ELSE "read")
          /\ UNCHANGED listing
       \/ /\ faults \cap {"cleanup", "execution"} = {"execution"}
          /\ call' = [call EXCEPT ![c].pc = "inval", ![c].then = "error"]
          /\ UNCHANGED listing
       \/ /\ ~Admitted /\ faults \cap {"cleanup", "execution"} # {"execution"}
          /\ Leave(c, "error")
    /\ Owned /\ Shared /\ UNCHANGED <<lock, catalog, faults, closer>>

\* The listing failed; call invalidates the session and may try once more.
FailRead(c) ==
    /\ call[c].pc = "borrow" /\ call[c].phase = "read"
    /\ \/ Usable /\ call' = [call EXCEPT ![c].pc = "inval",
                                         ![c].then = IF MayRetry(c) THEN "get" ELSE "error"]
          /\ UNCHANGED listing
       \/ Leave(c, "error")
    /\ Owned /\ Shared /\ UNCHANGED <<lock, catalog, faults, closer>>

\* Fault: an entered tool that failed is called once more on the session it holds.
FailToolAgain(c) ==
    /\ call[c].pc = "borrow" /\ call[c].phase = "tool"
    /\ call' = [call EXCEPT ![c].entered = @ + 1]
    /\ Owned /\ Shared /\ UNCHANGED lock /\ Rest

\* An entered tool failed or was cancelled: its outcome is unknown, the client stops.
FailTool(c) ==
    /\ call[c].pc = "borrow" /\ call[c].phase = "tool"
    /\ faults' = faults \cup {"execution"}
    /\ call' = [call EXCEPT ![c].pc = "inval", ![c].then = "error"]
    /\ Owned /\ Shared /\ UNCHANGED <<lock, listing, catalog, closer>>

\* invalidate: only the session that failed, never its replacement.
Invalidate(c) ==
    /\ call[c].pc = "inval" /\ lock = Free
    /\ \/ /\ client = call[c].k
          /\ lock' = c
          /\ Set(c, "invdrain")
          /\ BeginDiscard
       \/ /\ client # call[c].k
          /\ Set(c, "retry")
          /\ UNCHANGED lock /\ Owned /\ Shared
    /\ Rest

Invalidated(c) ==
    /\ call[c].pc = "invdrain" /\ Discarded
    /\ conn' = 0
    /\ lock' = Free
    /\ Set(c, "retry")
    /\ Owned /\ UNCHANGED client /\ Rest

Retry(c) ==
    /\ call[c].pc = "retry"
    /\ \/ /\ call[c].then = "get"
          /\ call' = [call EXCEPT ![c].pc = "get", ![c].tries = 1, ![c].k = 0]
          /\ UNCHANGED listing
       \/ call[c].then = "error" /\ Leave(c, "error")
    /\ Owned /\ Shared /\ UNCHANGED <<lock, catalog, faults, closer>>

\* The result is normalised, audited and restored; the last look is at the latches.
Answer(c) ==
    /\ call[c].pc = "publish"
    /\ \/ Admitted /\ Set(c, "done") /\ UNCHANGED faults
       \/ ~Admitted /\ Set(c, "error") /\ UNCHANGED faults
       \/ faults' = faults \cup {"publication"} /\ Set(c, "error")
    /\ Owned /\ Shared /\ UNCHANGED <<lock, listing, catalog, closer>>

\* Cancelled where nothing is held but the catalog's lock.
Cancel(c) ==
    /\ call[c].pc \in {"lock", "slot", "inval"}
    /\ LeaveOnly(c, "error")

-----------------------------------------------------------------------------
(* close *)

Close ==
    /\ closer = "no"
    /\ closer' = "lock"
    /\ Owned /\ Shared /\ UNCHANGED <<lock, listing, catalog, call, faults>>

CloseLock ==
    /\ closer = "lock" /\ lock = Free
    /\ lock' = Closer
    /\ closer' = "drain"
    /\ BeginDiscard
    /\ UNCHANGED <<listing, catalog, call, faults>>

CloseEnds ==
    /\ closer = "drain"
    /\ Discarded \/ Stuck
    /\ conn' = IF Discarded THEN 0 ELSE conn
    /\ lock' = Free
    /\ closer' = IF Stuck \/ "cleanup" \in faults THEN "error" ELSE "done"
    /\ Owned /\ UNCHANGED <<client, listing, catalog, call, faults>>

-----------------------------------------------------------------------------

Next ==
    \/ \E k \in Conns : Ready(k) \/ FailOpen(k) \/ Exit(k)
    \/ \E c \in Calls :
          List(c) \/ Listed(c) \/ Discover(c) \/ Authorise(c) \/ Get(c) \/ TakeLock(c) \/ Connect(c)
          \/ Unconnected(c) \/ Publish(c) \/ Undo(c) \/ Undone(c) \/ Unclosed(c) \/ Queue(c)
          \/ Borrow(c) \/ Return(c) \/ FailRead(c) \/ FailTool(c) \/ Invalidate(c) \/ Invalidated(c)
          \/ Retry(c) \/ Answer(c) \/ Cancel(c)
    \/ Close \/ CloseLock \/ CloseEnds

Spec == Init /\ [][Next]_vars

-----------------------------------------------------------------------------
(* Properties *)

\* A borrowed connection is open: its owner never leaves the SDK under a call.
LeaseIsOpen == \A c \in Calls : call[c].pc = "borrow" => owner[call[c].k] = "open"

\* The server has one connection at a time, and none after one whose exit failed.
OneConnection ==
    /\ Cardinality({k \in Conns : owner[k] \in {"opening", "open"}}) <= 1
    /\ \A k \in Conns : owner[k] = "broken" => \A j \in Conns : j > k => owner[j] = "none"

\* When close returned normally every connection is closed and none appears later.
CloseIsFinal == closer = "done" => \A k \in Conns : owner[k] \in {"none", "closed"}

\* All of them: what the calls share is never pulled away and never leaks.
ConnectionsOwned == LeaseIsOpen /\ OneConnection /\ CloseIsFinal

\* A tool is entered once at most, on the session and the discovery it was
\* authorised on; after a call whose outcome is unknown no tool is entered and no
\* call is answered with success, whatever was waiting for the lock or a slot.
ToolEntersOnce ==
    [][\A c \in Calls :
          /\ call'[c].entered > call[c].entered =>
                /\ call'[c].entered = 1
                /\ call[c].source = client /\ call[c].source = call[c].k
                /\ catalog.available /\ catalog.version = call[c].version
                /\ "execution" \notin faults
          /\ "execution" \in faults /\ call'[c].pc = "done" => call[c].pc = "done"]_vars
-----------------------------------------------------------------------------
(* What every step preserves *)

MCPBounds == MaxOpens \in Nat /\ Free \notin Calls /\ Closer \notin Calls

CallRecords == [pc : {"idle", "get", "lock", "drain", "opening", "undo", "got", "slot", "borrow",
                      "inval", "invdrain", "retry", "read", "listed", "publish", "done", "error"},
                phase : {"list", "read", "tool"}, k : 0..MaxOpens, tries : 0..1,
                source : 0..MaxOpens, version : Nat, entered : Nat, then : {"", "get", "error"}]

MCPTypes ==
    /\ owner \in [Conns -> {"none", "opening", "open", "closed", "broken"}]
    /\ released \subseteq Conns /\ conn \in 0..MaxOpens /\ client \in 0..MaxOpens
    /\ catalog \in [source : 0..MaxOpens, version : Nat, available : BOOLEAN]
    /\ call \in [Calls -> CallRecords]

\* Positions that hold the server's lock, and those of a tool that was not entered.
Holding == {"drain", "opening", "undo", "invdrain"}
Before == {"idle", "get", "lock", "drain", "opening", "undo", "got", "slot"}

LockOwned ==
    /\ \A c \in Calls : call[c].pc \in Holding => lock = c
    /\ closer = "drain" => lock = Closer

\* Connections are opened one after another; only the entry's may still run.
EntrySound ==
    \E n \in 0..MaxOpens :
        /\ \A k \in Conns : owner[k] = "none" <=> k > n
        /\ conn \in {0, n} /\ released \subseteq 1..n
        /\ \A k \in Conns : owner[k] \in {"opening", "open", "broken"} => k = conn

\* A published session is open; it is withdrawn before its connection is discarded.
SessionSound ==
    /\ client # 0 => client = conn /\ owner[conn] = "open" /\ conn \notin released
    /\ \A c \in Calls : call[c].pc \in Holding => client = 0
    /\ \A c \in Calls : call[c].pc = "opening" => conn # 0 /\ conn \notin released
    /\ closer = "drain" => client = 0
    /\ \A k \in Conns : owner[k] = "broken" => "cleanup" \in faults

\* A call enters a tool only once, and nothing that entered one goes back.
CallSound(t) ==
    /\ t.phase = "tool" /\ t.pc \in Before => t.entered = 0
    /\ t.phase = "tool" /\ t.pc \in {"inval", "invdrain", "retry"} => t.then = "error"
    /\ t.phase # "tool" => t.entered = 0

MCPInv ==
    /\ MCPTypes /\ LockOwned /\ EntrySound /\ SessionSound /\ LeaseIsOpen /\ CloseIsFinal
    /\ \A c \in Calls : CallSound(call[c])
=============================================================================
