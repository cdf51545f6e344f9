------------------------------ MODULE Observers ------------------------------
(***************************************************************************)
(* What answers beside a run: its subagents, the event stream its window is *)
(* fed from and the client of a tool server, the first two under their own  *)
(* fairness.  They share no state and a behaviour moves one of them, chosen *)
(* at its start.                                                            *)
(***************************************************************************)
EXTENDS Subagents

CONSTANTS
    \* EventStream
    Runs, Streams, MaxEvents, Page, MaxSelects, MaxLosses,
    \* MCPClient
    Calls, ToolCalls, Slots, MaxOpens

VARIABLES
    subject,   \* the component this behaviour is about
    \* EventStream
    log, terminal, shutdown, stream, epoch, shown, view, current, refresh,
    losses,
    \* MCPClient
    owner, released, conn, client, mcp_lock, listing, catalog, call, faults,
    closer

Stream == INSTANCE EventStream
MCP == INSTANCE MCPClient WITH lock <- mcp_lock

\* The bounds are numbers, and no name of a caller or stream is one of the marks.
ASSUME ObserversAssumption == Stream!StreamBounds /\ MCP!MCPBounds

streamVars == <<log, terminal, shutdown, stream, epoch, shown, view, current,
                refresh, losses>>
mcpVars == <<owner, released, conn, client, mcp_lock, listing, catalog, call,
             faults, closer>>

allVars == <<subject, vars, streamVars, mcpVars>>

Subjects == {"subagents", "stream", "mcp"}

\* One component moves in a behaviour; the others rest where they start.
SumInit ==
    /\ subject \in Subjects
    /\ Init
    /\ Stream!Init
    /\ MCP!Init

SumNext ==
    \/ /\ subject = "subagents" /\ Next
       /\ UNCHANGED <<subject, streamVars, mcpVars>>
    \/ /\ subject = "stream" /\ Stream!Next
       /\ UNCHANGED <<subject, vars, mcpVars>>
    \/ /\ subject = "mcp" /\ MCP!Next
       /\ UNCHANGED <<subject, vars, streamVars>>

\* The fairness of each component, for the behaviours that are about it.
SumFairness ==
    /\ \A g \in Gen :
          /\ WF_vars(subject = "subagents" /\ Drop(g))
          /\ WF_vars(subject = "subagents" /\ Take(g))
          /\ WF_vars(subject = "subagents" /\ Operation(g))
          /\ WF_vars(subject = "subagents" /\ Finish(g))
          /\ WF_vars(subject = "subagents" /\ Collect(g))
    /\ \A c \in Callers :
          /\ WF_vars(subject = "subagents" /\ FollowWait(c))
          /\ WF_vars(subject = "subagents" /\ FollowClaim(c))
          /\ WF_vars(subject = "subagents" /\ (Submit(c) \/ Reject(c)))
          /\ WF_vars(subject = "subagents" /\ Announce(c))
    /\ WF_streamVars(subject = "stream" /\ Stream!Poll)
    /\ \A e \in 1..MaxSelects : WF_streamVars(subject = "stream" /\ Stream!Ask(e))

SumSpec == SumInit /\ [][SumNext]_allVars /\ SumFairness

----------------------------------------------------------------------------
(* api/sse.py and the window: what is shown is a prefix of the run's events, *)
(* without gaps, whichever refresh answers last.                             *)
ViewIsPrefix == subject = "stream" => Stream!ViewIsPrefix

(* Every durable event of the run in view is shown in the end, also one that *)
(* is written after the status is terminal or beyond a page.                 *)
EveryEventShown == Stream!EveryEventShown

(* client_manager.py: a connection is closed once, by its owner, and never   *)
(* under a borrower.                                                         *)
ConnectionsOwned == subject = "mcp" => MCP!ConnectionsOwned

(* A tool enters once, on the session and catalog version it was authorised. *)
ToolEntersOnce == MCP!ToolEntersOnce
==============================================================================
