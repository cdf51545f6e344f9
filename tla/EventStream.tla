----------------------------- MODULE EventStream ------------------------------
(***************************************************************************)
(* The durable event log of the runs, the server-sent stream that replays   *)
(* it, and the inspector that shows it.                                     *)
(*                                                                         *)
(* A stream lists a page of events after its cursor, sends them one by one,  *)
(* and only then reads the run's status: a terminal run ends the stream,     *)
(* also when events were written in between or did not fit in the page.      *)
(* The inspector merges the stream with plain queries of the same log, which *)
(* it repeats for as long as the run is selected, and connects again from    *)
(* the last event it has.                                                   *)
(*                                                                         *)
(* The events of a run are numbered 1, 2, ... here: of their sequence        *)
(* numbers only the order matters.                                          *)
(***************************************************************************)
EXTENDS Naturals, Sequences, FiniteSetsExt

CONSTANTS
    Runs,
    Streams,      \* bound: streams open at a time
    MaxEvents,    \* bound: events of a run
    Page,         \* events a query returns at most
    MaxSelects,   \* bound: selections of a run in the inspector
    MaxLosses     \* bound: requests and streams that fail

VARIABLES
    log,       \* run -> number of its durable events
    terminal,  \* runs whose status is terminal
    shutdown,  \* request_stream_shutdown was called
    stream,    \* server: stream -> [pc, run, epoch, cursor, page, wire]
    epoch,     \* inspector: number of selections so far
    shown,     \* inspector: the selected run, or "none"
    view,      \* inspector: the events shown, pairs of run and number
    current,   \* inspector: the stream it reads, or "none"
    refresh,   \* inspector: epoch -> [pc, run, after, rows, status]
    losses

vars == <<log, terminal, shutdown, stream, epoch, shown, view, current, refresh, losses>>
server == <<log, terminal, shutdown>>

None == "none"
Closed == [pc |-> "closed", run |-> None, epoch |-> 0, cursor |-> 0, page |-> {}, wire |-> <<>>]
NoRefresh == [pc |-> "idle", run |-> None, after |-> 0, rows |-> {}, status |-> "unread"]

Init ==
    /\ log = [r \in Runs |-> 0] /\ terminal = {} /\ shutdown = FALSE
    /\ stream = [s \in Streams |-> Closed]
    /\ epoch = 0 /\ shown = None /\ view = {} /\ current = None
    /\ refresh = [e \in 1..MaxSelects |-> NoRefresh]
    /\ losses = 0

\* EventStore.list: the first Page events after a number.
Query(r, after) == {<<r, n>> : n \in {m \in 1..log[r] : m > after /\ m <= after + Page}}
Last(items) == Max({item[2] : item \in items} \cup {0})

-----------------------------------------------------------------------------
(* The run *)

\* Events are also written after the status is terminal: of its children, its
\* reviews, and the run's own last one.
AppendEvent(r) ==
    /\ log[r] < MaxEvents
    /\ log' = [log EXCEPT ![r] = @ + 1]
    /\ UNCHANGED <<terminal, shutdown, stream, epoch, shown, view, current, refresh, losses>>

Settle(r) ==
    /\ r \notin terminal
    /\ terminal' = terminal \cup {r}
    /\ UNCHANGED <<log, shutdown, stream, epoch, shown, view, current, refresh, losses>>

RequestShutdown ==
    /\ ~shutdown /\ shutdown' = TRUE
    /\ UNCHANGED <<log, terminal, stream, epoch, shown, view, current, refresh, losses>>

-----------------------------------------------------------------------------
(* The server's stream: run_event_stream *)

\* The signal is read before and after the query.
List(s) ==
    /\ stream[s].pc = "list"
    /\ LET page == Query(stream[s].run, stream[s].cursor) IN
       stream' = [stream EXCEPT ![s] =
            IF shutdown THEN [@ EXCEPT !.pc = "ended", !.cursor = 0]
            ELSE [@ EXCEPT !.pc = IF page = {} THEN "idle" ELSE "send", !.page = page]]
    /\ UNCHANGED <<epoch, shown, view, current, refresh, losses>> /\ UNCHANGED server

\* The cursor moves with each event that is sent.
Send(s) ==
    /\ stream[s].pc = "send" /\ stream[s].page # {}
    /\ LET c    == stream[s]
           item == CHOOSE i \in c.page : \A j \in c.page : i[2] <= j[2]
       IN stream' = [stream EXCEPT ![s] = [c EXCEPT !.page = c.page \ {item}, !.cursor = item[2],
                                                    !.wire = c.wire \o <<item>>]]
    /\ UNCHANGED <<epoch, shown, view, current, refresh, losses>> /\ UNCHANGED server

\* The status is read after the page was sent; only an empty page waits.
Judge(s) ==
    /\ stream[s].pc = "idle" \/ (stream[s].pc = "send" /\ stream[s].page = {})
    /\ stream' = [stream EXCEPT ![s] =
            IF stream[s].run \in terminal THEN [@ EXCEPT !.pc = "ended", !.cursor = 0]
            ELSE [@ EXCEPT !.pc = IF stream[s].pc = "idle" THEN "wait" ELSE "list"]]
    /\ UNCHANGED <<epoch, shown, view, current, refresh, losses>> /\ UNCHANGED server

\* EventNotifier.wait: a notification, or its time is over.
Wake(s) ==
    /\ stream[s].pc = "wait"
    /\ stream' = [stream EXCEPT ![s].pc = "list"]
    /\ UNCHANGED <<epoch, shown, view, current, refresh, losses>> /\ UNCHANGED server

-----------------------------------------------------------------------------
(* The inspector: RunController *)

\* refresh: one at a time for a selection; both requests leave together.
BeginRefresh(e, r, items) ==
    refresh' = [refresh EXCEPT ![e] =
        IF @.pc = "idle" THEN [NoRefresh EXCEPT !.pc = "asking", !.run = r, !.after = Last(items)] ELSE @]

\* stop: the stream is aborted, and what it still holds is discarded.
Select(r) ==
    /\ epoch < MaxSelects
    /\ epoch' = epoch + 1 /\ shown' = r
    /\ view' = {} /\ current' = None
    /\ BeginRefresh(epoch + 1, r, {})
    /\ UNCHANGED <<stream, losses>> /\ UNCHANGED server

\* Fault: a settled run is not asked for again.
PollWhileActive ==
    /\ epoch > 0 /\ refresh[epoch].pc = "idle" /\ shown \notin terminal
    /\ BeginRefresh(epoch, shown, view)
    /\ UNCHANGED <<stream, epoch, shown, view, current, losses>> /\ UNCHANGED server

\* The timer of RunInspector; it does not look at the run's status.
Poll ==
    /\ epoch > 0 /\ refresh[epoch].pc = "idle"
    /\ BeginRefresh(epoch, shown, view)
    /\ UNCHANGED <<stream, epoch, shown, view, current, losses>> /\ UNCHANGED server

AnswerRun(e) ==
    /\ refresh[e].pc \in {"asking", "rows"} /\ refresh[e].status = "unread" /\ ~shutdown
    /\ refresh' = [refresh EXCEPT ![e].status =
            IF refresh[e].run \in terminal THEN "terminal" ELSE "active"]
    /\ UNCHANGED <<stream, epoch, shown, view, current, losses>> /\ UNCHANGED server

AnswerEvents(e) ==
    /\ refresh[e].pc = "asking" /\ ~shutdown
    /\ refresh' = [refresh EXCEPT ![e].pc = "rows", ![e].rows = Query(refresh[e].run, refresh[e].after)]
    /\ UNCHANGED <<stream, epoch, shown, view, current, losses>> /\ UNCHANGED server

\* An answer belongs to the selection that asked.  A terminal run needs no stream; else
\* one is opened from the last event, now or at a later refresh.
Refreshed(e) ==
    /\ refresh[e].pc = "rows" /\ refresh[e].status # "unread"
    /\ refresh' = [refresh EXCEPT ![e] = NoRefresh]
    /\ IF e # epoch THEN UNCHANGED <<view, current, stream>>
       ELSE /\ view' = view \cup refresh[e].rows
            /\ \/ refresh[e].status = "terminal" /\ current' = None /\ UNCHANGED stream
               \/ refresh[e].status = "active" /\ UNCHANGED <<current, stream>>
               \/ /\ refresh[e].status = "active" /\ current = None /\ ~shutdown
                  /\ \E s \in Streams :
                        /\ stream[s].pc = "closed"
                        /\ current' = s
                        /\ stream' = [stream EXCEPT ![s] = [Closed EXCEPT !.pc = "list",
                                !.run = shown, !.epoch = epoch, !.cursor = Last(view')]]
    /\ UNCHANGED <<epoch, shown, losses>> /\ UNCHANGED server

\* A request fails; its error is shown and the next refresh asks again.
RefreshFails(e) ==
    /\ refresh[e].pc # "idle"
    /\ shutdown \/ losses < MaxLosses
    /\ losses' = IF shutdown THEN losses ELSE losses + 1
    /\ refresh' = [refresh EXCEPT ![e] = NoRefresh]
    /\ UNCHANGED <<stream, epoch, shown, view, current>> /\ UNCHANGED server

\* Fault: an aborted stream of the same run is still merged.
DeliverLate(s) ==
    /\ stream[s].wire # <<>>
    /\ stream' = [stream EXCEPT ![s].wire = Tail(@)]
    /\ view' = IF stream[s].run = shown THEN view \cup {Head(stream[s].wire)} ELSE view
    /\ IF epoch > 0 THEN BeginRefresh(epoch, shown, view') ELSE UNCHANGED refresh
    /\ UNCHANGED <<epoch, shown, current, losses>> /\ UNCHANGED server

\* onEvent: only of the current selection and of a stream that is not aborted.
Deliver(s) ==
    /\ stream[s].wire # <<>>
    /\ stream' = [stream EXCEPT ![s].wire = Tail(@)]
    /\ IF stream[s].epoch = epoch /\ current = s
       THEN /\ view' = view \cup {Head(stream[s].wire)}
            /\ BeginRefresh(epoch, shown, view')
       ELSE UNCHANGED <<view, refresh>>
    /\ UNCHANGED <<epoch, shown, current, losses>> /\ UNCHANGED server

\* The response is read to its end.
EndStream(s) ==
    /\ stream[s].pc = "ended" /\ stream[s].wire = <<>>
    /\ stream' = [stream EXCEPT ![s] = Closed]
    /\ current' = IF current = s THEN None ELSE current
    /\ UNCHANGED <<epoch, shown, view, refresh, losses>> /\ UNCHANGED server

\* The connection is lost, or its reader aborted it: what was not read is gone.
Drop(s) ==
    /\ stream[s].pc # "closed"
    /\ current # s \/ losses < MaxLosses
    /\ losses' = IF current = s THEN losses + 1 ELSE losses
    /\ stream' = [stream EXCEPT ![s] = Closed]
    /\ current' = IF current = s THEN None ELSE current
    /\ UNCHANGED <<epoch, shown, view, refresh>> /\ UNCHANGED server

Serve(s) == List(s) \/ Send(s) \/ Judge(s) \/ Wake(s)
Ask(e) == AnswerRun(e) \/ AnswerEvents(e) \/ Refreshed(e)

Next ==
    \/ \E r \in Runs : AppendEvent(r) \/ Settle(r) \/ Select(r)
    \/ \E s \in Streams : Serve(s) \/ Deliver(s) \/ EndStream(s) \/ Drop(s)
    \/ \E e \in 1..MaxSelects : Ask(e) \/ RefreshFails(e)
    \/ Poll \/ RequestShutdown

\* The timer keeps firing and answers arrive: nothing is assumed of the streams.
Fairness ==
    /\ WF_vars(Poll)
    /\ \A e \in 1..MaxSelects : WF_vars(Ask(e))

Spec == Init /\ [][Next]_vars /\ Fairness

-----------------------------------------------------------------------------
(* Properties *)

\* What the inspector shows is the beginning of the selected run's log, without a gap:
\* whatever streams and queries overlap, and whichever selection they were made for.
ViewIsPrefix ==
    /\ view = {<<shown, n>> : n \in 1..Last(view)}
    /\ view # {} => Last(view) <= log[shown]

\* What the selected run has and the inspector does not show.
Missing == {n \in 1..(IF shown = None THEN 0 ELSE log[shown]) : <<shown, n>> \notin view}

\* Every durable event of a run that stays selected is shown, also one that the stream
\* missed because the status was terminal when it looked.  (Logs and selections are
\* finite here, so that none is missing any more says it for each event.)
EveryEventShown == (Missing # {}) ~> (Missing = {} \/ shutdown)

(***************************************************************************)
(* Why ViewIsPrefix holds: what is on its way to the inspector, on the wire *)
(* of the current stream or in the rows of its refresh, continues the view  *)
(* at or before its end, because it was asked for after an event that the   *)
(* view already had, and the view only grows.                               *)
(***************************************************************************)
\* A stream is not called "none", and the numbers are numbers.
StreamBounds == None \notin Streams /\ MaxSelects \in Nat /\ MaxEvents \in Nat /\ Page \in Nat

Segment(r, a, b) == {<<r, n>> : n \in (a + 1)..b}

Connections == [pc : {"closed", "list", "send", "idle", "wait", "ended"}, run : Runs \cup {None},
                epoch : 0..MaxSelects, cursor : Nat, page : SUBSET (Runs \X Nat),
                wire : Seq(Runs \X Nat)]
Refreshes == [pc : {"idle", "asking", "rows"}, run : Runs \cup {None}, after : Nat,
              rows : SUBSET (Runs \X Nat), status : {"unread", "active", "terminal"}]

StreamTypes ==
    /\ log \in [Runs -> Nat] /\ epoch \in 0..MaxSelects
    /\ stream \in [Streams -> Connections] /\ current \in Streams \cup {None}
    /\ refresh \in [1..MaxSelects -> Refreshes]
    /\ \A s \in Streams : stream[s].pc # "closed" => stream[s].run \in Runs
    /\ \A e \in 1..MaxSelects : refresh[e].pc # "idle" => refresh[e].run \in Runs

\* The selections: none yet, or the last one's run; later ones have asked for nothing.
Selected ==
    /\ epoch > 0 => shown \in Runs
    /\ epoch = 0 => view = {} /\ current = None
    /\ \A e \in 1..MaxSelects : e > epoch => refresh[e].pc = "idle"

\* What a stream has listed and not sent continues its cursor.
PagesSound ==
    \A s \in Streams : stream[s].pc = "send" =>
        \E m \in 0..log[stream[s].run] :
            stream[s].page = Segment(stream[s].run, stream[s].cursor, m)

ViewSound(k) == view = Segment(shown, 0, k) /\ (k > 0 => k <= log[shown])

\* What the current stream has read is in order, from an event the view has.
WireSound(t, k) ==
    /\ t.pc # "closed" /\ t.epoch = epoch /\ t.run = shown
    /\ \E a \in 0..k :
          /\ \A i \in 1..Len(t.wire) : t.wire[i] = <<shown, a + i>>
          /\ a + Len(t.wire) <= log[shown]
          /\ t.pc # "ended" => t.cursor = a + Len(t.wire)

RefreshSound(q, k) ==
    /\ q.pc # "idle" => q.run = shown /\ q.after <= k
    /\ q.pc = "rows" => \E m \in 0..log[shown] : q.rows = Segment(shown, q.after, m)

StreamInv ==
    /\ StreamTypes /\ Selected /\ PagesSound
    /\ \E k \in Nat : /\ ViewSound(k)
                      /\ current # None => WireSound(stream[current], k)
                      /\ epoch > 0 => RefreshSound(refresh[epoch], k)
=============================================================================
