----------------------------- MODULE ToolLedger -----------------------------
(***************************************************************************)
(* ToolExecutionLedger: the rows that keep a tool's side effect from being  *)
(* entered twice, whoever calls again with the same (run, tool call).       *)
(*                                                                         *)
(* Several ledger objects (graph, deep, legacy, MCP) of one process share   *)
(* the table.  Each remembers in _failed that an outcome was lost and then  *)
(* opens no further connection.  Before a new process starts its pumps, the *)
(* table is searched for rows that were never sealed (tool_recovery).       *)
(*                                                                         *)
(* One action is one SQL statement with its commit, or one stretch between  *)
(* awaits.  The SELECT of _begin opens no transaction, so another caller    *)
(* can come between it and the INSERT.                                      *)
(***************************************************************************)
EXTENDS Naturals, Sequences

CONSTANTS
    Keys,        \* (run_id, tool_call_id) pairs
    Ledgers,     \* ledger objects of the process
    Callers,     \* calls of aexecute_once, each made once
    Inputs,      \* tool name and arguments, as the ledger's hash tells them apart
    MaxRestarts  \* bound: process crashes

LedgerBound == MaxRestarts \in Nat

VARIABLES
    row,         \* key -> its row in tool_executions
    performed,   \* key -> inputs its effect was entered with, in order (history)
    latch,       \* ledger -> _failed
    caller,      \* caller -> its progress and arguments
    quarantined, \* this process found unsealed rows and serves metadata only
    restarts     \* crashes so far

vars == <<row, performed, latch, caller, quarantined, restarts>>

NoRow  == [status |-> "none"]
NoCall == [pc |-> "idle"]

Init ==
    /\ row = [k \in Keys |-> NoRow]
    /\ performed = [k \in Keys |-> <<>>]
    /\ latch = [l \in Ledgers |-> FALSE]
    /\ caller = [c \in Callers |-> NoCall]
    /\ quarantined = FALSE
    /\ restarts = 0

At(c, pc) == caller[c].pc = pc
Goto(c, pc) == caller' = [caller EXCEPT ![c].pc = pc]
Failed(c) == latch[caller[c].ledger]
MarkFailed(c) == latch' = [latch EXCEPT ![caller[c].ledger] = TRUE]
RowOf(c) == row[caller[c].key]

-----------------------------------------------------------------------------
Call(c, k, l, i) ==
    /\ At(c, "idle")
    /\ ~quarantined
    /\ caller' = [caller EXCEPT ![c] =
          [pc |-> "begin", key |-> k, ledger |-> l, input |-> i, outcome |-> "none",
           cancelled |-> FALSE]]
    /\ UNCHANGED <<row, performed, latch, quarantined, restarts>>

(* _begin *)

\* A failed ledger opens no connection.
BeginClosed(c) ==
    /\ At(c, "begin")
    /\ Failed(c)
    /\ Goto(c, "refused")
    /\ UNCHANGED <<row, performed, latch, quarantined, restarts>>

\* Fault: a completed row is replayed to a call with other arguments.
BeginSealedUnbound(c) ==
    /\ At(c, "begin")
    /\ ~Failed(c)
    /\ RowOf(c).status \in {"completed", "failed"}
    /\ Goto(c, IF RowOf(c).status = "completed" THEN "returned" ELSE "refused")
    /\ UNCHANGED <<row, performed, latch, quarantined, restarts>>

\* A sealed row: its result is replayed, or the call is refused.
BeginSealed(c) ==
    /\ At(c, "begin")
    /\ ~Failed(c)
    /\ RowOf(c).status # "none"
    /\ RowOf(c).input = caller[c].input => RowOf(c).status # "running"
    /\ Goto(c, IF RowOf(c).status = "completed" /\ RowOf(c).input = caller[c].input
               THEN "returned" ELSE "refused")
    /\ UNCHANGED <<row, performed, latch, quarantined, restarts>>

\* A row nobody sealed: its outcome is unknown, the ledger gives up.
BeginUnknown(c) ==
    /\ At(c, "begin")
    /\ ~Failed(c)
    /\ RowOf(c).status = "running"
    /\ RowOf(c).input = caller[c].input
    /\ MarkFailed(c)
    /\ Goto(c, "refused")
    /\ UNCHANGED <<row, performed, quarantined, restarts>>

BeginFree(c) ==
    /\ At(c, "begin")
    /\ ~Failed(c)
    /\ RowOf(c).status = "none"
    /\ Goto(c, "insert")
    /\ UNCHANGED <<row, performed, latch, quarantined, restarts>>

\* The reservation commits; close may still fail and lose it for the caller.
Reservation(c) == [status |-> "running", input |-> caller[c].input, epoch |-> restarts]

\* Fault: INSERT OR REPLACE in place of INSERT.
BeginInsertOrReplace(c) ==
    /\ At(c, "insert")
    /\ row' = [row EXCEPT ![caller[c].key] = Reservation(c)]
    /\ Goto(c, IF caller[c].cancelled THEN "cancelled" ELSE "reserved")
    /\ UNCHANGED <<performed, latch, quarantined, restarts>>

BeginInsert(c) ==
    /\ At(c, "insert")
    /\ RowOf(c).status = "none"
    /\ row' = [row EXCEPT ![caller[c].key] = Reservation(c)]
    /\ \/ /\ Goto(c, IF caller[c].cancelled THEN "cancelled" ELSE "reserved")
          /\ UNCHANGED latch
       \/ Goto(c, "refused") /\ MarkFailed(c)
    /\ UNCHANGED <<performed, quarantined, restarts>>

\* Any SQLite error leaves nothing written; the primary key makes a lost race one.
PhaseFault(c) ==
    /\ \/ caller[c].pc \in {"begin", "sealing"} /\ ~Failed(c)
       \/ caller[c].pc \in {"insert", "writing"}
    /\ MarkFailed(c)
    /\ Goto(c, "refused")
    /\ UNCHANGED <<row, performed, quarantined, restarts>>

\* The caller is cancelled while the worker of a phase runs: the ledger is
\* marked at once, the worker is joined, the cancellation comes after it.
CancelPhase(c) ==
    /\ caller[c].pc \in {"begin", "insert", "sealing", "writing"}
    /\ ~caller[c].cancelled
    /\ caller' = [caller EXCEPT ![c].cancelled = TRUE]
    /\ MarkFailed(c)
    /\ UNCHANGED <<row, performed, quarantined, restarts>>

-----------------------------------------------------------------------------
(* the operation itself *)

Perform(c) == performed' = [performed EXCEPT ![caller[c].key] = Append(@, caller[c].input)]

\* It returns, or raises an Exception before or after its effect.
Operate(c) ==
    /\ At(c, "reserved")
    /\ \E outcome \in {"completed", "failed"} :
          /\ caller' = [caller EXCEPT ![c].pc = "sealing", ![c].outcome = outcome]
          /\ \/ Perform(c)
             \/ outcome = "failed" /\ UNCHANGED performed
    /\ UNCHANGED <<row, latch, quarantined, restarts>>

\* A cancellation is no Exception: nothing is sealed, the row stays running.
CancelOperation(c) ==
    /\ At(c, "reserved")
    /\ Goto(c, "cancelled")
    /\ Perform(c) \/ UNCHANGED performed
    /\ UNCHANGED <<row, latch, quarantined, restarts>>

(* _finish *)

SealClosed(c) ==
    /\ At(c, "sealing")
    /\ Failed(c)
    /\ Goto(c, "refused")
    /\ UNCHANGED <<row, performed, latch, quarantined, restarts>>

SealOpen(c) ==
    /\ At(c, "sealing")
    /\ ~Failed(c)
    /\ Goto(c, "writing")
    /\ UNCHANGED <<row, performed, latch, quarantined, restarts>>

Sealed(c) == [RowOf(c) EXCEPT !.status = caller[c].outcome]

\* A connection opened before a cancellation still commits.
Seal(c) ==
    /\ At(c, "writing")
    /\ row' = [row EXCEPT ![caller[c].key] = Sealed(c)]
    /\ \/ /\ Goto(c, IF caller[c].cancelled THEN "cancelled"
                     ELSE IF caller[c].outcome = "completed" THEN "returned" ELSE "refused")
          /\ UNCHANGED latch
       \/ Goto(c, "refused") /\ MarkFailed(c)
    /\ UNCHANGED <<performed, quarantined, restarts>>

-----------------------------------------------------------------------------
(* a new process *)

\* Fault: only rows that carry a known failure are looked for.
UnsealedFailure == \E k \in Keys : row[k].status = "failed"

\* ToolOperationRecoveryQueries.read: is any row unsealed?
Unsealed == \E k \in Keys : row[k].status = "running"

\* An unreadable table quarantines as well.
Restart ==
    /\ restarts < MaxRestarts
    /\ restarts' = restarts + 1
    /\ latch' = [l \in Ledgers |-> FALSE]
    /\ caller' = [c \in Callers |->
          IF caller[c].pc \in {"idle", "returned", "refused", "cancelled"} THEN caller[c]
          ELSE [caller[c] EXCEPT !.pc = "lost"]]
    /\ quarantined' \in {Unsealed, TRUE}
    /\ UNCHANGED <<row, performed>>

CallerStep(c) ==
    \/ BeginClosed(c) \/ BeginSealed(c) \/ BeginUnknown(c) \/ BeginFree(c) \/ BeginInsert(c)
    \/ PhaseFault(c) \/ CancelPhase(c) \/ Operate(c) \/ CancelOperation(c)
    \/ SealClosed(c) \/ SealOpen(c) \/ Seal(c)

Next ==
    \/ \E c \in Callers : CallerStep(c) \/ \E k \in Keys, l \in Ledgers, i \in Inputs : Call(c, k, l, i)
    \/ Restart

Spec == Init /\ [][Next]_vars
-----------------------------------------------------------------------------
Row == [status : {"none"}]
       \cup [status : {"running", "completed", "failed"}, input : Inputs, epoch : 0..MaxRestarts]

CallStates == {"begin", "insert", "reserved", "sealing", "writing", "returned", "refused",
               "cancelled", "lost"}

Underway == [pc : CallStates, key : Keys, ledger : Ledgers, input : Inputs,
             outcome : {"none", "completed", "failed"}, cancelled : BOOLEAN]

\* Every variable keeps its type.
TypeOK ==
    /\ row \in [Keys -> Row]
    /\ performed \in [Keys -> Seq(Inputs)]
    /\ latch \in [Ledgers -> BOOLEAN]
    /\ caller \in [Callers -> {NoCall} \cup Underway]
    /\ quarantined \in BOOLEAN
    /\ restarts \in 0..MaxRestarts

\* "Idempotency ledger for graph tool side effects": whatever races, fails,
\* is cancelled, restarts or calls again, one tool call has its effect once.
EffectAtMostOnce == \A k \in Keys : Len(performed[k]) =< 1

\* A completed row is the truth about the world: the effect of exactly that
\* input did take place.  The audit and the changes view are read from it.
CompletedMeansPerformed ==
    \A k \in Keys : row[k].status = "completed" => performed[k] = <<row[k].input>>

\* Whoever gets a result, first hand or replayed, gets the result of its own
\* input, sealed in the row before it was returned.
ReturnedMeansSealed ==
    \A c \in Callers : At(c, "returned") =>
        RowOf(c).status = "completed" /\ performed[caller[c].key] = <<caller[c].input>>

\* What the ledger says, to the audit or to a caller, is what took place.
ResultsTrue == TypeOK /\ CompletedMeansPerformed /\ ReturnedMeansSealed

\* A sealed row is never written again.
SealIsFinal ==
    [][\A k \in Keys : row[k].status \in {"completed", "failed"} => row'[k] = row[k]]_row

\* tool_recovery: as long as an effect of an earlier process is unknown, this
\* one enters no effect at all.
NoEffectPastUnknown ==
    [][(\E k \in Keys : row[k].status = "running" /\ row[k].epoch < restarts)
       => performed' = performed]_vars

-----------------------------------------------------------------------------
(* The invariant behind them.                                               *)

Holding(c) == caller[c].pc \in {"reserved", "sealing", "writing"}

\* Whoever may still seal a row is the one that inserted it, in this process.
HolderOwnsRow ==
    \A c \in Callers : Holding(c) =>
        RowOf(c).status = "running" /\ RowOf(c).input = caller[c].input /\ RowOf(c).epoch = restarts

OneHolder ==
    \A c, d \in Callers : Holding(c) /\ Holding(d) /\ caller[c].key = caller[d].key => c = d

NothingUnreserved == \A k \in Keys : row[k].status = "none" => performed[k] = <<>>

\* What the holder knows about its effect.
HolderProgress ==
    \A c \in Callers :
        /\ At(c, "reserved") => performed[caller[c].key] = <<>>
        /\ caller[c].pc \in {"sealing", "writing"} => caller[c].outcome \in {"completed", "failed"}
        /\ caller[c].pc \in {"sealing", "writing"} /\ caller[c].outcome = "completed"
              => performed[caller[c].key] = <<caller[c].input>>

\* A quarantined process has no caller under way; one with an unknown row of an
\* earlier process is quarantined.
Fenced ==
    /\ \A k \in Keys : row[k].status # "none" => row[k].epoch =< restarts
    /\ \A k \in Keys : row[k].status = "running" /\ row[k].epoch < restarts => quarantined
    /\ quarantined => \A c \in Callers :
          caller[c].pc \in {"idle", "returned", "refused", "cancelled", "lost"}

LedgerInv ==
    /\ TypeOK
    /\ HolderOwnsRow
    /\ OneHolder
    /\ NothingUnreserved
    /\ HolderProgress
    /\ Fenced
    /\ EffectAtMostOnce
    /\ CompletedMeansPerformed
    /\ ReturnedMeansSealed
=============================================================================
