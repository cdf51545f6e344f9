-------------------------- MODULE ToolLedgerProofs ---------------------------
(***************************************************************************)
(* A tool call has its effect at most once: proofs about ToolLedger for     *)
(* any number of keys, ledger objects, callers, inputs and crashes, and     *)
(* about the sum of the components it is one of.                            *)
(*                                                                         *)
(* LedgerInv is inductive.  Its core is that inserting the row is what      *)
(* gives a caller the right to the effect (HolderOwnsRow, OneHolder), that  *)
(* only a row nobody inserted can be inserted (NothingUnreserved), and that *)
(* a process which finds an unsealed row lets nobody begin (Fenced).        *)
(***************************************************************************)
EXTENDS Components, TLAPS

-----------------------------------------------------------------------------
(* ToolLedger: any keys, ledger objects, callers, inputs and crashes *)

\* A caller that is under way has all its arguments.
LEMMA CallerTyped ==
    ASSUME Ledger!TypeOK, NEW c \in Callers, ledger_caller[c].pc # "idle"
    PROVE  /\ ledger_caller[c] \in Ledger!Underway
           /\ ledger_caller[c].key \in LedgerKeys /\ ledger_caller[c].ledger \in Ledgers
              /\ ledger_caller[c].input \in Inputs
           /\ ledger_caller[c].pc \in Ledger!CallStates /\ ledger_caller[c].cancelled \in BOOLEAN
           /\ ledger_caller[c].outcome \in {"none", "completed", "failed"}
<1>1. ledger_caller[c] \in {Ledger!NoCall} \cup Ledger!Underway
  BY DEF Ledger!TypeOK
<1>2. ledger_caller[c] # Ledger!NoCall
  BY DEF Ledger!NoCall
<1> QED
  BY <1>1, <1>2 DEF Ledger!Underway

\* Nothing is reserved, performed or sealed when the service is first started.
LEMMA InitLedger == Ledger!LedgerBound /\ Ledger!Init => Ledger!LedgerInv
<1> SUFFICES ASSUME Ledger!LedgerBound, Ledger!Init PROVE Ledger!LedgerInv
  OBVIOUS
<1> USE DEF Ledger!LedgerBound, Ledger!Init, Ledger!NoRow, Ledger!NoCall
<1>1. Ledger!TypeOK
  <2>1. ledger_row \in [LedgerKeys -> Ledger!Row] /\ performed \in [LedgerKeys -> Seq(Inputs)]
    BY DEF Ledger!Row
  <2>2. ledger_caller \in [Callers -> {Ledger!NoCall} \cup Ledger!Underway]
    OBVIOUS
  <2>3. restarts \in 0..LedgerCrashes
    OBVIOUS
  <2>4. latch \in [Ledgers -> BOOLEAN]
    OBVIOUS
  <2>5. ledger_quarantined \in BOOLEAN
    OBVIOUS
  <2> QED
    BY <2>1, <2>2, <2>3, <2>4, <2>5 DEF Ledger!TypeOK
<1>2. Ledger!HolderOwnsRow /\ Ledger!OneHolder /\ Ledger!NothingUnreserved
  BY DEF Ledger!HolderOwnsRow, Ledger!OneHolder, Ledger!NothingUnreserved, Ledger!Holding
<1>3. Ledger!HolderProgress /\ Ledger!Fenced
  BY DEF Ledger!HolderProgress, Ledger!Fenced, Ledger!At
<1>4. Ledger!EffectAtMostOnce /\ Ledger!CompletedMeansPerformed /\ Ledger!ReturnedMeansSealed
  BY DEF Ledger!EffectAtMostOnce, Ledger!CompletedMeansPerformed, Ledger!ReturnedMeansSealed,
     Ledger!At
<1> QED
  BY <1>1, <1>2, <1>3, <1>4 DEF Ledger!LedgerInv

Active(c) == ledger_caller[c].pc \in {"begin", "insert", "reserved", "sealing", "writing"}

\* A caller that only moves on, reserving nothing and entering no effect.
LEMMA MoveKeeps ==
    ASSUME Ledger!LedgerInv, NEW c \in Callers, Active(c), NEW p \in Ledger!CallStates,
           Ledger!Goto(c, p),
           UNCHANGED <<ledger_row, performed, ledger_quarantined, restarts>>,
               latch' \in [Ledgers -> BOOLEAN],
           p \notin {"reserved", "sealing"},
           p = "writing" => Ledger!At(c, "sealing"),
           p = "returned" => Ledger!RowOf(c).status = "completed"
               /\ Ledger!RowOf(c).input = ledger_caller[c].input
    PROVE  Ledger!LedgerInv'
<1>1. Ledger!TypeOK /\ ledger_caller[c].pc # "idle"
  BY DEF Ledger!LedgerInv, Active
<1>2. ledger_caller[c] \in Ledger!Underway /\ ledger_caller[c].key \in LedgerKeys
  BY <1>1, CallerTyped
<1>3. /\ ledger_caller'[c] = [ledger_caller[c] EXCEPT !.pc = p]
      /\ \A d \in Callers \ {c} : ledger_caller'[d] = ledger_caller[d]
  BY <1>1 DEF Ledger!Goto, Ledger!TypeOK
<1>4. /\ ledger_caller'[c].pc = p /\ ledger_caller'[c].key = ledger_caller[c].key
         /\ ledger_caller'[c].input = ledger_caller[c].input
      /\ ledger_caller'[c].outcome = ledger_caller[c].outcome
  BY <1>2, <1>3 DEF Ledger!Underway
<1>5. \A d \in Callers : Ledger!Holding(d)'
      => Ledger!Holding(d) /\ ledger_caller'[d].key = ledger_caller[d].key
                                        /\ ledger_caller'[d].input = ledger_caller[d].input
  BY <1>3, <1>4 DEF Ledger!Holding, Ledger!At
<1>6. Ledger!TypeOK'
  <2>1. ledger_caller' \in [Callers -> {Ledger!NoCall} \cup Ledger!Underway]
    BY <1>1, <1>2 DEF Ledger!Goto, Ledger!TypeOK, Ledger!Underway
  <2> QED
    BY <1>1, <2>1 DEF Ledger!TypeOK
<1>7. Ledger!HolderOwnsRow'
  BY <1>5 DEF Ledger!LedgerInv, Ledger!HolderOwnsRow, Ledger!RowOf
<1>8. Ledger!OneHolder'
  BY <1>5 DEF Ledger!LedgerInv, Ledger!OneHolder
<1>9. Ledger!NothingUnreserved' /\ Ledger!EffectAtMostOnce' /\ Ledger!CompletedMeansPerformed'
  BY DEF Ledger!LedgerInv, Ledger!NothingUnreserved, Ledger!EffectAtMostOnce,
     Ledger!CompletedMeansPerformed
<1>10. Ledger!HolderProgress'
  <2> DEFINE Good(d) ==
        /\ Ledger!At(d, "reserved") => performed[ledger_caller[d].key] = <<>>
        /\ ledger_caller[d].pc \in {"sealing", "writing"}
           => ledger_caller[d].outcome \in {"completed", "failed"}
        /\ ledger_caller[d].pc \in {"sealing", "writing"} /\ ledger_caller[d].outcome = "completed"
              => performed[ledger_caller[d].key] = <<ledger_caller[d].input>>
  <2>1. \A d \in Callers : Good(d)
    BY DEF Ledger!LedgerInv, Ledger!HolderProgress
  <2>2. Good(c)'
    BY <1>4, <2>1 DEF Ledger!At
  <2>3. ASSUME NEW d \in Callers, d # c PROVE Good(d)'
    BY <1>3, <2>1, <2>3 DEF Ledger!At
  <2> QED
    BY <2>2, <2>3 DEF Ledger!HolderProgress
<1>11. Ledger!Fenced'
  BY DEF Ledger!LedgerInv, Ledger!Fenced, Active
<1>12. Ledger!ReturnedMeansSealed'
  <2> SUFFICES ASSUME NEW d \in Callers, Ledger!At(d, "returned")'
               PROVE  /\ Ledger!RowOf(d)'.status = "completed"
                      /\ performed[ledger_caller'[d].key] = <<ledger_caller'[d].input>>
    BY DEF Ledger!ReturnedMeansSealed
  <2>1. CASE d = c
    BY <1>2, <1>4, <2>1 DEF Ledger!LedgerInv, Ledger!CompletedMeansPerformed, Ledger!At,
       Ledger!RowOf
  <2>2. CASE d # c
    BY <1>3, <2>2 DEF Ledger!LedgerInv, Ledger!ReturnedMeansSealed, Ledger!At, Ledger!RowOf
  <2> QED
    BY <2>1, <2>2
<1> QED
  BY <1>6, <1>7, <1>8, <1>9, <1>10, <1>11, <1>12 DEF Ledger!LedgerInv

\* Marking a ledger keeps its type.
LEMMA MarkTyped ==
    ASSUME Ledger!TypeOK, NEW c \in Callers, Ledger!MarkFailed(c)
    PROVE  latch' \in [Ledgers -> BOOLEAN]
BY DEF Ledger!TypeOK, Ledger!MarkFailed

\* The phases that write no row.
LEMMA ReadingKeeps ==
    ASSUME Ledger!LedgerInv, NEW c \in Callers,
           Ledger!BeginClosed(c) \/ Ledger!BeginSealed(c) \/ Ledger!BeginUnknown(c)
               \/ Ledger!BeginFree(c) \/ Ledger!PhaseFault(c)
             \/ Ledger!SealClosed(c) \/ Ledger!SealOpen(c)
    PROVE  Ledger!LedgerInv'
<1>1. PICK p \in {"insert", "writing", "returned", "refused"} :
        /\ Ledger!Goto(c, p)
        /\ p = "writing" => Ledger!At(c, "sealing")
        /\ p = "returned"
           => Ledger!RowOf(c).status = "completed" /\ Ledger!RowOf(c).input = ledger_caller[c].input
  BY Zenon DEF Ledger!BeginClosed, Ledger!BeginSealed, Ledger!BeginUnknown, Ledger!BeginFree,
     Ledger!PhaseFault, Ledger!SealClosed, Ledger!SealOpen, Ledger!At
<1>2. p \in Ledger!CallStates /\ p \notin {"reserved", "sealing"}
  BY DEF Ledger!CallStates
<1>3. Active(c)
  BY DEF Ledger!BeginClosed, Ledger!BeginSealed, Ledger!BeginUnknown, Ledger!BeginFree,
     Ledger!PhaseFault, Ledger!SealClosed, Ledger!SealOpen, Active, Ledger!At
<1>4. UNCHANGED <<ledger_row, performed, ledger_quarantined, restarts>>
  BY DEF Ledger!BeginClosed, Ledger!BeginSealed, Ledger!BeginUnknown, Ledger!BeginFree,
     Ledger!PhaseFault, Ledger!SealClosed, Ledger!SealOpen
<1>5. latch' \in [Ledgers -> BOOLEAN]
  <2>1. Ledger!TypeOK
    BY DEF Ledger!LedgerInv
  <2>2. UNCHANGED latch \/ Ledger!MarkFailed(c)
    BY DEF Ledger!BeginClosed, Ledger!BeginSealed, Ledger!BeginUnknown, Ledger!BeginFree,
       Ledger!PhaseFault, Ledger!SealClosed, Ledger!SealOpen
  <2> QED
    BY <2>1, <2>2, MarkTyped DEF Ledger!TypeOK
<1> QED
  BY <1>1, <1>2, <1>3, <1>4, <1>5, MoveKeeps

\* A caller that is cancelled in a phase stays where it is.
LEMMA CancelPhaseKeeps ==
    ASSUME Ledger!LedgerInv, NEW c \in Callers, Ledger!CancelPhase(c)
    PROVE  Ledger!LedgerInv'
<1>1. Ledger!TypeOK /\ ledger_caller[c].pc # "idle"
  BY DEF Ledger!LedgerInv, Ledger!CancelPhase
<1>2. ledger_caller[c] \in Ledger!Underway
  BY <1>1, CallerTyped
<1>3. ledger_caller' \in [Callers -> {Ledger!NoCall} \cup Ledger!Underway]
  BY <1>1, <1>2 DEF Ledger!CancelPhase, Ledger!TypeOK, Ledger!Underway
<1>4. \A d \in Callers : /\ ledger_caller'[d].pc = ledger_caller[d].pc
                            /\ ledger_caller'[d].key = ledger_caller[d].key
                         /\ ledger_caller'[d].input = ledger_caller[d].input
                            /\ ledger_caller'[d].outcome = ledger_caller[d].outcome
  <2>1. ASSUME NEW d \in Callers, d # c PROVE ledger_caller'[d] = ledger_caller[d]
    BY <1>1, <2>1 DEF Ledger!CancelPhase, Ledger!TypeOK
  <2>2. ledger_caller'[c] = [ledger_caller[c] EXCEPT !.cancelled = TRUE]
    BY <1>1 DEF Ledger!CancelPhase, Ledger!TypeOK
  <2> QED
    BY <1>2, <2>1, <2>2 DEF Ledger!Underway
<1>5. UNCHANGED <<ledger_row, performed, ledger_quarantined, restarts>>
  BY DEF Ledger!CancelPhase
<1>6. Ledger!TypeOK'
  BY <1>1, <1>3, <1>5, MarkTyped DEF Ledger!TypeOK, Ledger!CancelPhase
<1>7. Ledger!HolderOwnsRow' /\ Ledger!OneHolder'
  BY <1>4, <1>5 DEF Ledger!LedgerInv, Ledger!HolderOwnsRow, Ledger!OneHolder, Ledger!Holding,
     Ledger!RowOf
<1>8. Ledger!NothingUnreserved' /\ Ledger!EffectAtMostOnce' /\ Ledger!CompletedMeansPerformed'
  BY <1>5 DEF Ledger!LedgerInv, Ledger!NothingUnreserved, Ledger!EffectAtMostOnce,
     Ledger!CompletedMeansPerformed
<1>9. Ledger!HolderProgress'
  BY <1>4, <1>5 DEF Ledger!LedgerInv, Ledger!HolderProgress, Ledger!At
<1>10. Ledger!Fenced'
  BY <1>4, <1>5 DEF Ledger!LedgerInv, Ledger!Fenced
<1>11. Ledger!ReturnedMeansSealed'
  BY <1>4, <1>5 DEF Ledger!LedgerInv, Ledger!ReturnedMeansSealed, Ledger!At, Ledger!RowOf
<1> QED
  BY <1>6, <1>7, <1>8, <1>9, <1>10, <1>11 DEF Ledger!LedgerInv

\* A new call holds nothing yet, and none starts in a quarantined process.
LEMMA CallKeeps ==
    ASSUME Ledger!LedgerInv, NEW c \in Callers, NEW k \in LedgerKeys, NEW l \in Ledgers,
           NEW i \in Inputs,
           Ledger!Call(c, k, l, i)
    PROVE  Ledger!LedgerInv'
<1>1. Ledger!TypeOK /\ ~ledger_quarantined
  BY DEF Ledger!LedgerInv, Ledger!Call
<1>2. ledger_caller'[c] = [pc |-> "begin", key |-> k, ledger |-> l, input |-> i, outcome |-> "none",
                    cancelled |-> FALSE]
  BY <1>1 DEF Ledger!Call, Ledger!TypeOK
<1>3. \A d \in Callers \ {c} : ledger_caller'[d] = ledger_caller[d]
  BY <1>1 DEF Ledger!Call, Ledger!TypeOK
<1>4. UNCHANGED <<ledger_row, performed, latch, ledger_quarantined, restarts>>
  BY DEF Ledger!Call
<1>5. Ledger!TypeOK'
  <2>1. ledger_caller' \in [Callers -> {Ledger!NoCall} \cup Ledger!Underway]
    BY <1>1, <1>2 DEF Ledger!Call, Ledger!TypeOK, Ledger!Underway, Ledger!CallStates
  <2> QED
    BY <1>1, <1>4, <2>1 DEF Ledger!TypeOK
<1>6. ~Ledger!Holding(c)' /\ ~Ledger!At(c, "returned")' /\ ~Ledger!At(c, "reserved")'
  BY <1>2 DEF Ledger!Holding, Ledger!At
<1>7. Ledger!HolderOwnsRow' /\ Ledger!OneHolder'
  BY <1>3, <1>4, <1>6 DEF Ledger!LedgerInv, Ledger!HolderOwnsRow, Ledger!OneHolder,
     Ledger!Holding, Ledger!RowOf
<1>8. Ledger!NothingUnreserved' /\ Ledger!EffectAtMostOnce' /\ Ledger!CompletedMeansPerformed'
  BY <1>4 DEF Ledger!LedgerInv, Ledger!NothingUnreserved, Ledger!EffectAtMostOnce,
     Ledger!CompletedMeansPerformed
<1>9. Ledger!HolderProgress'
  BY <1>2, <1>3, <1>4 DEF Ledger!LedgerInv, Ledger!HolderProgress, Ledger!At
<1>10. Ledger!Fenced'
  BY <1>1, <1>4 DEF Ledger!LedgerInv, Ledger!Fenced
<1>11. Ledger!ReturnedMeansSealed'
  BY <1>3, <1>4, <1>6 DEF Ledger!LedgerInv, Ledger!ReturnedMeansSealed, Ledger!At, Ledger!RowOf
<1> QED
  BY <1>5, <1>7, <1>8, <1>9, <1>10, <1>11 DEF Ledger!LedgerInv

\* What moving to p does to the callers.
LEMMA GotoMoves ==
    ASSUME Ledger!TypeOK, NEW c \in Callers, ledger_caller[c].pc # "idle",
           NEW p \in Ledger!CallStates, Ledger!Goto(c, p)
    PROVE  /\ ledger_caller' \in [Callers -> {Ledger!NoCall} \cup Ledger!Underway]
           /\ ledger_caller'[c].pc = p /\ ledger_caller'[c].key = ledger_caller[c].key
              /\ ledger_caller'[c].input = ledger_caller[c].input
           /\ ledger_caller'[c].outcome = ledger_caller[c].outcome
           /\ \A d \in Callers \ {c} : ledger_caller'[d] = ledger_caller[d]
<1>1. ledger_caller[c] \in Ledger!Underway
  BY CallerTyped
<1>2. /\ ledger_caller'[c] = [ledger_caller[c] EXCEPT !.pc = p]
      /\ \A d \in Callers \ {c} : ledger_caller'[d] = ledger_caller[d]
  BY DEF Ledger!Goto, Ledger!TypeOK
<1>3. ledger_caller' \in [Callers -> {Ledger!NoCall} \cup Ledger!Underway]
  BY <1>1 DEF Ledger!Goto, Ledger!TypeOK, Ledger!Underway
<1> QED
  BY <1>1, <1>2, <1>3 DEF Ledger!Underway

\* The reservation: the row was free, so nobody held it and nothing was done.
LEMMA InsertKeeps ==
    ASSUME Ledger!LedgerInv, NEW c \in Callers, Ledger!BeginInsert(c)
    PROVE  Ledger!LedgerInv'
<1> DEFINE k == ledger_caller[c].key
<1>1. Ledger!TypeOK /\ ledger_caller[c].pc # "idle" /\ Ledger!At(c, "insert")
      /\ ledger_row[k].status = "none"
  BY DEF Ledger!LedgerInv, Ledger!BeginInsert, Ledger!At, Ledger!RowOf
<1>2. k \in LedgerKeys /\ ledger_caller[c].input \in Inputs
  BY <1>1, CallerTyped
<1>3. PICK p \in {"cancelled", "reserved", "refused"} : Ledger!Goto(c, p)
  BY Zenon DEF Ledger!BeginInsert
<1>4. p \in Ledger!CallStates
  BY DEF Ledger!CallStates
<1>5. /\ ledger_caller' \in [Callers -> {Ledger!NoCall} \cup Ledger!Underway]
      /\ ledger_caller'[c].pc = p /\ ledger_caller'[c].key = k
         /\ ledger_caller'[c].input = ledger_caller[c].input
      /\ \A d \in Callers \ {c} : ledger_caller'[d] = ledger_caller[d]
  BY <1>1, <1>3, <1>4, GotoMoves
<1>6. /\ ledger_row'[k] = Ledger!Reservation(c)
      /\ \A j \in LedgerKeys \ {k} : ledger_row'[j] = ledger_row[j]
  BY <1>1, <1>2 DEF Ledger!BeginInsert, Ledger!TypeOK
<1>7. UNCHANGED <<performed, ledger_quarantined, restarts>>
  BY DEF Ledger!BeginInsert
<1>8. Ledger!TypeOK'
  <2>1. latch' \in [Ledgers -> BOOLEAN]
    <3>1. UNCHANGED latch \/ Ledger!MarkFailed(c)
      BY DEF Ledger!BeginInsert
    <3> QED
      BY <1>1, <3>1, MarkTyped DEF Ledger!TypeOK
  <2>2. Ledger!Reservation(c) \in Ledger!Row
    BY <1>1, <1>2 DEF Ledger!Reservation, Ledger!Row, Ledger!TypeOK
  <2>3. ledger_row' \in [LedgerKeys -> Ledger!Row]
    BY <1>1, <2>2 DEF Ledger!BeginInsert, Ledger!TypeOK
  <2> QED
    BY <1>1, <1>5, <1>7, <2>1, <2>3 DEF Ledger!TypeOK
<1>9. \A d \in Callers : Ledger!Holding(d) => ledger_caller[d].key # k
  BY <1>1 DEF Ledger!LedgerInv, Ledger!HolderOwnsRow, Ledger!RowOf
<1>10. ASSUME NEW d \in Callers, Ledger!Holding(d)', d # c
       PROVE  Ledger!Holding(d) /\ ledger_caller'[d] = ledger_caller[d]
  <2>1. ledger_caller'[d] = ledger_caller[d]
    BY <1>5, <1>10
  <2> QED
    BY <1>10, <2>1 DEF Ledger!Holding
<1>11. Ledger!HolderOwnsRow'
  <2> SUFFICES ASSUME NEW d \in Callers, Ledger!Holding(d)'
               PROVE  /\ Ledger!RowOf(d)'.status = "running"
                         /\ Ledger!RowOf(d)'.input = ledger_caller'[d].input
                      /\ Ledger!RowOf(d)'.epoch = restarts'
    BY DEF Ledger!HolderOwnsRow
  <2>1. CASE d = c
    BY <1>5, <1>6, <1>7, <2>1 DEF Ledger!RowOf, Ledger!Reservation
  <2>2. CASE d # c
    <3>1. Ledger!Holding(d) /\ ledger_caller'[d] = ledger_caller[d] /\ ledger_caller[d].key # k
      BY <1>9, <1>10, <2>2
    <3>2. ledger_caller[d].key \in LedgerKeys
      BY <1>1, <3>1, CallerTyped DEF Ledger!Holding
    <3> QED
      BY <1>6, <1>7, <3>1, <3>2 DEF Ledger!LedgerInv, Ledger!HolderOwnsRow, Ledger!RowOf
  <2> QED
    BY <2>1, <2>2
<1>12. Ledger!OneHolder'
  BY <1>5, <1>9, <1>10 DEF Ledger!LedgerInv, Ledger!OneHolder
<1>13. Ledger!NothingUnreserved' /\ Ledger!EffectAtMostOnce' /\ Ledger!CompletedMeansPerformed'
  BY <1>6, <1>7 DEF Ledger!LedgerInv, Ledger!NothingUnreserved, Ledger!EffectAtMostOnce,
     Ledger!CompletedMeansPerformed, Ledger!Reservation
<1>14. Ledger!HolderProgress'
  <2>1. performed[k] = <<>>
    BY <1>1, <1>2 DEF Ledger!LedgerInv, Ledger!NothingUnreserved
  <2> QED
    BY <1>5, <1>7, <2>1 DEF Ledger!LedgerInv, Ledger!HolderProgress, Ledger!At
<1>15. Ledger!Fenced'
  <2>1. ~ledger_quarantined
    BY <1>1 DEF Ledger!LedgerInv, Ledger!Fenced, Ledger!At
  <2>2. restarts \in Nat
    BY <1>1 DEF Ledger!TypeOK
  <2> QED
    BY <1>6, <1>7, <2>1, <2>2 DEF Ledger!LedgerInv, Ledger!Fenced, Ledger!Reservation
<1>16. Ledger!ReturnedMeansSealed'
  <2> SUFFICES ASSUME NEW d \in Callers, Ledger!At(d, "returned")'
               PROVE  /\ Ledger!RowOf(d)'.status = "completed"
                      /\ performed'[ledger_caller'[d].key] = <<ledger_caller'[d].input>>
    BY DEF Ledger!ReturnedMeansSealed
  <2>1. d # c /\ ledger_caller'[d] = ledger_caller[d] /\ Ledger!At(d, "returned")
    BY <1>5 DEF Ledger!At
  <2>2. ledger_row[ledger_caller[d].key].status = "completed"
        /\ performed[ledger_caller[d].key] = <<ledger_caller[d].input>>
    BY <2>1 DEF Ledger!LedgerInv, Ledger!ReturnedMeansSealed, Ledger!RowOf
  <2>3. ledger_caller[d].key # k /\ ledger_caller[d].key \in LedgerKeys
    BY <1>1, <2>1, <2>2, CallerTyped DEF Ledger!At
  <2> QED
    BY <1>6, <1>7, <2>1, <2>2, <2>3 DEF Ledger!RowOf
<1> QED
  BY <1>8, <1>11, <1>12, <1>13, <1>14, <1>15, <1>16 DEF Ledger!LedgerInv

\* The holder of a running row enters its effect, which nobody did before.
LEMMA EffectFacts ==
    ASSUME Ledger!LedgerInv, NEW c \in Callers, Ledger!At(c, "reserved"), Ledger!Perform(c)
           \/ UNCHANGED performed,
           UNCHANGED ledger_row
    PROVE  /\ performed' \in [LedgerKeys -> Seq(Inputs)]
           /\ Ledger!Perform(c) => performed'[ledger_caller[c].key] = <<ledger_caller[c].input>>
           /\ \A j \in LedgerKeys \ {ledger_caller[c].key} : performed'[j] = performed[j]
           /\ ledger_row[ledger_caller[c].key].status = "running"
           /\ Ledger!NothingUnreserved' /\ Ledger!EffectAtMostOnce'
              /\ Ledger!CompletedMeansPerformed'
<1> DEFINE k == ledger_caller[c].key
<1>1. Ledger!TypeOK /\ ledger_caller[c].pc # "idle" /\ performed[k] = <<>>
      /\ ledger_row[k].status = "running"
  BY DEF Ledger!LedgerInv, Ledger!At, Ledger!HolderProgress, Ledger!HolderOwnsRow, Ledger!Holding,
     Ledger!RowOf
<1>2. k \in LedgerKeys /\ ledger_caller[c].input \in Inputs
  BY <1>1, CallerTyped
<1>3. Ledger!Perform(c) => performed'[k] = <<ledger_caller[c].input>>
  BY <1>1, <1>2 DEF Ledger!Perform, Ledger!TypeOK
<1>4. \A j \in LedgerKeys \ {k} : performed'[j] = performed[j]
  BY <1>1, <1>2 DEF Ledger!Perform, Ledger!TypeOK
<1>5. performed'[k] = <<>> \/ performed'[k] = <<ledger_caller[c].input>>
  BY <1>1, <1>3
<1>6. performed' \in [LedgerKeys -> Seq(Inputs)]
  <2>1. Append(performed[k], ledger_caller[c].input) \in Seq(Inputs)
    BY <1>1, <1>2 DEF Ledger!TypeOK
  <2> QED
    BY <1>1, <1>2, <2>1 DEF Ledger!Perform, Ledger!TypeOK
<1>7. Ledger!NothingUnreserved'
  BY <1>1, <1>4 DEF Ledger!LedgerInv, Ledger!NothingUnreserved
<1>8. Ledger!EffectAtMostOnce'
  <2>1. Len(performed'[k]) =< 1
    <3>1. CASE performed'[k] = <<>>
      BY <3>1
    <3>2. CASE performed'[k] = <<ledger_caller[c].input>>
      BY <3>2
    <3> QED
      BY <1>5, <3>1, <3>2
  <2>2. ASSUME NEW j \in LedgerKeys, j # k PROVE Len(performed'[j]) =< 1
    BY <1>4, <2>2 DEF Ledger!LedgerInv, Ledger!EffectAtMostOnce
  <2> QED
    BY <2>1, <2>2 DEF Ledger!EffectAtMostOnce
<1>9. Ledger!CompletedMeansPerformed'
  BY <1>1, <1>4 DEF Ledger!LedgerInv, Ledger!CompletedMeansPerformed
<1> QED
  BY <1>1, <1>3, <1>4, <1>6, <1>7, <1>8, <1>9

\* The rest of the invariant when a holder leaves "reserved" with its effect.
LEMMA AfterEffect ==
    ASSUME Ledger!LedgerInv, NEW c \in Callers, Ledger!At(c, "reserved"), Ledger!Perform(c)
           \/ UNCHANGED performed,
           UNCHANGED <<ledger_row, ledger_quarantined, restarts>>,
           Ledger!TypeOK', \A d \in Callers \ {c} : ledger_caller'[d] = ledger_caller[d],
           ledger_caller'[c].key = ledger_caller[c].key, ledger_caller'[c].input
               = ledger_caller[c].input,
           ledger_caller'[c].pc \in {"sealing", "cancelled"},
           Ledger!At(c, "sealing")' => ledger_caller'[c].outcome \in {"completed", "failed"},
           Ledger!At(c, "sealing")' /\ ledger_caller'[c].outcome = "completed" => Ledger!Perform(c)
    PROVE  Ledger!LedgerInv'
<1> DEFINE k == ledger_caller[c].key
<1>1. Ledger!TypeOK /\ ledger_caller[c].pc # "idle" /\ Ledger!Holding(c)
  BY DEF Ledger!LedgerInv, Ledger!At, Ledger!Holding
<1>2. /\ Ledger!Perform(c) => performed'[k] = <<ledger_caller[c].input>>
      /\ \A j \in LedgerKeys \ {k} : performed'[j] = performed[j]
      /\ ledger_row[k].status = "running"
      /\ Ledger!NothingUnreserved' /\ Ledger!EffectAtMostOnce' /\ Ledger!CompletedMeansPerformed'
  BY EffectFacts
<1>3. ASSUME NEW d \in Callers, Ledger!Holding(d)'
      PROVE  Ledger!Holding(d) /\ ledger_caller'[d].key = ledger_caller[d].key
          /\ ledger_caller'[d].input = ledger_caller[d].input
  <2>1. CASE d = c
    BY <1>1, <2>1
  <2>2. CASE d # c
    <3>1. ledger_caller'[d] = ledger_caller[d]
      BY <2>2
    <3> QED
      BY <1>3, <3>1 DEF Ledger!Holding
  <2> QED
    BY <2>1, <2>2
<1>4. Ledger!HolderOwnsRow'
  BY <1>3 DEF Ledger!LedgerInv, Ledger!HolderOwnsRow, Ledger!RowOf
<1>5. Ledger!OneHolder'
  BY <1>3 DEF Ledger!LedgerInv, Ledger!OneHolder
<1>6. Ledger!HolderProgress'
  <2> DEFINE Good(d) ==
        /\ Ledger!At(d, "reserved") => performed[ledger_caller[d].key] = <<>>
        /\ ledger_caller[d].pc \in {"sealing", "writing"}
           => ledger_caller[d].outcome \in {"completed", "failed"}
        /\ ledger_caller[d].pc \in {"sealing", "writing"} /\ ledger_caller[d].outcome = "completed"
              => performed[ledger_caller[d].key] = <<ledger_caller[d].input>>
  <2>1. \A d \in Callers : Good(d)
    BY DEF Ledger!LedgerInv, Ledger!HolderProgress
  <2>2. Good(c)'
    BY <1>2 DEF Ledger!At
  <2>3. ASSUME NEW d \in Callers, d # c PROVE Good(d)'
    <3>1. ledger_caller'[d] = ledger_caller[d]
      BY <2>3
    <3>2. CASE Ledger!Holding(d)
      <4>1. ledger_caller[d].key # k
        BY <1>1, <2>3, <3>2 DEF Ledger!LedgerInv, Ledger!OneHolder
      <4>2. ledger_caller[d].key \in LedgerKeys
        BY <1>1, <3>2, CallerTyped DEF Ledger!Holding
      <4>3. performed'[ledger_caller'[d].key] = performed[ledger_caller[d].key]
        BY <1>2, <3>1, <4>1, <4>2
      <4> QED
        BY <2>1, <3>1, <4>3 DEF Ledger!At
    <3>3. CASE ~Ledger!Holding(d)
      BY <3>1, <3>3 DEF Ledger!Holding, Ledger!At
    <3> QED
      BY <3>2, <3>3
  <2> QED
    BY <2>2, <2>3 DEF Ledger!HolderProgress
<1>7. Ledger!Fenced'
  <2>1. ~ledger_quarantined
    BY DEF Ledger!LedgerInv, Ledger!Fenced, Ledger!At
  <2> QED
    BY <2>1 DEF Ledger!LedgerInv, Ledger!Fenced
<1>8. Ledger!ReturnedMeansSealed'
  <2> SUFFICES ASSUME NEW d \in Callers, Ledger!At(d, "returned")'
               PROVE  /\ Ledger!RowOf(d)'.status = "completed"
                      /\ performed'[ledger_caller'[d].key] = <<ledger_caller'[d].input>>
    BY DEF Ledger!ReturnedMeansSealed
  <2>1. d # c
    BY DEF Ledger!At
  <2>2. ledger_caller'[d] = ledger_caller[d]
    BY <2>1
  <2>3. Ledger!At(d, "returned")
    BY <2>2 DEF Ledger!At
  <2>4. ledger_row[ledger_caller[d].key].status = "completed"
        /\ performed[ledger_caller[d].key] = <<ledger_caller[d].input>>
    BY <2>3 DEF Ledger!LedgerInv, Ledger!ReturnedMeansSealed, Ledger!RowOf
  <2>5. ledger_caller[d].key # k /\ ledger_caller[d].key \in LedgerKeys
    BY <1>1, <1>2, <2>3, <2>4, CallerTyped DEF Ledger!At
  <2> QED
    BY <1>2, <2>2, <2>4, <2>5 DEF Ledger!RowOf
<1> QED
  BY <1>2, <1>4, <1>5, <1>6, <1>7, <1>8 DEF Ledger!LedgerInv

\* The operation ends by itself.
LEMMA OperateKeeps ==
    ASSUME Ledger!LedgerInv, NEW c \in Callers, Ledger!Operate(c)
    PROVE  Ledger!LedgerInv'
<1>1. Ledger!TypeOK /\ ledger_caller[c].pc # "idle" /\ Ledger!At(c, "reserved")
  BY DEF Ledger!LedgerInv, Ledger!Operate, Ledger!At
<1>2. ledger_caller[c] \in Ledger!Underway
  BY <1>1, CallerTyped
<1>3. PICK o \in {"completed", "failed"} :
        /\ ledger_caller' = [ledger_caller EXCEPT ![c].pc = "sealing", ![c].outcome = o]
        /\ Ledger!Perform(c) \/ (o = "failed" /\ UNCHANGED performed)
  BY Zenon DEF Ledger!Operate
<1>4. /\ ledger_caller'[c] = [ledger_caller[c] EXCEPT !.pc = "sealing", !.outcome = o]
      /\ \A d \in Callers \ {c} : ledger_caller'[d] = ledger_caller[d]
  BY <1>1, <1>3 DEF Ledger!TypeOK
<1>5. /\ ledger_caller'[c].key = ledger_caller[c].key
         /\ ledger_caller'[c].input = ledger_caller[c].input
      /\ ledger_caller'[c].pc = "sealing" /\ ledger_caller'[c].outcome = o
  BY <1>2, <1>4 DEF Ledger!Underway
<1>6. UNCHANGED <<ledger_row, latch, ledger_quarantined, restarts>>
  BY DEF Ledger!Operate
<1>7. Ledger!TypeOK'
  <2>1. ledger_caller' \in [Callers -> {Ledger!NoCall} \cup Ledger!Underway]
    BY <1>1, <1>2, <1>3 DEF Ledger!TypeOK, Ledger!Underway, Ledger!CallStates
  <2>2. performed' \in [LedgerKeys -> Seq(Inputs)]
    BY <1>1, <1>3, <1>6, EffectFacts
  <2> QED
    BY <1>1, <1>6, <2>1, <2>2 DEF Ledger!TypeOK
<1>8. Ledger!Perform(c) \/ UNCHANGED performed
  BY <1>3
<1>9. Ledger!At(c, "sealing")' /\ ledger_caller'[c].outcome = "completed" => Ledger!Perform(c)
  BY <1>3, <1>5
<1> QED
  BY <1>1, <1>4, <1>5, <1>6, <1>7, <1>8, <1>9, AfterEffect

\* The operation is cancelled.
LEMMA CancelOperationKeeps ==
    ASSUME Ledger!LedgerInv, NEW c \in Callers, Ledger!CancelOperation(c)
    PROVE  Ledger!LedgerInv'
<1>1. Ledger!TypeOK /\ ledger_caller[c].pc # "idle" /\ Ledger!At(c, "reserved")
      /\ Ledger!Goto(c, "cancelled")
  BY DEF Ledger!LedgerInv, Ledger!CancelOperation, Ledger!At
<1>2. "cancelled" \in Ledger!CallStates
  BY DEF Ledger!CallStates
<1>3. /\ ledger_caller' \in [Callers -> {Ledger!NoCall} \cup Ledger!Underway]
      /\ ledger_caller'[c].pc = "cancelled" /\ ledger_caller'[c].key = ledger_caller[c].key
      /\ ledger_caller'[c].input = ledger_caller[c].input
      /\ \A d \in Callers \ {c} : ledger_caller'[d] = ledger_caller[d]
  BY <1>1, <1>2, GotoMoves
<1>4. UNCHANGED <<ledger_row, latch, ledger_quarantined, restarts>>
      /\ (Ledger!Perform(c) \/ UNCHANGED performed)
  BY DEF Ledger!CancelOperation
<1>5. Ledger!TypeOK'
  <2>1. performed' \in [LedgerKeys -> Seq(Inputs)]
    BY <1>1, <1>4, EffectFacts
  <2> QED
    BY <1>1, <1>3, <1>4, <2>1 DEF Ledger!TypeOK
<1>6. ~Ledger!At(c, "sealing")'
  BY <1>3 DEF Ledger!At
<1> QED
  BY <1>1, <1>3, <1>4, <1>5, <1>6, AfterEffect

\* The seal is the holder's, and says what its operation did.
LEMMA SealKeeps ==
    ASSUME Ledger!LedgerInv, NEW c \in Callers, Ledger!Seal(c)
    PROVE  Ledger!LedgerInv'
<1> DEFINE k == ledger_caller[c].key
<1>1. Ledger!TypeOK /\ ledger_caller[c].pc # "idle" /\ Ledger!At(c, "writing") /\ Ledger!Holding(c)
  BY DEF Ledger!LedgerInv, Ledger!Seal, Ledger!At, Ledger!Holding
<1>2. k \in LedgerKeys /\ ledger_caller[c].input \in Inputs
      /\ ledger_caller[c].outcome \in {"completed", "failed"}
  BY <1>1, CallerTyped DEF Ledger!LedgerInv, Ledger!HolderProgress, Ledger!At
<1>3. /\ ledger_row[k].status = "running" /\ ledger_row[k].input = ledger_caller[c].input
         /\ ledger_row[k].epoch = restarts
      /\ ledger_row[k] \in Ledger!Row
  BY <1>1, <1>2 DEF Ledger!LedgerInv, Ledger!HolderOwnsRow, Ledger!RowOf, Ledger!TypeOK
<1>4. PICK p \in {"cancelled", "returned", "refused"} :
        Ledger!Goto(c, p) /\ (p = "returned" => ledger_caller[c].outcome = "completed")
  BY Zenon DEF Ledger!Seal
<1>5. p \in Ledger!CallStates
  BY DEF Ledger!CallStates
<1>6. /\ ledger_caller' \in [Callers -> {Ledger!NoCall} \cup Ledger!Underway]
      /\ ledger_caller'[c].pc = p /\ ledger_caller'[c].key = k
         /\ ledger_caller'[c].input = ledger_caller[c].input
      /\ \A d \in Callers \ {c} : ledger_caller'[d] = ledger_caller[d]
  BY <1>1, <1>4, <1>5, GotoMoves
<1>7. Ledger!Sealed(c)
      = [status |-> ledger_caller[c].outcome, input |-> ledger_caller[c].input, epoch |-> restarts]
  BY <1>3 DEF Ledger!Sealed, Ledger!RowOf, Ledger!Row
<1>8. ledger_row'[k] = Ledger!Sealed(c)
      /\ \A j \in LedgerKeys \ {k} : ledger_row'[j] = ledger_row[j]
  BY <1>1, <1>2 DEF Ledger!Seal, Ledger!TypeOK
<1>9. UNCHANGED <<performed, ledger_quarantined, restarts>>
  BY DEF Ledger!Seal
<1>10. ledger_caller[c].outcome = "completed" => performed[k] = <<ledger_caller[c].input>>
  BY <1>1 DEF Ledger!LedgerInv, Ledger!HolderProgress, Ledger!At
<1>11. Ledger!TypeOK'
  <2>1. latch' \in [Ledgers -> BOOLEAN]
    <3>1. UNCHANGED latch \/ Ledger!MarkFailed(c)
      BY DEF Ledger!Seal
    <3> QED
      BY <1>1, <3>1, MarkTyped DEF Ledger!TypeOK
  <2>2. Ledger!Sealed(c) \in Ledger!Row
    BY <1>1, <1>2, <1>7 DEF Ledger!Row, Ledger!TypeOK
  <2>3. ledger_row' \in [LedgerKeys -> Ledger!Row]
    BY <1>1, <2>2 DEF Ledger!Seal, Ledger!TypeOK
  <2> QED
    BY <1>1, <1>6, <1>9, <2>1, <2>3 DEF Ledger!TypeOK
<1>12. ASSUME NEW d \in Callers, Ledger!Holding(d)'
       PROVE  d # c /\ Ledger!Holding(d) /\ ledger_caller'[d] = ledger_caller[d]
           /\ ledger_caller[d].key \in LedgerKeys \ {k}
  <2>1. d # c
    BY <1>6, <1>12 DEF Ledger!Holding
  <2>2. ledger_caller'[d] = ledger_caller[d]
    BY <1>6, <2>1
  <2>3. Ledger!Holding(d)
    BY <1>12, <2>2 DEF Ledger!Holding
  <2>4. ledger_caller[d].key \in LedgerKeys
    BY <1>1, <2>3, CallerTyped DEF Ledger!Holding
  <2>5. ledger_caller[d].key # k
    BY <1>1, <2>1, <2>3 DEF Ledger!LedgerInv, Ledger!OneHolder
  <2> QED
    BY <2>1, <2>2, <2>3, <2>4, <2>5
<1>13. Ledger!HolderOwnsRow'
  BY <1>8, <1>9, <1>12 DEF Ledger!LedgerInv, Ledger!HolderOwnsRow, Ledger!RowOf
<1>14. Ledger!OneHolder'
  BY <1>12 DEF Ledger!LedgerInv, Ledger!OneHolder
<1>15. Ledger!NothingUnreserved' /\ Ledger!EffectAtMostOnce'
  BY <1>2, <1>7, <1>8, <1>9 DEF Ledger!LedgerInv, Ledger!NothingUnreserved,
     Ledger!EffectAtMostOnce
<1>16. Ledger!CompletedMeansPerformed'
  BY <1>7, <1>8, <1>9, <1>10 DEF Ledger!LedgerInv, Ledger!CompletedMeansPerformed
<1>17. Ledger!HolderProgress'
  <2> SUFFICES ASSUME NEW d \in Callers, Ledger!Holding(d)'
               PROVE  /\ Ledger!At(d, "reserved")' => performed'[ledger_caller'[d].key] = <<>>
                      /\ ledger_caller'[d].pc \in {"sealing", "writing"}
                            => ledger_caller'[d].outcome \in {"completed", "failed"}
                      /\ ledger_caller'[d].pc \in {"sealing", "writing"}
                         /\ ledger_caller'[d].outcome = "completed"
                            => performed'[ledger_caller'[d].key] = <<ledger_caller'[d].input>>
    BY DEF Ledger!HolderProgress, Ledger!Holding, Ledger!At
  <2>1. ledger_caller'[d] = ledger_caller[d]
    BY <1>12
  <2> QED
    BY <1>9, <2>1 DEF Ledger!LedgerInv, Ledger!HolderProgress, Ledger!At
<1>18. Ledger!Fenced'
  <2>1. ~ledger_quarantined
    BY <1>1 DEF Ledger!LedgerInv, Ledger!Fenced, Ledger!At
  <2>2. restarts \in Nat
    BY <1>1 DEF Ledger!TypeOK
  <2> QED
    BY <1>7, <1>8, <1>9, <2>1, <2>2 DEF Ledger!LedgerInv, Ledger!Fenced
<1>19. Ledger!ReturnedMeansSealed'
  <2> SUFFICES ASSUME NEW d \in Callers, Ledger!At(d, "returned")'
               PROVE  /\ Ledger!RowOf(d)'.status = "completed"
                      /\ performed'[ledger_caller'[d].key] = <<ledger_caller'[d].input>>
    BY DEF Ledger!ReturnedMeansSealed
  <2>1. CASE d = c
    BY <1>4, <1>6, <1>7, <1>8, <1>9, <1>10, <2>1 DEF Ledger!At, Ledger!RowOf
  <2>2. CASE d # c
    <3>1. ledger_caller'[d] = ledger_caller[d]
      BY <1>6, <2>2
    <3>2. Ledger!At(d, "returned")
      BY <3>1 DEF Ledger!At
    <3>3. ledger_row[ledger_caller[d].key].status = "completed"
          /\ performed[ledger_caller[d].key] = <<ledger_caller[d].input>>
      BY <3>2 DEF Ledger!LedgerInv, Ledger!ReturnedMeansSealed, Ledger!RowOf
    <3>4. ledger_caller[d].key # k /\ ledger_caller[d].key \in LedgerKeys
      BY <1>1, <1>3, <3>2, <3>3, CallerTyped DEF Ledger!At
    <3> QED
      BY <1>8, <1>9, <3>1, <3>3, <3>4 DEF Ledger!RowOf
  <2> QED
    BY <2>1, <2>2
<1> QED
  BY <1>11, <1>13, <1>14, <1>15, <1>16, <1>17, <1>18, <1>19 DEF Ledger!LedgerInv

\* A new process: every caller under way is gone, an unsealed row quarantines.
LEMMA RestartKeeps == ASSUME Ledger!LedgerInv, Ledger!Restart PROVE Ledger!LedgerInv'
<1> DEFINE Ended == {"idle", "returned", "refused", "cancelled"}
<1>1. Ledger!TypeOK
  BY DEF Ledger!LedgerInv
<1>2. UNCHANGED <<ledger_row, performed>> /\ restarts' = restarts + 1
      /\ ledger_quarantined' \in {Ledger!Unsealed, TRUE}
  BY DEF Ledger!Restart
<1>3. \A c \in Callers : ledger_caller'[c] = IF ledger_caller[c].pc \in Ended THEN ledger_caller[c]
                                      ELSE [ledger_caller[c] EXCEPT !.pc = "lost"]
  BY DEF Ledger!Restart
<1>4. \A c \in Callers : ledger_caller'[c] \in {Ledger!NoCall} \cup Ledger!Underway
                         /\ ledger_caller'[c].pc \in Ended \cup {"lost"}
  <2> SUFFICES ASSUME NEW c \in Callers
               PROVE  ledger_caller'[c] \in {Ledger!NoCall} \cup Ledger!Underway
                   /\ ledger_caller'[c].pc \in Ended \cup {"lost"}
    OBVIOUS
  <2>1. CASE ledger_caller[c].pc \in Ended
    BY <1>1, <1>3, <2>1 DEF Ledger!TypeOK
  <2>2. CASE ledger_caller[c].pc \notin Ended
    <3>1. ledger_caller[c] \in Ledger!Underway
      BY <1>1, <2>2, CallerTyped
    <3>2. ledger_caller'[c] = [ledger_caller[c] EXCEPT !.pc = "lost"]
      BY <1>3, <2>2
    <3> QED
      BY <3>1, <3>2 DEF Ledger!Underway, Ledger!CallStates
  <2> QED
    BY <2>1, <2>2
<1>5. Ledger!TypeOK'
  <2>1. ledger_caller' \in [Callers -> {Ledger!NoCall} \cup Ledger!Underway]
    <3>1. ledger_caller' = [c \in Callers |-> ledger_caller'[c]]
      BY DEF Ledger!Restart
    <3> QED
      BY <1>4, <3>1
  <2>2. latch' \in [Ledgers -> BOOLEAN]
    BY DEF Ledger!Restart
  <2>3. restarts' \in 0..LedgerCrashes
    BY <1>1, ComponentsAssumption DEF Ledger!LedgerBound, Ledger!Restart, Ledger!TypeOK
  <2>4. ledger_quarantined' \in BOOLEAN
    BY <1>2 DEF Ledger!Unsealed
  <2> QED
    BY <1>1, <1>2, <2>1, <2>2, <2>3, <2>4 DEF Ledger!TypeOK
<1>6. \A c \in Callers : ~Ledger!Holding(c)' /\ ~Ledger!At(c, "reserved")'
  BY <1>4 DEF Ledger!Holding, Ledger!At
<1>7. Ledger!HolderOwnsRow' /\ Ledger!OneHolder'
  BY <1>6 DEF Ledger!HolderOwnsRow, Ledger!OneHolder
<1>8. Ledger!HolderProgress'
  BY <1>6 DEF Ledger!HolderProgress, Ledger!Holding
<1>9. Ledger!NothingUnreserved' /\ Ledger!EffectAtMostOnce' /\ Ledger!CompletedMeansPerformed'
  BY <1>2 DEF Ledger!LedgerInv, Ledger!NothingUnreserved, Ledger!EffectAtMostOnce,
     Ledger!CompletedMeansPerformed
<1>10. Ledger!Fenced'
  <2>1. \A k \in LedgerKeys : ledger_row'[k].status # "none" => ledger_row'[k].epoch =< restarts'
    <3> SUFFICES ASSUME NEW k \in LedgerKeys, ledger_row[k].status # "none"
                 PROVE  ledger_row[k].epoch =< restarts + 1
      BY <1>2
    <3>1. ledger_row[k].epoch =< restarts /\ ledger_row[k].epoch \in Nat /\ restarts \in Nat
      BY <1>1 DEF Ledger!LedgerInv, Ledger!Fenced, Ledger!TypeOK, Ledger!Row
    <3> QED
      BY <3>1
  <2>2. \A k \in LedgerKeys : ledger_row'[k].status = "running" => ledger_quarantined'
    BY <1>2 DEF Ledger!Unsealed
  <2> QED
    BY <1>4, <2>1, <2>2 DEF Ledger!Fenced
<1>11. Ledger!ReturnedMeansSealed'
  <2> SUFFICES ASSUME NEW c \in Callers, Ledger!At(c, "returned")'
               PROVE  /\ Ledger!RowOf(c)'.status = "completed"
                      /\ performed'[ledger_caller'[c].key] = <<ledger_caller'[c].input>>
    BY DEF Ledger!ReturnedMeansSealed
  <2>1. CASE ledger_caller[c].pc \in Ended
    <3>1. ledger_caller'[c] = ledger_caller[c]
      BY <1>3, <2>1
    <3>2. Ledger!At(c, "returned")
      BY <3>1 DEF Ledger!At
    <3> QED
      BY <1>2, <3>1, <3>2 DEF Ledger!LedgerInv, Ledger!ReturnedMeansSealed, Ledger!RowOf
  <2>2. CASE ledger_caller[c].pc \notin Ended
    <3>1. ledger_caller[c] \in Ledger!Underway
      BY <1>1, <2>2, CallerTyped
    <3>2. ledger_caller'[c] = [ledger_caller[c] EXCEPT !.pc = "lost"]
      BY <1>3, <2>2
    <3> QED
      BY <3>1, <3>2 DEF Ledger!Underway, Ledger!At
  <2> QED
    BY <2>1, <2>2
<1> QED
  BY <1>5, <1>7, <1>8, <1>9, <1>10, <1>11 DEF Ledger!LedgerInv

\* Every step keeps the invariant.
LEMMA StepKeeps == Ledger!LedgerInv /\ [Ledger!Next]_(Ledger!vars) => Ledger!LedgerInv'
<1> SUFFICES ASSUME Ledger!LedgerInv, [Ledger!Next]_(Ledger!vars) PROVE Ledger!LedgerInv'
  OBVIOUS
<1>1. ASSUME NEW c \in Callers, Ledger!CallerStep(c) PROVE Ledger!LedgerInv'
  <2>1. CASE Ledger!BeginInsert(c)
    BY <2>1, InsertKeeps
  <2>2. CASE Ledger!CancelPhase(c)
    BY <2>2, CancelPhaseKeeps
  <2>3. CASE Ledger!Operate(c)
    BY <2>3, OperateKeeps
  <2>4. CASE Ledger!CancelOperation(c)
    BY <2>4, CancelOperationKeeps
  <2>5. CASE Ledger!Seal(c)
    BY <2>5, SealKeeps
  <2> QED
    BY <1>1, <2>1, <2>2, <2>3, <2>4, <2>5, ReadingKeeps DEF Ledger!CallerStep
<1>2. ASSUME NEW c \in Callers, NEW k \in LedgerKeys, NEW l \in Ledgers, NEW i \in Inputs,
             Ledger!Call(c, k, l, i)
      PROVE  Ledger!LedgerInv'
  BY <1>2, CallKeeps
<1>3. CASE Ledger!Restart
  BY <1>3, RestartKeeps
<1>4. CASE UNCHANGED Ledger!vars
  BY <1>4 DEF Ledger!vars, Ledger!LedgerInv, Ledger!TypeOK, Ledger!HolderOwnsRow,
     Ledger!OneHolder, Ledger!NothingUnreserved, Ledger!HolderProgress, Ledger!Fenced,
     Ledger!EffectAtMostOnce, Ledger!CompletedMeansPerformed, Ledger!ReturnedMeansSealed,
     Ledger!Holding, Ledger!At, Ledger!RowOf
<1> QED
  BY <1>1, <1>2, <1>3, <1>4 DEF Ledger!Next

\* A sealed row is never written again: only the holder of a running row seals,
\* and only a free row is inserted.
LEMMA SealedKept ==
    Ledger!LedgerInv /\ [Ledger!Next]_(Ledger!vars) =>
        [\A k \in LedgerKeys : ledger_row[k].status \in {"completed", "failed"}
            => ledger_row'[k] = ledger_row[k]]_(ledger_row)
<1> SUFFICES ASSUME Ledger!LedgerInv, [Ledger!Next]_(Ledger!vars), ledger_row' # ledger_row
             PROVE  \A k \in LedgerKeys : ledger_row[k].status \in {"completed", "failed"}
                 => ledger_row'[k] = ledger_row[k]
  OBVIOUS
<1>1. PICK c \in Callers : Ledger!BeginInsert(c) \/ Ledger!Seal(c)
  <2>1. ASSUME NEW c \in Callers, Ledger!CallerStep(c) PROVE Ledger!BeginInsert(c) \/ Ledger!Seal(c)
    BY <2>1 DEF Ledger!CallerStep, Ledger!BeginClosed, Ledger!BeginSealed, Ledger!BeginUnknown,
       Ledger!BeginFree, Ledger!PhaseFault, Ledger!CancelPhase, Ledger!Operate,
       Ledger!CancelOperation, Ledger!SealClosed, Ledger!SealOpen
  <2>2. ~Ledger!Restart /\ ~UNCHANGED Ledger!vars
    BY DEF Ledger!Restart, Ledger!vars
  <2>3. \A c \in Callers, k \in LedgerKeys, l \in Ledgers, i \in Inputs : ~Ledger!Call(c, k, l, i)
    BY DEF Ledger!Call
  <2> QED
    BY <2>1, <2>2, <2>3 DEF Ledger!Next
<1>2. ledger_row[ledger_caller[c].key].status \in {"none", "running"}
  BY <1>1 DEF Ledger!BeginInsert, Ledger!Seal, Ledger!LedgerInv, Ledger!HolderOwnsRow,
     Ledger!Holding, Ledger!At, Ledger!RowOf
<1>3. \A j \in LedgerKeys \ {ledger_caller[c].key} : ledger_row'[j] = ledger_row[j]
  BY <1>1 DEF Ledger!BeginInsert, Ledger!Seal, Ledger!LedgerInv, Ledger!TypeOK
<1> QED
  BY <1>2, <1>3

\* As long as a row of an earlier process is unsealed, no effect is entered.
LEMMA UnknownEntersNothing ==
    Ledger!LedgerInv /\ [Ledger!Next]_(Ledger!vars) =>
        [(\E k \in LedgerKeys : ledger_row[k].status = "running" /\ ledger_row[k].epoch < restarts)
             => performed' = performed]_(Ledger!vars)
<1> SUFFICES ASSUME Ledger!LedgerInv, Ledger!Next,
                    \E k \in LedgerKeys : ledger_row[k].status = "running"
                        /\ ledger_row[k].epoch < restarts
             PROVE  performed' = performed
  OBVIOUS
<1>1. \A c \in Callers : ~Ledger!At(c, "reserved")
  BY DEF Ledger!LedgerInv, Ledger!Fenced, Ledger!At
<1>2. ASSUME NEW c \in Callers, Ledger!CallerStep(c) PROVE performed' = performed
  BY <1>1, <1>2 DEF Ledger!CallerStep, Ledger!BeginClosed, Ledger!BeginSealed,
     Ledger!BeginUnknown, Ledger!BeginFree, Ledger!BeginInsert, Ledger!PhaseFault,
     Ledger!CancelPhase, Ledger!Operate, Ledger!CancelOperation, Ledger!SealClosed,
     Ledger!SealOpen, Ledger!Seal
<1>3. ASSUME NEW c \in Callers, NEW k \in LedgerKeys, NEW l \in Ledgers, NEW i \in Inputs,
             Ledger!Call(c, k, l, i)
      PROVE  performed' = performed
  BY <1>3 DEF Ledger!Call
<1>4. Ledger!Restart => performed' = performed
  BY DEF Ledger!Restart
<1> QED
  BY <1>2, <1>3, <1>4 DEF Ledger!Next

-----------------------------------------------------------------------------
(* The ledger in the sum *)

LEMMA LedgerMoves == [SumNext]_allVars => [Ledger!Next]_(Ledger!vars)
BY DEF SumNext, allVars, ledgerVars, Ledger!vars

\* LedgerInv is an invariant of the sum.
LEMMA LedgerInvariant == SumSpec => []Ledger!LedgerInv
<1>1. Ledger!LedgerBound
  BY ComponentsAssumption
<1>2. SumInit => Ledger!LedgerInv
  BY <1>1, InitLedger DEF SumInit
<1> QED BY <1>2, LedgerMoves, StepKeeps, PTL DEF SumSpec

\* Whatever races, fails, is cancelled or restarts, a tool call of execute_once
\* enters its effect at most once.
THEOREM EffectOnce == SumSpec => []EffectAtMostOnce
<1>1. Ledger!LedgerInv => EffectAtMostOnce
  BY DEF Ledger!LedgerInv, EffectAtMostOnce
<1> QED BY <1>1, LedgerInvariant, PTL

\* A completed row records an effect that took place with exactly its input; a result,
\* first hand or replayed, is sealed and is that of the caller's input; with the types.
THEOREM LedgerTruthful == SumSpec => []ResultsTrue
<1>1. Ledger!LedgerInv => ResultsTrue
  BY DEF Ledger!LedgerInv, Ledger!ResultsTrue, ResultsTrue
<1> QED BY <1>1, LedgerInvariant, PTL

\* A sealed row is never written again: only the holder of a running row seals,
\* and only a free row is inserted.
THEOREM SealStays == SumSpec => Ledger!SealIsFinal
BY LedgerInvariant, LedgerMoves, SealedKept, PTL DEF SumSpec, Ledger!SealIsFinal

\* As long as a row of an earlier process is unsealed, no effect is entered.
THEOREM UnknownFencesEffects == SumSpec => NoEffectPastUnknown
BY LedgerInvariant, LedgerMoves, UnknownEntersNothing, PTL
   DEF SumSpec, NoEffectPastUnknown, Ledger!NoEffectPastUnknown
=============================================================================
