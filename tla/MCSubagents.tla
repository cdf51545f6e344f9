----------------------------- MODULE MCSubagents -----------------------------
(* Small instances of Subagents for TLC. *)
EXTENDS Subagents, TLC
CONSTANTS c1, c2, c3
ThreeCallers == {c1, c2, c3}
=============================================================================
