--------------------------- MODULE MCRunLifecycle ---------------------------
(* Small instances of RunLifecycle for TLC. *)
EXTENDS RunLifecycle, TLC
CONSTANTS r1, r2, c1, c2, h1, h2
OneRun == {r1}
TwoRuns == {r1, r2}
None == {}
OneCanceller == {c1}
TwoCancellers == {c1, c2}
OneResumer == {h1}
TwoResumers == {h1, h2}
=============================================================================
