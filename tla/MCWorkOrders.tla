---------------------------- MODULE MCWorkOrders ----------------------------
(* Two or three tasks and the plans a user may write with them.            *)
EXTENDS WorkOrders, TLC

CONSTANTS t1, t2

None == {}
Chain == (t1 :> None) @@ (t2 :> {t1})
Apart == (t1 :> None) @@ (t2 :> None)
Turned == (t1 :> {t2}) @@ (t2 :> None)
Single == (t1 :> None)
SmallPlans == {Chain, Apart, Single}
=============================================================================
