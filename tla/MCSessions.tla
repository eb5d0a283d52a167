------------------------------ MODULE MCSessions ------------------------------
(* A small instance of Sessions for liveness: a fresh server, and one on which *)
(* earlier tabs left a named session behind.                                   *)
EXTENDS Sessions

LeftBehind == CHOOSE s \in Ids \ {Agent} : TRUE

NamedInit ==
    /\ rows = [s \in Ids |->
                 IF s \in {Agent, LeftBehind}
                 THEN [by |-> None, seen |-> TTL + 1, idle |-> TTL + 1, named |-> s = LeftBehind]
                 ELSE None]
    /\ used = {Agent, LeftBehind}
    /\ deleting = {}
    /\ tab = [t \in Tabs |-> Blank(t, "unopened")]
    /\ late = {}
    /\ acts = 0

LiveSpec == (Init \/ NamedInit) /\ [][Next]_vars /\ Fairness
=============================================================================
