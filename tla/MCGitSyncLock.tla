---------------------------- MODULE MCGitSyncLock ----------------------------
(* A small instance of GitSync for the lock and for liveness: an empty remote, *)
(* and one on which every workspace already has a query in common.             *)
EXTENDS GitSync

\* One of them stored the query and then both synced: a reachable state.
SharedInit ==
    \E q \in Queries, c \in Contents :
        LET tree == [EmptyTree EXCEPT ![q] = [content |-> c, deleted |-> FALSE]] IN
        /\ log = <<tree>>
        /\ db = [w \in Workspaces |-> tree]
        /\ clone = [w \in Workspaces |->
                       [stage |-> "ready", origin |-> 1, base |-> 1, ahead |-> <<>>]]
        /\ agreed = [w \in Workspaces |-> tree]
        /\ conflicts = [w \in Workspaces |-> {}]
        /\ lock = [w \in Workspaces |-> None]
        /\ task = [t \in Tasks |-> Idle]
        /\ ops = 0 /\ edits = 1
        /\ known = [w \in Workspaces |-> [e \in Entities |-> IF e = q THEN {c} ELSE {}]]
        /\ merged = [w \in Workspaces |-> [e \in Entities |-> 1]]
        /\ purgedAt = [w \in Workspaces |-> [e \in Entities |-> 0]]

LockSpec == (Init \/ SharedInit) /\ [][Next]_vars /\ Fairness
=============================================================================
