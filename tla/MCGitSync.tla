------------------------------ MODULE MCGitSync ------------------------------
(* Small instances of GitSync: "race", where two requests meet on one query,  *)
(* and one request at a time, in "sequence" with the longest histories of one  *)
(* query, in "pair" with shorter ones of a query and a dashboard.              *)
EXTENDS GitSync, TLC

VARIABLE mix

MCInit == Init /\ mix \in {"race", "sequence", "pair"}

\* bound: what one behaviour may use.
OneAtATime == Cardinality({t \in Tasks : task'[t].pc # "idle"}) <= 1

QueryOnly ==
    /\ \A t \in Tasks : task'[t].ent \notin Dashboards /\ task'[t].cur \notin Dashboards
    /\ \A w \in Workspaces : \A e \in Dashboards : db'[w][e] = None

MCNext ==
    /\ Next
    /\ mix = "race" => ops' <= 3 /\ QueryOnly
    /\ mix = "sequence" => edits' <= 2 /\ OneAtATime /\ QueryOnly
    /\ mix = "pair" => edits' <= 2 /\ OneAtATime /\ ops' <= 3
    /\ UNCHANGED mix

MCSpec == MCInit /\ [][MCNext]_<<vars, mix>>

\* Workspaces, contents and coroutines are interchangeable.
Symmetry == Permutations(Workspaces) \cup Permutations(Contents) \cup Permutations(Tasks)
=============================================================================
