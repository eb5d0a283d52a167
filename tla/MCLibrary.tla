----------------------------- MODULE MCLibrary -----------------------------
(* Small instances of Library, one for each mix of operations. *)
EXTENDS Library, TLC

CONSTANT Mixes   \* bound: the sets of operations that meet in one behaviour

VARIABLE mix

MCMixes ==
    { {"save", "import", "rename", "delete", "undelete", "purge"},
      {"create", "patch", "drop", "git", "session"},
      {"save", "push", "delete", "create", "drop"} }

\* The first workspace may have a remote, and own the first query.
MCInit ==
    /\ Init /\ mix \in Mixes
    /\ 2 \in Existing => workspaces[2].remote = None
    /\ rows[1] # None => rows[1].ws = 1

MCNext ==
    /\ Next
    /\ \A r \in Reqs : req[r] = None /\ req'[r] # None => req'[r].op \in mix
    /\ UNCHANGED mix

MCSpec == MCInit /\ [][MCNext]_<<vars, mix>>

Symmetry == Permutations(Names) \cup Permutations(Reqs) \cup Permutations(Queries) \cup Permutations(Remotes)
=============================================================================
