----------------------------- MODULE MCConnLocks -----------------------------
(* A small instance of ConnLocks: all requests and no restart to come, or one  *)
(* request less and a restart. Both begin in states that ConnLocks reaches, by *)
(* a restart of a fresh server or by a query on no connection.                 *)
EXTENDS ConnLocks, TLC

\* A query that found no connection.
Nothing(s) == [op |-> "query", sid |-> s, name |-> None, pass |-> None, tok |-> None,
               pc |-> "done", seen |-> None, tries |-> 0, era |-> 0]

MCInit ==
    \/ Begin(NoRequest, MaxRestarts)
    \/ \E r \in Reqs, s \in Sids : Begin([NoRequest EXCEPT ![r] = Nothing(s)], 0)

MCSpec == MCInit /\ [][Next]_vars

Symmetry == Permutations(Sids) \cup Permutations(Reqs) \cup Permutations(Passphrases)
=============================================================================
