----------------------------- MODULE MCConnState -----------------------------
(* A small instance of ConnState: two servers that list different databases. *)
EXTENDS ConnState, TLC

CONSTANTS c1, c2, d1, d2, n1

MCLists == c1 :> {d1} @@ c2 :> {d1, d2}

\* One connection is saved already.
MCKnown == [n \in Names |-> IF n = n1 THEN c2 ELSE None]

Symmetry == Permutations(Sids) \cup Permutations(Reqs)
=============================================================================
