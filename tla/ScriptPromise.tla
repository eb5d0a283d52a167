---------------------------- MODULE ScriptPromise ----------------------------
(***************************************************************************)
(* What docs/scripts.md promises of a run, whatever the driver: statements *)
(* take effect in order, a statement is reported as done once its effect   *)
(* is there, and of what was not reported at most the statement in         *)
(* progress has had one.                                                   *)
(***************************************************************************)
EXTENDS Naturals, Sequences

CONSTANT Runs

VARIABLES
    plan,     \* plan[r][n]: the writes that statement n of run r makes permanent
    said,     \* how many statements of r were reported as done
    over,     \* r reports nothing more
    stored    \* the writes of r that are permanent

vars == <<plan, said, over, stored>>

Init ==
    /\ plan = [r \in Runs |-> <<>>]
    /\ said = [r \in Runs |-> 0]
    /\ over = [r \in Runs |-> FALSE]
    /\ stored = [r \in Runs |-> {}]

Begin(r) ==
    /\ plan[r] = <<>>
    /\ plan' = [plan EXCEPT ![r] = plan'[r]]
    /\ UNCHANGED <<said, over, stored>>

\* The statement in progress takes effect, at once; after the end of r this may still happen.
Effect(r) ==
    /\ said[r] < Len(plan[r])
    /\ stored' = [stored EXCEPT ![r] = @ \cup plan[r][said[r] + 1]]
    /\ UNCHANGED <<plan, said, over>>

Say(r) ==
    /\ ~over[r]
    /\ said[r] < Len(plan[r])
    /\ plan[r][said[r] + 1] \subseteq stored[r]
    /\ said' = [said EXCEPT ![r] = @ + 1]
    /\ UNCHANGED <<plan, over, stored>>

End(R) ==
    /\ over' = [r \in Runs |-> over[r] \/ r \in R]
    /\ UNCHANGED <<plan, said, stored>>

Next ==
    \/ \E r \in Runs : Begin(r) \/ Effect(r) \/ Say(r)
    \/ \E R \in SUBSET Runs : End(R)

Spec == Init /\ [][Next]_vars
=============================================================================
