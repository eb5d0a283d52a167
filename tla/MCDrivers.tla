------------------------------ MODULE MCDrivers ------------------------------
(* Small instances of Drivers and of Statements, which meet only in the order *)
(* of a script's statements: a behaviour is one of either.                    *)
EXTENDS Drivers

CONSTANTS Chunks, MaxChunks

VARIABLES side, text, typed

Text == INSTANCE Statements

MCScripts ==
    { <<"read">>, <<"write">>, <<"copy">>, <<"read", "bad">>, <<"write", "begin", "write", "read">>,
      <<"begin", "write", "begin", "commit", "write">> }

\* What decides where a statement ends, and one character of each other sort.
MCChunks ==
    { <<"'">>, <<"\"">>, <<"\\">>, <<"$", "$">>, <<"$", "a", "$">>, <<"$">>, <<"1">>, <<"-", "-">>,
      <<"/", "*">>, <<"*", "/">>, <<"/">>, <<";">>, <<"\n">>, <<"a">> }

MCInit ==
    /\ side \in {"drivers", "text"}
    /\ Init /\ Text!Init
    /\ side = "text" => driver = "sqlite"

MCNext ==
    \/ side = "drivers" /\ Next /\ UNCHANGED <<side, text, typed>>
    \/ side = "text" /\ Text!Type /\ UNCHANGED <<side, vars>>

MCSpec ==
    /\ MCInit /\ [][MCNext]_<<vars, side, text, typed>>
    /\ Fairness

\* The properties of Statements, for the behaviours that type.
SplitIsRight == side = "text" => Text!SplitIsRight
CursorRunsOne == side = "text" => Text!CursorRunsOne
=============================================================================
