------------------------------- MODULE MCTabs -------------------------------
(* Small instances of the two things that tabs and the server do together,    *)
(* Sessions and RemoteHub, which share no state here: a behaviour is one of    *)
(* either.  The promises of RemoteScreen are those of the hub.                *)
EXTENDS Sessions, RemoteScreen, TLC

CONSTANTS Armable, Streams, LockTTL, BeatEvery, MaxPushes, MaxHubActs, Acts

VARIABLES side, channels, queue, lock, open, armed, posts, hubActs

Hub == INSTANCE RemoteHub WITH Sessions <- Armable, MaxActs <- MaxHubActs,
                               tab <- armed, acts <- hubActs
hub == <<channels, queue, lock, stream, open, armed, posts, pushes, screen, hubActs>>

MCInit ==
    /\ Init /\ Hub!Init
    /\ side \in {"sessions", "hub"}
    /\ side = "sessions" => \A t, u \in Tabs : armed[t] = armed[u]

\* bound: no third act while a request of a page that is gone is in flight.
Budget == acts' + Cardinality(late') <= MaxActs

MCNext ==
    \/ side = "sessions" /\ Next /\ Budget /\ UNCHANGED <<side, hub>>
    \/ side = "hub" /\ Hub!Next /\ UNCHANGED <<side, vars>>

MCSpec == MCInit /\ [][MCNext]_<<side, vars, hub>>

\* Tabs and streams are interchangeable, and so are the sessions that tabs start on.
Symmetry == Permutations(Tabs) \cup Permutations(Streams) \cup Permutations(Armable)
=============================================================================
