---------------------------- MODULE RemoteScreen ----------------------------
(***************************************************************************)
(* What remote control promises of the screens: its pushes are numbered in *)
(* the order in which the server accepted them (remote.py), an SSE stream  *)
(* carries them (`_event_stream` in main.py) and a tab shows them          *)
(* (App.tsx).  RemoteHub says how.                                         *)
(***************************************************************************)
EXTENDS Naturals

VARIABLES
    stream,     \* stream[c]: a connection and the generator that serves it
    pushes,     \* history: the pushes answered "delivered", and by whom to be had
    screen      \* history: the pushes each tab has shown

\* Two streams may read one queue, and a stream may read a channel another registered:
\* still a push is shown at most once.
ShownOnce ==
    \A t, u \in DOMAIN screen : \A i \in DOMAIN screen[t], j \in DOMAIN screen[u] :
        <<t, i>> # <<u, j>> => screen[t][i] # screen[u][j]

\* A tab shows pushes in the order in which they were accepted.
InOrder ==
    \A t \in DOMAIN screen : \A i, j \in DOMAIN screen[t] : i < j => screen[t][i] < screen[t][j]

\* What tabs show, in one invariant.
ShownOnceInOrder == ShownOnce /\ InOrder

\* Arming is the gate: what was pushed before a stream was opened never comes out of it.
NothingFromBefore ==
    \A c \in DOMAIN stream : stream[c].msg # 0 => c \in pushes[stream[c].msg].by
=============================================================================
