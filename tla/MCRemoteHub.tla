---------------------------- MODULE MCRemoteHub ----------------------------
(* Small instances of RemoteHub for TLC: streams are interchangeable, and   *)
(* so are tabs and sessions, since tabs start on any session.               *)
EXTENDS RemoteHub, TLC

Symmetry == Permutations(Streams) \cup Permutations(Tabs) \cup Permutations(Sessions)
=============================================================================
