------------------------------ MODULE ConnState ------------------------------
(***************************************************************************)
(* Which connection a session is on: backend/queryview/connect.py and the  *)
(* connection part of the rows of sessions.py.                             *)
(*                                                                         *)
(* A session's row names its connection and database; `_sessions` caches   *)
(* what was built from it, `_session_conns` holds connections that are     *)
(* only in memory.  A handler is cut at its awaits; every request is used  *)
(* once, so a _SessionState object goes by the request that built it.      *)
(***************************************************************************)
EXTENDS Naturals, FiniteSets

CONSTANTS
    Sids,         \* sessions
    Names,        \* connection names
    Configs,      \* driver configs
    Dbs,          \* databases
    Lists,        \* Lists[c]: the databases that the server of config c lists
    Known,        \* Known[n]: the config saved under n when the server starts
    Reqs,         \* requests, each used at most once
    None,
    MaxAtOnce,    \* bound: requests in flight at a time
    MaxRestarts   \* bound: restarts of the server

Maybe(S) == S \cup {None}

ASSUME ConnStateAssumption ==
    /\ None \notin Names /\ None \notin Configs /\ None \notin Dbs /\ None \notin Reqs
    /\ Sids \cap Names = {}
    /\ Lists \in [Configs -> SUBSET Dbs]
    /\ Known \in [Names -> Maybe(Configs)]
    /\ MaxAtOnce \in Nat /\ MaxRestarts \in Nat

VARIABLES
    saved,      \* the connections table: the config saved under a name
    own,        \* _session_conns: own[s][n]
    row,        \* row[s]: connection_name, database and last_visited of session s
    cache,      \* _sessions: cache[s] is the object that session s is on
    obj,        \* obj[r]: the _SessionState that request r has built
    req,        \* req[r]: the local variables of request r
    clash,      \* history: requests that may disturb session s, or name n, have overlapped
    restarts    \* bounded counter

vars == <<saved, own, row, cache, obj, req, clash, restarts>>
tables == <<saved, own, row>>
env == <<clash, restarts>>

Row == [conn: Maybe(Names), db: Maybe(Dbs), visited: [Names -> Maybe(Dbs)]]

Obj == [name: Names, cfg: Configs, db: Maybe(Dbs)]

Ops == {"run", "select", "open", "connect", "add", "agentAdd", "remove", "disconnect", "delete"}

Phases == {"ensure", "resolve", "visited", "check", "build", "save", "enter", "owner",
           "rowcheck", "leave", "pop", "clear", "setconn", "setdb", "running", "done"}

\* `db`: the database to select, or that a query runs on; `start`: the one to build on.
Req == [op: Ops, sid: Sids, pc: Phases, name: Maybe(Names), cfg: Maybe(Configs),
        db: Maybe(Dbs), start: Maybe(Dbs)]

ASSUME NoneAssumption == None \notin Obj \cup Req

\* Types; the cache holds only an object that a request has built.
TypeOK ==
    /\ saved \in [Names -> Maybe(Configs)]
    /\ own \in [Sids -> [Names -> Maybe(Configs)]]
    /\ row \in [Sids -> Row]
    /\ cache \in [Sids -> Maybe(Reqs)]
    /\ \A s \in Sids : cache[s] # None => obj[cache[s]] # None
    /\ obj \in [Reqs -> Maybe(Obj)]
    /\ req \in [Reqs -> Maybe(Req)]
    /\ clash \subseteq Sids \cup Names
    /\ restarts \in Nat

\* req[r] is None before the request and "done" after it.
Done(s) == [op |-> "run", sid |-> s, pc |-> "done", name |-> None, cfg |-> None,
            db |-> None, start |-> None]

\* The server starts with what was saved before, and sessions on no connection yet.
Init ==
    /\ saved = Known
    /\ own = [s \in Sids |-> [n \in Names |-> None]]
    /\ row = [s \in Sids |-> [conn |-> None, db |-> None, visited |-> [n \in Names |-> None]]]
    /\ cache = [s \in Sids |-> None]
    /\ obj = [r \in Reqs |-> None]
    /\ req = [r \in Reqs |-> None]
    /\ clash = {}
    /\ restarts = 0

InFlight(r) == req[r] # None /\ req[r].pc # "done"
At(r, pc) == req[r] # None /\ req[r].pc = pc
Sid(r) == req[r].sid
Name(r) == req[r].name

Go(r, pc) == req' = [req EXCEPT ![r].pc = pc]
Finish(r) == req' = [req EXCEPT ![r] = Done(Sid(r))]

-----------------------------------------------------------------------------
(* A request comes in.                                                      *)

FirstPhase(op) ==
    CASE op \in {"run", "select"} -> "ensure"
      [] op = "open" -> "resolve"
      [] op \in {"connect", "add", "agentAdd"} -> "check"
      [] op \in {"remove", "delete"} -> "owner"
      [] op = "disconnect" -> "leave"

\* The parameters that an operation has.
Params(op) ==
    CASE op \in {"run", "disconnect"} -> [name: {None}, cfg: {None}, db: {None}]
      [] op = "select" -> [name: {None}, cfg: {None}, db: Dbs]
      [] op = "open" -> [name: Names, cfg: {None}, db: Maybe(Dbs)]
      [] op \in {"remove", "delete"} -> [name: Names, cfg: {None}, db: {None}]
      [] op \in {"connect", "add", "agentAdd"} -> [name: Names, cfg: Configs, db: {None}]

Additions == {"connect", "add", "agentAdd"}

\* What a request p disturbs and is disturbed in by q: its session, if q is of the same
\* session (but for two queries) or either deletes; its name, if both add it.
Disturbed(p, q) ==
    {s \in {p.sid} : (q.sid = s /\ {p.op, q.op} # {"run"}) \/ "delete" \in {p.op, q.op}}
    \cup {n \in {p.name} : q.name = n /\ {p.op, q.op} \subseteq Additions}

Arrive(r, op, s) ==
    LET others == {req[q] : q \in {q \in Reqs : InFlight(q)}} IN
    /\ req[r] = None
    /\ Cardinality({q \in Reqs : InFlight(q)}) < MaxAtOnce
    /\ \E a \in Params(op) :
          LET p == [op |-> op, sid |-> s, pc |-> FirstPhase(op), name |-> a.name,
                    cfg |-> a.cfg, db |-> a.db, start |-> None] IN
          /\ req' = [req EXCEPT ![r] = p]
          /\ clash' = clash \cup UNION {Disturbed(p, q) \cup Disturbed(q, p) : q \in others}
    /\ UNCHANGED <<tables, cache, obj, restarts>>

-----------------------------------------------------------------------------
(* _ensure_session, and what queries and select_database do after it.       *)

\* _resolve: the session's own connection, else the saved one.
Resolved(s, n) == IF own[s][n] # None THEN own[s][n] ELSE saved[n]

\* _build_session: a database that the server does not list is dropped.
Built(n, c, start) ==
    [name |-> n, cfg |-> c, db |-> IF start \in Lists[c] THEN start ELSE None]

\* _gated_session with entry o of `objs`: a query runs on what the object says.
RunOn(r, o, objs) ==
    /\ obj' = objs
    /\ IF objs[o].db = None THEN Finish(r)
       ELSE req' = [req EXCEPT ![r].pc = "running", ![r].name = objs[o].name,
                               ![r].cfg = objs[o].cfg, ![r].db = objs[o].db]

\* Seeded bug: only the row is changed.
SelectOnRow(r, o, objs) ==
    /\ obj' = objs
    /\ IF req[r].db \in Lists[objs[o].cfg] THEN Go(r, "setdb") ELSE Finish(r)

\* select_database: the object changes at once, the row after an await.
SelectOn(r, o, objs) ==
    IF req[r].db \in Lists[objs[o].cfg]
    THEN obj' = [objs EXCEPT ![o].db = req[r].db] /\ Go(r, "setdb")
    ELSE obj' = objs /\ Finish(r)

\* _unlocked_session: the entry there is once _ensure_session has returned, or none.
Gate(r, entries, objs) ==
    LET o == entries[Sid(r)] IN
    /\ cache' = entries
    /\ \/ o = None /\ obj' = objs /\ Finish(r)
       \/ o # None /\ req[r].op = "run" /\ RunOn(r, o, objs)
       \/ o # None /\ req[r].op = "select" /\ SelectOn(r, o, objs)

Ensure(r) ==
    LET s == Sid(r) IN
    /\ At(r, "ensure")
    /\ \/ /\ cache[s] # None \/ row[s].conn = None
          /\ Gate(r, cache, obj)
       \/ /\ cache[s] = None /\ row[s].conn # None
          /\ req' = [req EXCEPT ![r].pc = "resolve", ![r].name = row[s].conn, ![r].start = row[s].db]
          /\ UNCHANGED <<cache, obj>>
    /\ UNCHANGED <<tables, env>>

Resolve(r) ==
    LET c == Resolved(Sid(r), Name(r)) IN
    /\ At(r, "resolve")
    /\ \/ /\ c # None
          /\ req' = [req EXCEPT ![r].pc = IF req[r].op = "open" THEN "visited" ELSE "build",
                                ![r].cfg = c]
          /\ UNCHANGED <<cache, obj>>
       \/ /\ c = None /\ req[r].op = "open"
          /\ Finish(r)
          /\ UNCHANGED <<cache, obj>>
       \/ /\ c = None /\ req[r].op # "open"
          /\ Gate(r, cache, obj)
    /\ UNCHANGED <<tables, env>>

\* open_saved: the database asked for, else the one that the session last visited there.
Visited(r) ==
    /\ At(r, "visited")
    /\ req' = [req EXCEPT ![r].pc = "build",
                          ![r].start = IF req[r].db # None THEN req[r].db
                                       ELSE row[Sid(r)].visited[Name(r)]]
    /\ UNCHANGED <<tables, cache, obj, env>>

-----------------------------------------------------------------------------
(* connect_new and add_session_connection: the name must be free.           *)

TakenBySession(n) == \E s \in Sids : own[s][n] # None

\* connect_new re-saves a saved name; a session connection needs a new one.
Check(r) ==
    /\ At(r, "check")
    /\ IF TakenBySession(Name(r)) \/ (req[r].op # "connect" /\ saved[Name(r)] # None)
       THEN Finish(r) ELSE Go(r, "build")
    /\ UNCHANGED <<tables, cache, obj, env>>

-----------------------------------------------------------------------------
(* _build_session lists the databases; then the object goes where it is for. *)

BuildOk(r) ==
    LET s == Sid(r)
        objs == [obj EXCEPT ![r] = Built(Name(r), req[r].cfg, req[r].start)]
        entries == [cache EXCEPT ![s] = r]
        owned == [own EXCEPT ![s][Name(r)] = req[r].cfg] IN
    /\ At(r, "build")
    /\ \/ /\ req[r].op \in {"run", "select"}
          /\ Gate(r, entries, objs)
          /\ UNCHANGED own
       \/ /\ req[r].op = "open" /\ req[r].db \in {None, objs[r].db}
          /\ obj' = objs /\ cache' = entries /\ Go(r, "setconn")
          /\ UNCHANGED own
       \/ /\ req[r].op = "open" /\ req[r].db \notin {None, objs[r].db}
          /\ Finish(r)
          /\ UNCHANGED <<own, cache, obj>>
       \/ /\ req[r].op = "connect"
          /\ obj' = objs /\ Go(r, "save")
          /\ UNCHANGED <<own, cache>>
       \/ /\ req[r].op = "add"
          /\ own' = owned /\ obj' = objs /\ cache' = entries /\ Go(r, "setconn")
       \/ /\ req[r].op = "agentAdd"
          /\ own' = owned /\ Finish(r)
          /\ UNCHANGED <<cache, obj>>
    /\ UNCHANGED <<saved, row, env>>

\* The server cannot be reached.
BuildFails(r) ==
    /\ At(r, "build")
    /\ \/ req[r].op \in {"run", "select"} /\ Gate(r, cache, obj)
       \/ req[r].op \notin {"run", "select"} /\ Finish(r) /\ UNCHANGED <<cache, obj>>
    /\ UNCHANGED <<tables, env>>

\* connect_new: saved first, then the session is on it.
SaveConnection(r) ==
    /\ At(r, "save")
    /\ saved' = [saved EXCEPT ![Name(r)] = req[r].cfg]
    /\ Go(r, "enter")
    /\ UNCHANGED <<own, row, cache, obj, env>>

Enter(r) ==
    /\ At(r, "enter")
    /\ cache' = [cache EXCEPT ![Sid(r)] = r]
    /\ Go(r, "setconn")
    /\ UNCHANGED <<tables, obj, env>>

\* set_connection clears the database.  What follows: select_database of the one that
\* open_saved was asked for, else set_database of the object's, if it has one.
SetConnection(r) ==
    LET db == IF Name(r) = None THEN None ELSE obj[r].db IN
    /\ At(r, "setconn")
    /\ row' = [row EXCEPT ![Sid(r)].conn = Name(r), ![Sid(r)].db = None]
    /\ IF db = None THEN Finish(r)
       ELSE IF req[r].op = "open" /\ req[r].db # None
       THEN req' = [req EXCEPT ![r].op = "select", ![r].pc = "ensure"]
       ELSE req' = [req EXCEPT ![r].pc = "setdb", ![r].db = db]
    /\ UNCHANGED <<saved, own, cache, obj, clash, restarts>>

\* set_database: also the connection's last visited one.
SetDatabase(r) ==
    LET s == Sid(r)  d == req[r].db  n == row[s].conn IN
    /\ At(r, "setdb")
    /\ row' = [row EXCEPT ![s].db = d, ![s].visited = IF n = None THEN @ ELSE [@ EXCEPT ![n] = d]]
    /\ Finish(r)
    /\ UNCHANGED <<saved, own, cache, obj, env>>

\* A query's rows come back.
Reply(r) ==
    /\ At(r, "running")
    /\ Finish(r)
    /\ UNCHANGED <<tables, cache, obj, env>>

-----------------------------------------------------------------------------
(* disconnect, remove_session_connection, delete_connection.                *)

Leave(r) ==
    /\ At(r, "leave")
    /\ cache' = [cache EXCEPT ![Sid(r)] = None]
    /\ Go(r, "setconn")
    /\ UNCHANGED <<tables, obj, env>>

\* A session's own connection is removed from memory, a saved one from the table.
Remove(r) ==
    LET s == Sid(r)  n == Name(r) IN
    /\ At(r, "owner")
    /\ \/ /\ own[s][n] # None
          /\ own' = [own EXCEPT ![s][n] = None]
          /\ Go(r, "rowcheck")
          /\ UNCHANGED saved
       \/ /\ own[s][n] = None /\ req[r].op = "delete" /\ saved[n] # None
          /\ saved' = [saved EXCEPT ![n] = None]
          /\ Go(r, "pop")
          /\ UNCHANGED own
       \/ /\ own[s][n] = None /\ (req[r].op = "remove" \/ saved[n] = None)
          /\ Finish(r)
          /\ UNCHANGED <<saved, own>>
    /\ UNCHANGED <<row, cache, obj, env>>

\* The row decides whether the session was on it; the entry may have been evicted.
RowCheck(r) ==
    /\ At(r, "rowcheck")
    /\ \/ /\ row[Sid(r)].conn = Name(r)
          /\ cache' = [cache EXCEPT ![Sid(r)] = None]
          /\ req' = [req EXCEPT ![r].pc = "setconn", ![r].name = None]
       \/ row[Sid(r)].conn # Name(r) /\ Finish(r) /\ UNCHANGED cache
    /\ UNCHANGED <<tables, obj, env>>

Pop(r) ==
    /\ At(r, "pop")
    /\ cache' = [s \in Sids |-> IF cache[s] # None /\ obj[cache[s]].name = Name(r)
                                THEN None ELSE cache[s]]
    /\ Go(r, "clear")
    /\ UNCHANGED <<tables, obj, env>>

\* Seeded bug: the sessions of other tabs stay on the deleted connection.
ClearMine(r) ==
    /\ At(r, "clear")
    /\ row' = [row EXCEPT ![Sid(r)] = [conn |-> IF @.conn = Name(r) THEN None ELSE @.conn,
                                       db |-> IF @.conn = Name(r) THEN None ELSE @.db,
                                       visited |-> [@.visited EXCEPT ![Name(r)] = None]]]
    /\ Finish(r)
    /\ UNCHANGED <<saved, own, cache, obj, env>>

\* clear_connection: every session on it, and where any session last was on it.
Clear(r) ==
    /\ At(r, "clear")
    /\ row' = [s \in Sids |->
                 [conn |-> IF row[s].conn = Name(r) THEN None ELSE row[s].conn,
                  db |-> IF row[s].conn = Name(r) THEN None ELSE row[s].db,
                  visited |-> [row[s].visited EXCEPT ![Name(r)] = None]]]
    /\ Finish(r)
    /\ UNCHANGED <<saved, own, cache, obj, env>>

-----------------------------------------------------------------------------

\* The sessions of others fill the cache: this one is the least recently used.
Evict(s) ==
    /\ cache[s] # None
    /\ cache' = [cache EXCEPT ![s] = None]
    /\ UNCHANGED <<tables, obj, req, env>>

\* A restart forgets what is in memory and the requests under way.
Restart ==
    /\ restarts < MaxRestarts
    /\ restarts' = restarts + 1
    /\ own' = [s \in Sids |-> [n \in Names |-> None]]
    /\ cache' = [s \in Sids |-> None]
    /\ req' = [r \in Reqs |-> IF InFlight(r) THEN Done(Sid(r)) ELSE req[r]]
    /\ UNCHANGED <<saved, row, obj, clash>>

Next ==
    \/ \E r \in Reqs :
          \/ \E op \in Ops, s \in Sids : Arrive(r, op, s)
          \/ Ensure(r) \/ Resolve(r) \/ Visited(r) \/ Check(r) \/ BuildOk(r) \/ BuildFails(r)
          \/ SaveConnection(r) \/ Enter(r) \/ SetConnection(r) \/ SetDatabase(r) \/ Reply(r)
          \/ Leave(r) \/ Remove(r) \/ RowCheck(r) \/ Pop(r) \/ Clear(r)
    \/ \E s \in Sids : Evict(s)
    \/ Restart

Spec == Init /\ [][Next]_vars

-----------------------------------------------------------------------------
(* Properties.                                                              *)

\* No request of the session is under way, and no deletion.
Settled(s) == \A r \in Reqs : InFlight(r) => Sid(r) # s /\ req[r].op # "delete"

\* _ensure_session's "The row is the durable truth; `_sessions` is only a cache": over
\* failures, evictions, restarts and the requests of other sessions, what is cached is
\* what the row says, for a session whose own requests and whose deletions never overlapped.
CacheAgrees ==
    \A s \in Sids \ clash : Settled(s) /\ cache[s] # None =>
       LET o == obj[cache[s]] IN
       /\ o.name = row[s].conn
       /\ o.db = IF row[s].db \in Lists[o.cfg] THEN row[s].db ELSE None

\* delete_connection's "Every session on it is disconnected": until a restart, no such
\* session goes on naming a connection deleted or removed, for a later one to take up.
NoRowDangles ==
    restarts = 0 =>
       \A s \in Sids \ clash : Settled(s) /\ row[s].conn # None => Resolved(s, row[s].conn) # None

\* add_session_connection's "a name means one thing": one connection, saved or of one
\* session, unless two additions of the name overlapped.
NamesUnique ==
    \A n \in Names \ clash :
       Cardinality({s \in Sids : own[s][n] # None}) + (IF saved[n] = None THEN 0 ELSE 1) <= 1

\* What a name in a row means, in one invariant: the one connection that it named.
NamesOK == TypeOK /\ NoRowDangles /\ NamesUnique
=============================================================================
