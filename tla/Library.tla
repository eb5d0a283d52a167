------------------------------- MODULE Library -------------------------------
(***************************************************************************)
(* Workspaces and what they own: backend/queryview/workspaces.py,          *)
(* queries.py, dashboards.py and yamlio.py, with the routes of main.py and *)
(* the tools of mcp_server.py that resolve a workspace and then use it.    *)
(*                                                                         *)
(* SQLite starts a transaction at its first write: what a handler has read *)
(* before may have changed by then, so reading and writing are two steps   *)
(* wherever the read decides something the write does not check again. An  *)
(* update names its row by id, and a free id is given out again. The git   *)
(* operations themselves are in GitSync: here one has, or makes, a clone.  *)
(***************************************************************************)
EXTENDS Naturals, FiniteSets, FiniteSetsExt

CONSTANTS
    MaxWorkspaces, MaxRows,   \* bounds: ids that rows of the two kinds of tables have
    Names,                    \* names of workspaces
    Queries, Dashboards,      \* names of queries (a type with a name) and of dashboards
    Remotes,
    Sids,                     \* sessions
    Reqs,                     \* requests, each used at most once; r is also what r saves
    None,
    Absent,                   \* a field that the body of a request leaves out
    MaxAtOnce                 \* bound: requests in flight at a time

Ids == 1 .. MaxWorkspaces
Rows == 1 .. MaxRows
Maybe(S) == S \cup {None}

ASSUME LibraryAssumption ==
    /\ MaxWorkspaces \in Nat \ {0} /\ MaxRows \in Nat
    /\ MaxAtOnce \in Nat
    /\ {None, Absent} \cap (Names \cup Queries \cup Dashboards \cup Remotes \cup Reqs) = {}
    /\ None # Absent
    /\ Queries \cap Dashboards = {}

VARIABLES
    workspaces,   \* the table workspaces, by id
    rows,         \* the tables predefined_queries and dashboards, by id
    sessionWs,    \* the workspace that a session's row names
    clone,        \* the remote that the clone and the sync state of an id are of
    req,          \* req[r]: the local variables of request r
    stale         \* history: ids and names whose workspace changed while a request held them

vars == <<workspaces, rows, sessionWs, clone, req, stale>>
store == <<workspaces, rows, sessionWs, clone>>

Workspace == [name: Names, remote: Maybe(Remotes), autosave: BOOLEAN]
Entity == [ws: Ids, key: Queries \cup Dashboards, by: Maybe(Reqs), live: BOOLEAN]

Ops == {"save", "import", "push", "rename", "delete", "undelete", "purge",
        "git", "session", "create", "patch", "drop"}

Phases == {"session", "push", "resolve", "find", "write", "ensure", "choose",
           "create", "update", "after", "drop", "dropWrite", "forget", "ok", "failed"}

\* `id`, `ws`: the workspace as it was resolved; `row`, `live`: the row found; `moveTo`: a name
\* read to be written to a session; `touched`: history, someone else changed the row found.
Req == [op: Ops, name: Maybe(Names), key: Maybe(Queries \cup Dashboards),
        to: Maybe(Names \cup Queries \cup Dashboards), remote: Maybe(Remotes) \cup {Absent}, autosave: BOOLEAN, sid: Maybe(Sids),
        pc: Phases, id: Maybe(Ids), ws: Maybe(Workspace), row: Maybe(Rows \cup Ids), live: BOOLEAN,
        moveTo: Maybe(Names), touched: BOOLEAN]

ASSUME NoneAssumption == None \notin Rows \cup Ids \cup Workspace \cup Entity \cup Req

Blank == [op |-> "save", name |-> None, key |-> None, to |-> None, remote |-> None, autosave |-> FALSE, sid |-> None,
          pc |-> "resolve", id |-> None, ws |-> None, row |-> None, live |-> FALSE, moveTo |-> None, touched |-> FALSE]

Existing == {i \in Ids : workspaces[i] # None}
Named(n) == {i \in Existing : workspaces[i].name = n}
HasKey(i, k) == {x \in Rows : rows[x] # None /\ rows[x].ws = i /\ rows[x].key = k}
Owned(i) == {x \in Rows : rows[x] # None /\ rows[x].ws = i /\ rows[x].live}

\* Types, and the unique constraints of the tables.
TypeOK ==
    /\ workspaces \in [Ids -> Maybe(Workspace)]
    /\ rows \in [Rows -> Maybe(Entity)]
    /\ sessionWs \in [Sids -> Names]
    /\ clone \in [Ids -> Maybe(Remotes)]
    /\ req \in [Reqs -> Maybe(Req)]
    /\ stale \subseteq Ids \cup Names
    /\ \A n \in Names : Cardinality(Named(n)) <= 1
    /\ \A i \in Ids, k \in Queries \cup Dashboards : Cardinality(HasKey(i, k)) <= 1

\* One workspace, as the migration seeds it, or two, with a query or none.
Init ==
    /\ workspaces \in [Ids -> [name: Names, remote: Maybe(Remotes), autosave: {FALSE}] \cup {None}]
    /\ 1 \in Existing /\ Existing \subseteq {1, 2}
    /\ \A i, j \in Existing : i # j => workspaces[i].name # workspaces[j].name
    /\ \E first \in {None} \cup [ws: Existing, key: Queries, by: {None}, live: BOOLEAN] :
          rows = [x \in Rows |-> IF x = 1 THEN first ELSE None]
    /\ sessionWs \in [Sids -> {workspaces[i].name : i \in Existing}]
    /\ clone = [i \in Ids |-> None]
    /\ req = [r \in Reqs |-> None]
    /\ stale = {}

InFlight == {r \in Reqs : req[r] # None /\ req[r].pc \notin {"ok", "failed"}}

At(r, pc) == r \in InFlight /\ req[r].pc = pc

\* q goes on to pc; nothing remains of an answered request.
Moved(q, pc) == IF pc \in {"ok", "failed"} THEN [Blank EXCEPT !.pc = pc] ELSE [q EXCEPT !.pc = pc]

Goto(r, pc) == req' = [req EXCEPT ![r] = Moved(@, pc)]

\* A row that is inserted takes the id after the highest.
NextId(used) == 1 + Max(used \cup {0})

Held(o) == {req[o].id, req[o].moveTo} \cup (IF req[o].pc = "dropWrite" THEN {req[o].row} ELSE {})

\* Seeded bug: a session's row goes on naming what its workspace was called.
ChangeAlone(r, i, ws, n, m) ==
    /\ workspaces' = [workspaces EXCEPT ![i] = ws]
    /\ UNCHANGED <<sessionWs, stale>>

\* Workspace i, which need not be the one that r resolved, becomes ws; the sessions on workspace n are then on m.
Change(r, i, ws, n, m) ==
    LET old == workspaces[i].name
        changed == {i} \cup (IF ws # None /\ ws.name = old THEN {} ELSE {old})
    IN /\ workspaces' = [workspaces EXCEPT ![i] = ws]
       /\ sessionWs' = [s \in Sids |-> IF sessionWs[s] = n THEN m ELSE sessionWs[s]]
       /\ stale' = stale \cup (changed \cap UNION {Held(o) : o \in InFlight \ {r}})
                         \cup (IF i \in stale \/ i # req[r].id THEN changed ELSE {})

-----------------------------------------------------------------------------
(* A request comes in and resolves its workspace.                           *)

Comes(r, q) == req' = [req EXCEPT ![r] = q]

\* A person chooses a session's workspace from the list of those there are. Autosave is
\* turned on by a request that changes nothing else.
Arrive(r) ==
    /\ req[r] = None
    /\ Cardinality(InFlight) < MaxAtOnce
    /\ \/ \E n \in Maybe(Names), k \in Queries \cup Dashboards : Comes(r, [Blank EXCEPT !.name = n, !.key = k])
       \/ \E n \in Names, q \in Queries, op \in {"delete", "undelete", "purge"} :
             Comes(r, [Blank EXCEPT !.op = op, !.name = n, !.key = q])
       \/ \E n \in Names, q, p \in Queries :
             q # p /\ Comes(r, [Blank EXCEPT !.op = "rename", !.name = n, !.key = q, !.to = p])
       \/ \E n \in Names, q \in Queries, d \in Dashboards :
             Comes(r, [Blank EXCEPT !.op = "import", !.name = n, !.key = q, !.to = d])
       \/ \E s \in Sids, d \in Dashboards : Comes(r, [Blank EXCEPT !.op = "push", !.pc = "push", !.sid = s, !.key = d])
       \/ \E s \in Sids, n \in Names :
             Named(n) # {} /\ Comes(r, [Blank EXCEPT !.op = "session", !.pc = "session", !.sid = s, !.moveTo = n])
       \/ \E n \in Names, op \in {"git", "drop"} : Comes(r, [Blank EXCEPT !.op = op, !.name = n])
       \/ \E n \in Names, m \in Maybe(Remotes), a \in BOOLEAN :
             (a => m = None) /\ Comes(r, [Blank EXCEPT !.op = "create", !.pc = "create", !.name = n, !.remote = m, !.autosave = a])
       \/ \E n, p \in Names, m \in Maybe(Remotes) \cup {Absent}, a \in BOOLEAN :
             (a <=> m = Absent /\ n = p) /\ Comes(r, [Blank EXCEPT !.op = "patch", !.name = n, !.to = p, !.remote = m, !.autosave = a])
    /\ UNCHANGED <<store, stale>>

\* resolve, or fallback, which is the oldest: its id and settings are as of now.
Resolve(r) ==
    LET n == req[r].name
        found == IF n # None THEN Named(n) ELSE {i \in Existing : \A j \in Existing : i <= j}
        next == CASE req[r].op = "git" -> "ensure"
                  [] req[r].op = "push" -> "choose"
                  [] req[r].op = "patch" -> "update"
                  [] req[r].op = "drop" -> "drop"
                  [] OTHER -> "find"
    IN /\ At(r, "resolve")
       /\ IF found = {}
          THEN Goto(r, "failed")
          ELSE \E i \in found : req' = [req EXCEPT ![r] = Moved([@ EXCEPT !.id = i, !.ws = workspaces[i]], next)]
       /\ UNCHANGED <<store, stale>>

\* _push_dashboard: the session's row names the workspace; a push not delivered ends there.
Push(r) ==
    /\ At(r, "push")
    /\ \/ Goto(r, "failed")
       \/ req' = [req EXCEPT ![r] = Moved([@ EXCEPT !.name = sessionWs[req[r].sid]], "resolve")]
    /\ UNCHANGED <<store, stale>>

\* A pushed dashboard is a draft unless its workspace saves by itself.
Choose(r) ==
    /\ At(r, "choose")
    /\ Goto(r, IF req[r].ws.autosave THEN "find" ELSE "ok")
    /\ UNCHANGED <<store, stale>>

\* patch_session, for a person who goes to another workspace.
PatchSession(r) ==
    /\ At(r, "session")
    /\ sessionWs' = [sessionWs EXCEPT ![req[r].sid] = req[r].moveTo]
    /\ Goto(r, "ok")
    /\ UNCHANGED <<workspaces, rows, clone, stale>>

-----------------------------------------------------------------------------
(* Queries and dashboards.                                                  *)

\* Seeded bug: purge asks only that there is such a query.
RefusedLax(op, found, to) ==
    LET live == \E x \in found : rows[x].live IN
    CASE op \in {"save", "import", "push"} -> FALSE
      [] op = "rename" -> ~live \/ to # {}
      [] op = "delete" -> ~live
      [] op = "undelete" -> found = {} \/ live
      [] op = "purge" -> found = {}

\* _find, and what is refused: the state that each change needs.
Refused(op, found, to) ==
    LET live == \E x \in found : rows[x].live IN
    CASE op \in {"save", "import", "push"} -> FALSE
      [] op = "rename" -> ~live \/ to # {}
      [] op = "delete" -> ~live
      [] op \in {"undelete", "purge"} -> found = {} \/ live

Find(r) ==
    LET i == req[r].id
        found == HasKey(i, req[r].key)
        to == IF req[r].op = "rename" THEN HasKey(i, req[r].to) ELSE {}
    IN /\ At(r, "find")
       /\ IF Refused(req[r].op, found, to)
          THEN Goto(r, "failed")
          ELSE IF found = {} THEN req' = [req EXCEPT ![r] = Moved([@ EXCEPT !.row = None], "write")]
          ELSE \E x \in found :
                  req' = [req EXCEPT ![r] = Moved([@ EXCEPT !.row = x, !.live = rows[x].live], "write")]
       /\ UNCHANGED <<store, stale>>

\* Seeded bug: saving over a deleted query leaves it deleted.
UpdatedStillDeleted(r, x) ==
    CASE req[r].op \in {"save", "import", "push"} -> [rows[x] EXCEPT !.by = r]
      [] req[r].op = "rename" -> [rows[x] EXCEPT !.key = req[r].to]
      [] req[r].op = "delete" -> [rows[x] EXCEPT !.live = FALSE]
      [] req[r].op = "undelete" -> [rows[x] EXCEPT !.live = TRUE]
      [] req[r].op = "purge" -> None

\* What an update leaves of row x, found live or not: only the columns that changed are written.
Updated(r, x) ==
    CASE req[r].op \in {"save", "import", "push"} ->
            [rows[x] EXCEPT !.by = r, !.live = IF req[r].live THEN @ ELSE TRUE]
      [] req[r].op = "rename" -> [rows[x] EXCEPT !.key = req[r].to]
      [] req[r].op = "delete" -> [rows[x] EXCEPT !.live = FALSE]
      [] req[r].op = "undelete" -> [rows[x] EXCEPT !.live = TRUE]
      [] req[r].op = "purge" -> None

\* r goes on as q; those who had found row x have old news of it.
Wrote(r, x, q) ==
    req' = [o \in Reqs |-> CASE o = r -> q
                             [] At(o, "write") /\ o # r /\ req[o].row = x -> [req[o] EXCEPT !.touched = TRUE]
                             [] OTHER -> req[o]]

\* An import writes its queries, then, in a transaction of their own, its dashboards.
After(r) ==
    IF req[r].op = "import"
    THEN [req[r] EXCEPT !.op = "save", !.key = req[r].to, !.to = None, !.pc = "find", !.row = None,
                        !.live = FALSE, !.touched = FALSE]
    ELSE Moved(req[r], "ok")

\* The unique constraint fails the second of two that found no row.
Insert(r) ==
    LET i == req[r].id
        x == NextId({y \in Rows : rows[y] # None})
    IN /\ At(r, "write") /\ req[r].row = None
       /\ IF HasKey(i, req[r].key) # {}
          THEN Goto(r, "failed") /\ UNCHANGED rows
          ELSE /\ x \in Rows
               /\ rows' = [rows EXCEPT ![x] = [ws |-> i, key |-> req[r].key, by |-> r, live |-> TRUE]]
               /\ Wrote(r, x, After(r))
       /\ UNCHANGED <<workspaces, sessionWs, clone, stale>>

\* A row that is gone fails an update, but not a purge; so does a name that was taken meanwhile.
Update(r) ==
    LET x == req[r].row IN
    /\ At(r, "write") /\ x # None
    /\ IF \/ rows[x] = None /\ req[r].op # "purge"
          \/ req[r].op = "rename" /\ HasKey(rows[x].ws, req[r].to) # {}
       THEN Goto(r, "failed") /\ UNCHANGED rows
       ELSE rows' = [rows EXCEPT ![x] = Updated(r, x)] /\ Wrote(r, x, After(r))
    /\ UNCHANGED <<workspaces, sessionWs, clone, stale>>

-----------------------------------------------------------------------------
(* Git.                                                                     *)

\* A git operation starts by making the clone if there is none, of the remote resolved.
EnsureRepo(r) ==
    LET i == req[r].id IN
    /\ At(r, "ensure")
    /\ clone' = [clone EXCEPT ![i] = IF @ = None THEN req[r].ws.remote ELSE @]
    /\ Goto(r, IF req[r].ws.remote = None THEN "failed" ELSE "ok")
    /\ UNCHANGED <<workspaces, rows, sessionWs, stale>>

\* _sync_attached, the last step of a route that has given workspace n a remote.
Synced(r, n) == [Blank EXCEPT !.op = "git", !.name = n]

-----------------------------------------------------------------------------
(* Workspaces.                                                              *)

CreateWorkspace(r) ==
    LET i == NextId(Existing)
        n == req[r].name
        m == req[r].remote
    IN /\ At(r, "create")
       /\ IF Named(n) # {}
          THEN Goto(r, "failed") /\ UNCHANGED workspaces
          ELSE /\ i \in Ids
               /\ workspaces' = [workspaces EXCEPT ![i] = [name |-> n, remote |-> m, autosave |-> req[r].autosave]]
               /\ IF m = None THEN Goto(r, "ok") ELSE Comes(r, Synced(r, n))
       /\ UNCHANGED <<rows, sessionWs, clone, stale>>

\* update_workspace: settings, and a new name, with the sessions, in one transaction.
UpdateWorkspace(r) ==
    LET n == req[r].name
        p == req[r].to
    IN /\ At(r, "update")
       /\ IF Named(n) = {} \/ (p # n /\ Named(p) # {})
          THEN Goto(r, "failed") /\ UNCHANGED <<workspaces, sessionWs, stale>>
          ELSE /\ \E i \in Named(n) :
                     LET m == IF req[r].remote = Absent THEN workspaces[i].remote ELSE req[r].remote
                     IN Change(r, i, [name |-> p, remote |-> m, autosave |-> workspaces[i].autosave \/ req[r].autosave], n, p)
               /\ Goto(r, "after")
       /\ UNCHANGED <<rows, clone>>

\* Seeded bug: the clone is dropped only when there is no remote any more.
ForgetsIfGone(before, after) == after.remote = None

\* Does the clone no longer apply?
Forgets(before, after) == after.remote # before.remote

\* The route looks again what the name resolves to, and forgets the clone of another remote.
AfterUpdate(r) ==
    LET p == req[r].to IN
    /\ At(r, "after")
    /\ IF Named(p) = {}
       THEN Goto(r, "failed") /\ UNCHANGED clone
       ELSE \E j \in Named(p) :
               /\ clone' = [clone EXCEPT ![req[r].id] = IF Forgets(req[r].ws, workspaces[j]) THEN None ELSE @]
               /\ IF workspaces[j].remote # None /\ (Forgets(req[r].ws, workspaces[j]) \/ req[r].remote \in Remotes)
                  THEN Comes(r, Synced(r, p)) ELSE Goto(r, "ok")
    /\ UNCHANGED <<workspaces, rows, sessionWs, stale>>

\* delete_workspace, up to its first write: the row, what it owns, and where sessions will go.
DropRead(r) ==
    LET found == Named(req[r].name)
        others == Existing \ found
    IN /\ At(r, "drop")
       /\ IF found = {} \/ others = {} \/ \E i \in found : Owned(i) # {}
          THEN Goto(r, "failed")
          ELSE \E i \in found :
                  req' = [req EXCEPT ![r] = Moved([@ EXCEPT !.row = i, !.moveTo = workspaces[Min(others)].name],
                                                  "dropWrite")]
       /\ UNCHANGED <<store, stale>>

\* Seeded bug: the deleted queries of a workspace are left when it goes.
PurgedKept(i) == rows

\* Its deleted queries go with workspace i.
Purged(i) == [x \in Rows |-> IF rows[x] # None /\ rows[x].ws = i /\ ~rows[x].live THEN None ELSE rows[x]]

\* Seeded bug: what was counted before is not asked again.
StillEmptyUnasked(i) == workspaces[i] # None

StillEmpty(i) == workspaces[i] # None /\ Owned(i) = {}

\* One transaction, or none of it.
DropWrite(r) ==
    LET i == req[r].row IN
    /\ At(r, "dropWrite")
    /\ IF StillEmpty(i)
       THEN /\ Change(r, i, None, req[r].name, req[r].moveTo)
            /\ rows' = Purged(i)
            /\ req' = [o \in Reqs |-> CASE o = r -> Moved([req[r] EXCEPT !.moveTo = None], "forget")
                                        [] At(o, "write") /\ req[o].row # None /\ rows'[req[o].row] # rows[req[o].row] ->
                                              [req[o] EXCEPT !.touched = TRUE]
                                        [] OTHER -> req[o]]
       ELSE Goto(r, "failed") /\ UNCHANGED <<workspaces, rows, sessionWs, stale>>
    /\ UNCHANGED clone

\* gitsync.forget, of the id that the route resolved.
Forget(r) ==
    /\ At(r, "forget")
    /\ clone' = [clone EXCEPT ![req[r].id] = None]
    /\ Goto(r, "ok")
    /\ UNCHANGED <<workspaces, rows, sessionWs, stale>>

Next ==
    \E r \in Reqs :
       \/ Arrive(r) \/ Resolve(r) \/ Push(r) \/ Choose(r) \/ PatchSession(r) \/ Find(r) \/ Insert(r) \/ Update(r)
       \/ EnsureRepo(r) \/ CreateWorkspace(r) \/ UpdateWorkspace(r) \/ AfterUpdate(r)
       \/ DropRead(r) \/ DropWrite(r) \/ Forget(r)

Spec == Init /\ [][Next]_vars

-----------------------------------------------------------------------------
(* Properties.  Two requests that overlap on a workspace, one changing its  *)
(* row and the other holding what it resolved, are excused (`stale`).       *)

\* A workspace goes only while it owns nothing live, whatever was saved since its entities
\* were counted.
DropTakesOnlyEmpty == [][\A i \in Ids : workspaces[i] # None /\ workspaces'[i] = None => Owned(i) = {}]_vars

\* Every query and dashboard belongs to a workspace that exists: none waits, unseen, for the
\* next workspace that is given the id.
NothingOrphaned == \A x \in Rows : rows[x] # None => rows[x].ws \in Existing \cup stale

\* The tables, in one invariant: a name is one workspace's, a query of it has one row.
TablesOK == TypeOK /\ NothingOrphaned

\* Every session is on a workspace that exists, through renamings and deletions.
SessionsFollow == \A s \in Sids : Named(sessionWs[s]) # {} \/ sessionWs[s] \in stale

\* Once its route is through, the clone of a workspace, with what was agreed on in it, is of
\* the remote that the workspace has now, and an id that is given out again has none.
CloneIsOfRemote ==
    \A i \in Ids : clone[i] # None =>
       \/ i \in stale
       \/ \E r \in InFlight : req[r].id = i /\ req[r].pc \in {"after", "forget"}
       \/ workspaces[i] # None /\ workspaces[i].remote = clone[i]

\* What a save answers for is there, live, with what was saved, unless the row it found was
\* changed by someone else meanwhile.
SavedIsLive ==
    [][\A r \in Reqs :
          /\ At(r, "write") /\ req[r].op \in {"save", "import", "push"} /\ ~req[r].touched
          /\ req'[r].pc \in {"ok", "find"}
          => \E x \in Rows : rows'[x] = [ws |-> req[r].id, key |-> req[r].key, by |-> r, live |-> TRUE]]_vars

\* A live query or dashboard is never removed, unless it came back after a purge had found
\* it deleted.
LiveStays ==
    [][\A x \in Rows : rows[x] # None /\ rows[x].live /\ rows'[x] = None =>
          \E r \in InFlight : req[r].op = "purge" /\ req[r].row = x /\ req[r].touched]_vars

\* docs/workspace.md: "the last workspace can't be deleted".
LastWorkspaceStays == Existing # {}
=============================================================================
