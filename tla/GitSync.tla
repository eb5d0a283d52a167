------------------------------- MODULE GitSync -------------------------------
(***************************************************************************)
(* Git sync between the saved entities of several workspaces and the one   *)
(* remote repository they share (backend/queryview/gitsync.py), together   *)
(* with the row edits of queries.py and dashboards.py that run beside it.  *)
(*                                                                         *)
(* A git operation is a coroutine: it holds its workspace's lock from the  *)
(* fetch to its last use of the clone, but every await lets another        *)
(* coroutine run, and the row edits take no lock at all.  Each action is   *)
(* the code between two awaits at which another actor can matter.          *)
(*                                                                         *)
(* A row of the database and a file of the repository hold the same thing, *)
(* a Copy: a content and whether it is deleted (a query's `.yaml` or its   *)
(* `.deleted` marker).  Git objects are named by what they hold, so a Copy *)
(* is also the object id that the sync state records as agreed.            *)
(***************************************************************************)
EXTENDS Naturals, Sequences, FiniteSets

CONSTANTS
    Workspaces,    \* workspaces attached to the remote, each its own database rows
    Queries,       \* (connection type, name) of the predefined queries
    Dashboards,    \* names of the dashboards
    Contents,      \* what a query or a dashboard can hold
    Tasks,         \* coroutines that can serve git requests
    None,          \* no row, no file, no holder
    MaxPerWs,      \* bound: git requests of one workspace in flight at once
    MaxOps,        \* bound: git requests started
    MaxEdits       \* bound: row edits made by users and agents

Entities == Queries \cup Dashboards

ASSUME GitSyncAssumption ==
    /\ Queries \cap Dashboards = {}
    /\ MaxPerWs \in Nat \ {0} /\ MaxOps \in Nat /\ MaxEdits \in Nat
    /\ None \notin [content: Contents, deleted: BOOLEAN]
    /\ None \notin Tasks /\ None \notin Workspaces /\ None \notin Entities

Copy == [content: Contents, deleted: BOOLEAN]
Maybe(S) == S \cup {None}

\* A commit's tree: the copy of each entity, or None where it has no file.
Tree == [Entities -> Maybe(Copy)]
EmptyTree == [e \in Entities |-> None]

VARIABLES
    log,        \* the remote branch: its trees, oldest first; <<>> has no branch
    db,         \* db[w][e]: the row of entity e in workspace w, or None
    clone,      \* clone[w]: the workspace's clone on disk
    agreed,     \* agreed[w][e]: {id}.sync.json "agreed"
    conflicts,  \* conflicts[w]: {id}.sync.json "conflicts"
    lock,       \* lock[w]: the task holding the workspace's asyncio.Lock
    task,       \* task[t]: what the coroutine t is doing
    ops, edits, \* bounded counters
    known,      \* history: contents that w held, or settled by a deliberate act
    merged,     \* history: the commit whose copy of e w last merged, or purged
    purgedAt    \* history: the commit in which w purged the marker of e

sync == <<agreed, conflicts>>
history == <<known, merged, purgedAt>>
vars == <<log, db, clone, sync, lock, task, ops, edits, history>>

-----------------------------------------------------------------------------
(* The clone: `stage` says how much of _ensure_repo has been done, `origin` *)
(* is the commit of origin/<branch>, `base` and `ahead` are the pushed and  *)
(* the unpushed part of the local branch.                                   *)
Clone == [stage: {"none", "bare", "attached", "ready"},
          origin: Nat, base: Nat, ahead: Seq(Tree)]

NoClone == [stage |-> "none", origin |-> 0, base |-> 0, ahead |-> <<>>]

\* What commit n of the remote holds; the branch starts from nothing.
At(n) == IF n = 0 THEN EmptyTree ELSE log[n]

\* The tree of the clone's HEAD, which is also its working tree.
HeadTree(c) == IF c.ahead = <<>> THEN At(c.base) ELSE c.ahead[Len(c.ahead)]

\* Where a coroutine stands: waiting for the lock, holding it, or after it.
Waiting == {"lock", "relock"}
Holding == {"ensure", "attach", "config", "fetch", "merge", "import", "flip",
            "load", "push", "agree", "mark", "read", "settle"}
Phases == {"idle", "purgeRow", "write"} \cup Waiting \cup Holding

Task == [op: {"none", "sync", "store", "purge", "restore"}, ws: Maybe(Workspaces),
         ent: Maybe(Entities), pc: Phases, attempt: 1..2, at: Nat, copy: Maybe(Copy),
         todo: SUBSET Entities, cur: Maybe(Entities),
         agr: [Entities -> Maybe(Copy)], conf: SUBSET Entities]

Request(op, w, e, pc) ==
    [op |-> op, ws |-> w, ent |-> e, pc |-> pc, attempt |-> 1, at |-> 0, copy |-> None,
     todo |-> {}, cur |-> None, agr |-> EmptyTree, conf |-> {}]

Idle == Request("none", None, None, "idle")

TypeOK ==
    /\ log \in Seq(Tree)
    /\ db \in [Workspaces -> Tree]
    /\ clone \in [Workspaces -> Clone]
    /\ agreed \in [Workspaces -> Tree]
    /\ conflicts \in [Workspaces -> SUBSET Entities]
    /\ lock \in [Workspaces -> Maybe(Tasks)]
    /\ task \in [Tasks -> Task]
    /\ ops \in Nat /\ edits \in Nat
    /\ known \in [Workspaces -> [Entities -> SUBSET Contents]]
    /\ merged \in [Workspaces -> [Entities -> Nat]]
    /\ purgedAt \in [Workspaces -> [Entities -> Nat]]

Init ==
    /\ log = <<>>
    /\ db = [w \in Workspaces |-> EmptyTree]
    /\ clone = [w \in Workspaces |-> NoClone]
    /\ agreed = [w \in Workspaces |-> EmptyTree]
    /\ conflicts = [w \in Workspaces |-> {}]
    /\ lock = [w \in Workspaces |-> None]
    /\ task = [t \in Tasks |-> Idle]
    /\ ops = 0 /\ edits = 0
    /\ known = [w \in Workspaces |-> [e \in Entities |-> {}]]
    /\ merged = [w \in Workspaces |-> [e \in Entities |-> 0]]
    /\ purgedAt = [w \in Workspaces |-> [e \in Entities |-> 0]]

-----------------------------------------------------------------------------
(* Row edits: the REST and MCP writes of queries.py and dashboards.py.      *)

\* Put `row` in the database and remember its content as held by w.
SetRow(w, e, row) ==
    /\ db' = [db EXCEPT ![w][e] = row]
    /\ known' = [known EXCEPT ![w][e] = @ \cup {row.content}]

Edit ==
    /\ edits < MaxEdits
    /\ edits' = edits + 1
    /\ UNCHANGED <<log, clone, sync, lock, task, ops, merged, purgedAt>>

\* Saving is an upsert, and brings a deleted query back.
Save(w, e, c) ==
    /\ db[w][e] # [content |-> c, deleted |-> FALSE]
    /\ SetRow(w, e, [content |-> c, deleted |-> FALSE])
    /\ Edit

\* Delete or undelete: 404 unless the row is in the other state.
SetDeleted(w, q, deleted) ==
    /\ db[w][q] # None
    /\ db[w][q].deleted # deleted
    /\ SetRow(w, q, [db[w][q] EXCEPT !.deleted = deleted])
    /\ Edit

\* Rename a live query; 409 when any row, live or deleted, has the new name.
Rename(w, q, new) ==
    /\ db[w][q] # None
    /\ ~db[w][q].deleted
    /\ db[w][new] = None
    /\ db' = [db EXCEPT ![w][new] = db[w][q], ![w][q] = None]
    /\ known' = [known EXCEPT ![w][new] = @ \cup {db[w][q].content}]
    /\ Edit

UserEdit ==
    \E w \in Workspaces :
        \/ \E e \in Entities, c \in Contents : Save(w, e, c)
        \/ \E q \in Queries, d \in BOOLEAN : SetDeleted(w, q, d)
        \/ \E q, new \in Queries : Rename(w, q, new)

-----------------------------------------------------------------------------
(* Steps of one coroutine t.  Between two of them anything else may run.    *)

Ws(t) == task[t].ws
Ent(t) == task[t].ent

Goto(t, pc) == task' = [task EXCEPT ![t].pc = pc]

Unlock(t) == lock' = [lock EXCEPT ![Ws(t)] = None]

\* The request returns or raises, leaving the `async with` block.
Finish(t) == task' = [task EXCEPT ![t] = Idle] /\ Unlock(t)

\* The lock is released but the request goes on.
Leave(t, pc) == Goto(t, pc) /\ Unlock(t)

Active(w) == {t \in Tasks : task[t].ws = w}

\* A request arrives.  Purge looks at the row before it takes the lock.
StartOp(t, w, op, e) ==
    /\ ops < MaxOps
    /\ task[t].pc = "idle"
    /\ Cardinality(Active(w)) < MaxPerWs
    /\ op = "sync" <=> e = None
    /\ op = "purge" => e \in Queries /\ db[w][e] # None /\ db[w][e].deleted
    /\ task' = [task EXCEPT ![t] = Request(op, w, e, "lock")]
    /\ ops' = ops + 1
    /\ UNCHANGED <<log, db, clone, sync, lock, edits, history>>

\* Seeded bug: the waiter does not wait.
AcquireAnyway(t) ==
    /\ task[t].pc \in Waiting
    /\ lock' = [lock EXCEPT ![Ws(t)] = t]
    /\ Goto(t, IF task[t].pc = "lock" THEN "ensure" ELSE "settle")
    /\ UNCHANGED <<log, db, clone, sync, ops, edits, history>>

Acquire(t) ==
    /\ task[t].pc \in Waiting
    /\ lock[Ws(t)] = None
    /\ lock' = [lock EXCEPT ![Ws(t)] = t]
    /\ Goto(t, IF task[t].pc = "lock" THEN "ensure" ELSE "settle")
    /\ UNCHANGED <<log, db, clone, sync, ops, edits, history>>

-----------------------------------------------------------------------------
(* _ensure_repo: any `.git` directory counts as a finished clone.           *)

UnchangedButClone == UNCHANGED <<log, db, sync, lock, ops, edits, history>>

EnsureDone(t) ==
    /\ task[t].pc = "ensure"
    /\ clone[Ws(t)].stage # "none"
    /\ Goto(t, "fetch")
    /\ UNCHANGED clone
    /\ UnchangedButClone

CloneRemote(t) ==
    /\ task[t].pc = "ensure"
    /\ clone[Ws(t)].stage = "none"
    /\ log # <<>>
    /\ clone' = [clone EXCEPT ![Ws(t)] = [stage |-> "attached", origin |-> Len(log),
                                         base |-> Len(log), ahead |-> <<>>]]
    /\ Goto(t, "config")
    /\ UnchangedButClone

\* The branch does not exist yet: start locally, then attach the remote.
InitLocal(t) ==
    /\ task[t].pc = "ensure"
    /\ clone[Ws(t)].stage = "none"
    /\ log = <<>>
    /\ clone' = [clone EXCEPT ![Ws(t)].stage = "bare"]
    /\ Goto(t, "attach")
    /\ UnchangedButClone

AttachRemote(t) ==
    /\ task[t].pc = "attach"
    /\ clone' = [clone EXCEPT ![Ws(t)].stage = "attached"]
    /\ Goto(t, "config")
    /\ UnchangedButClone

Configure(t) ==
    /\ task[t].pc = "config"
    /\ clone' = [clone EXCEPT ![Ws(t)].stage = "ready"]
    /\ Goto(t, "fetch")
    /\ UnchangedButClone

EnsureRepo(t) ==
    EnsureDone(t) \/ CloneRemote(t) \/ InitLocal(t) \/ AttachRemote(t) \/ Configure(t)

-----------------------------------------------------------------------------
(* _origin_head, then what the operation does with it: Commit and Purge     *)
(* reset their clone to it, and all but Purge merge it into the rows.       *)

Resets == {"store", "purge"}

FetchHead(t) ==
    /\ task[t].pc = "fetch"
    /\ clone[Ws(t)].stage # "bare"
    /\ log # <<>>
    /\ clone' = [clone EXCEPT ![Ws(t)] =
                    IF task[t].op \in Resets
                    THEN [@ EXCEPT !.origin = Len(log), !.base = Len(log), !.ahead = <<>>]
                    ELSE [@ EXCEPT !.origin = Len(log)]]
    /\ task' = [task EXCEPT
                    ![t].pc = IF task[t].op = "purge" THEN "mark" ELSE "merge",
                    ![t].at = Len(log),
                    ![t].todo = {e \in Entities : log[Len(log)][e] # None},
                    ![t].agr = agreed[Ws(t)],
                    ![t].conf = {}]
    /\ UnchangedButClone

\* Nothing was ever pushed: only Commit has something to do in the clone.
FetchNoHead(t) ==
    /\ task[t].pc = "fetch"
    /\ clone[Ws(t)].stage # "bare"
    /\ log = <<>>
    /\ \/ task[t].op \in {"sync", "restore"} /\ Finish(t)
       \/ task[t].op = "purge" /\ Leave(t, "purgeRow")
       \/ task[t].op = "store" /\ Goto(t, "load") /\ UNCHANGED lock
    /\ UNCHANGED <<log, db, clone, sync, ops, edits, history>>

Fetch(t) == FetchHead(t) \/ FetchNoHead(t)

-----------------------------------------------------------------------------
(* _merge: each entity of the fetched tree in turn (here in any order).     *)
(* `agr` and `conf` are its locals until _save_state.                       *)

RepoCopy(t, e) == At(task[t].at)[e]
Row(t, e) == db[Ws(t)][e]

SameContent(t, e) == Row(t, e) # None /\ Row(t, e).content = RepoCopy(t, e).content

AtMerge(t, e) == task[t].pc = "merge" /\ e \in task[t].todo

UnchangedButTask == UNCHANGED <<log, db, clone, sync, lock, ops, edits, history>>

\* Seeded bug: any earlier agreement counts, not one on this very copy.
MergeLocalChangeAnyAgreed(t, e) ==
    /\ AtMerge(t, e)
    /\ Row(t, e) # RepoCopy(t, e)
    /\ task[t].agr[e] # None
    /\ task' = [task EXCEPT ![t].todo = @ \ {e}]
    /\ UnchangedButTask

\* Gone here or edited here since we agreed on this very copy.
MergeLocalChange(t, e) ==
    /\ AtMerge(t, e)
    /\ Row(t, e) # RepoCopy(t, e)
    /\ task[t].agr[e] = RepoCopy(t, e)
    /\ task' = [task EXCEPT ![t].todo = @ \ {e}]
    /\ UnchangedButTask

MergeSame(t, e) ==
    /\ AtMerge(t, e)
    /\ Row(t, e) = RepoCopy(t, e)
    /\ task' = [task EXCEPT ![t].todo = @ \ {e}, ![t].agr[e] = RepoCopy(t, e)]
    /\ UnchangedButTask

\* No row, or the same content deleted or undeleted there since we agreed on
\* something: the row will be written, after an await.
MergeDecide(t, e) ==
    /\ AtMerge(t, e)
    /\ Row(t, e) # RepoCopy(t, e)
    /\ task[t].agr[e] # RepoCopy(t, e)
    /\ \/ Row(t, e) = None /\ task' = [task EXCEPT ![t].pc = "import", ![t].cur = e]
       \/ /\ SameContent(t, e)
          /\ task[t].agr[e] # None
          /\ task' = [task EXCEPT ![t].pc = "flip", ![t].cur = e]
    /\ UnchangedButTask

\* Seeded bug: the conflicting copy is recorded as agreed.
MergeConflictAgrees(t, e) ==
    /\ AtMerge(t, e)
    /\ Row(t, e) \notin {None, RepoCopy(t, e)}
    /\ task[t].agr[e] # RepoCopy(t, e)
    /\ task' = [task EXCEPT ![t].todo = @ \ {e}, ![t].conf = @ \cup {e},
                            ![t].agr[e] = RepoCopy(t, e)]
    /\ UnchangedButTask

MergeConflict(t, e) ==
    /\ AtMerge(t, e)
    /\ Row(t, e) \notin {None, RepoCopy(t, e)}
    /\ task[t].agr[e] # RepoCopy(t, e)
    /\ SameContent(t, e) => task[t].agr[e] = None
    /\ task' = [task EXCEPT ![t].todo = @ \ {e}, ![t].conf = @ \cup {e}]
    /\ UnchangedButTask

\* The current entity is dealt with, and agreed unless its row went away.
Merged(t, agree) ==
    LET e == task[t].cur IN
    task' = [task EXCEPT ![t].pc = "merge", ![t].cur = None, ![t].todo = @ \ {e},
                         ![t].agr[e] = IF agree THEN RepoCopy(t, e) ELSE @]

\* save_predefined_query / upsert_dashboard: whatever the row is by now.
MergeImport(t) ==
    /\ task[t].pc = "import"
    /\ SetRow(Ws(t), task[t].cur, RepoCopy(t, task[t].cur))
    /\ Merged(t, TRUE)
    /\ UNCHANGED <<log, clone, sync, lock, ops, edits, merged, purgedAt>>

\* update_predefined_query(strict=False): a row that is gone is a local change.
MergeFlip(t) ==
    LET e == task[t].cur IN
    /\ task[t].pc = "flip"
    /\ db' = IF Row(t, e) = None THEN db
             ELSE [db EXCEPT ![Ws(t)][e].deleted = RepoCopy(t, e).deleted]
    /\ Merged(t, Row(t, e) # None)
    /\ UNCHANGED <<log, clone, sync, lock, ops, edits, history>>

\* _save_state, and on to what the operation merged for.
MergeSave(t) ==
    LET w == Ws(t) IN
    /\ task[t].pc = "merge"
    /\ task[t].todo = {}
    /\ agreed' = [agreed EXCEPT ![w] = task[t].agr]
    /\ conflicts' = [conflicts EXCEPT ![w] = task[t].conf]
    /\ merged' = [merged EXCEPT ![w] = [e \in Entities |-> task[t].at]]
    /\ \/ task[t].op = "sync" /\ Finish(t)
       \/ task[t].op = "store" /\ Goto(t, "load") /\ UNCHANGED lock
       \/ task[t].op = "restore" /\ Goto(t, "read") /\ UNCHANGED lock
    /\ UNCHANGED <<log, db, clone, ops, edits, known, purgedAt>>

Merge(t) ==
    \/ \E e \in Entities :
          \/ MergeLocalChange(t, e)
          \/ MergeSame(t, e)
          \/ MergeDecide(t, e)
          \/ MergeConflict(t, e)
    \/ MergeImport(t)
    \/ MergeFlip(t)
    \/ MergeSave(t)

-----------------------------------------------------------------------------
(* _agree: record copy c as agreed, if there is one, and drop the conflict. *)

SettleOn(w, e, c) ==
    /\ agreed' = IF c = None THEN agreed ELSE [agreed EXCEPT ![w][e] = c]
    /\ conflicts' = [conflicts EXCEPT ![w] = @ \ {e}]

\* History: a deliberate act of w (commit, purge, restore) on the repository's
\* version n of e counts as w having seen that version.
Seen(w, e, n) ==
    known' = IF At(n)[e] = None THEN known
             ELSE [known EXCEPT ![w][e] = @ \cup {At(n)[e].content}]

(* store: load the row, write it over the clone's tree, commit, push.       *)

Commit(c, e, copy) ==
    [c EXCEPT !.ahead = Append(@, [HeadTree(c) EXCEPT ![e] = copy])]

StoreMissing(t) ==
    /\ task[t].pc = "load"
    /\ Row(t, Ent(t)) = None
    /\ Finish(t)
    /\ UNCHANGED <<log, db, clone, sync, ops, edits, history>>

\* The answer is "no changes".
StoreNoChanges(t) ==
    /\ task[t].pc = "load"
    /\ Row(t, Ent(t)) # None
    /\ HeadTree(clone[Ws(t)])[Ent(t)] = Row(t, Ent(t))
    /\ Finish(t)
    /\ UNCHANGED <<log, db, clone, sync, ops, edits, history>>

\* Seeded bug: agreed as soon as committed, before the push.
StoreCommitAgrees(t) ==
    LET w == Ws(t)  e == Ent(t) IN
    /\ task[t].pc = "load"
    /\ Row(t, e) # None
    /\ HeadTree(clone[w])[e] # Row(t, e)
    /\ clone' = [clone EXCEPT ![w] = Commit(@, e, Row(t, e))]
    /\ task' = [task EXCEPT ![t].pc = "push", ![t].copy = Row(t, e)]
    /\ SettleOn(w, e, Row(t, e))
    /\ UNCHANGED <<log, db, lock, ops, edits, history>>

\* Seeded bug: the commit takes every row of the workspace along.
StoreCommitAll(t) ==
    LET w == Ws(t)  head == HeadTree(clone[w]) IN
    /\ task[t].pc = "load"
    /\ Row(t, Ent(t)) # None
    /\ clone' = [clone EXCEPT ![w].ahead = Append(@,
                    [e \in Entities |-> IF db[w][e] = None THEN head[e] ELSE db[w][e]])]
    /\ task' = [task EXCEPT ![t].pc = "push", ![t].copy = Row(t, Ent(t))]
    /\ UnchangedButClone

StoreCommit(t) ==
    LET w == Ws(t)  e == Ent(t) IN
    /\ task[t].pc = "load"
    /\ Row(t, e) # None
    /\ HeadTree(clone[w])[e] # Row(t, e)
    /\ clone' = [clone EXCEPT ![w] = Commit(@, e, Row(t, e))]
    /\ task' = [task EXCEPT ![t].pc = "push", ![t].copy = Row(t, e)]
    /\ UnchangedButClone

StoreAgree(t) ==
    /\ task[t].pc = "agree"
    /\ SettleOn(Ws(t), Ent(t), task[t].copy)
    /\ Finish(t)
    /\ UNCHANGED <<log, db, clone, ops, edits, history>>

-----------------------------------------------------------------------------
(* git push: fast-forward only.  Its outcome can be lost: the remote takes  *)
(* the commits and git is killed before it says so.                         *)

PushLands(t) ==
    /\ task[t].pc = "push"
    /\ Len(log) = clone[Ws(t)].base
    /\ log' = log \o clone[Ws(t)].ahead
    /\ Seen(Ws(t), Ent(t), Len(log))

PushOk(t) ==
    LET w == Ws(t) IN
    /\ PushLands(t)
    /\ clone' = [clone EXCEPT ![w] = [@ EXCEPT !.origin = Len(log'), !.base = Len(log'),
                                               !.ahead = <<>>]]
    /\ \/ task[t].op = "store" /\ Goto(t, "agree") /\ UNCHANGED <<lock, purgedAt>>
       \/ /\ task[t].op = "purge"
          /\ Leave(t, "purgeRow")
          /\ purgedAt' = [purgedAt EXCEPT ![w][Ent(t)] = Len(log')]
    /\ UNCHANGED <<db, sync, ops, edits, merged>>

PushLost(t) ==
    /\ PushLands(t)
    /\ Finish(t)
    /\ UNCHANGED <<db, clone, sync, ops, edits, merged, purgedAt>>

\* Seeded bug: the retry puts the commit on the new head without merging that.
PushRebased(t) ==
    /\ task[t].pc = "push"
    /\ Len(log) # clone[Ws(t)].base
    /\ clone' = [clone EXCEPT ![Ws(t)] =
                    [@ EXCEPT !.origin = Len(log), !.base = Len(log),
                              !.ahead = <<[At(Len(log)) EXCEPT ![Ent(t)] = task[t].copy]>>]]
    /\ UNCHANGED <<log, db, sync, lock, task, ops, edits, history>>

\* Seeded bug: retried as long as it is rejected.
PushRetried(t) ==
    /\ task[t].pc = "push"
    /\ Len(log) # clone[Ws(t)].base
    /\ task' = [task EXCEPT ![t].pc = "ensure", ![t].attempt = @ + 1, ![t].copy = None]
    /\ UNCHANGED <<log, db, clone, sync, lock, ops, edits, history>>

\* Another instance pushed since our fetch: run the operation once more.
PushRejected(t) ==
    /\ task[t].pc = "push"
    /\ Len(log) # clone[Ws(t)].base
    /\ \/ task[t].attempt = 1 /\ UNCHANGED lock
          /\ task' = [task EXCEPT ![t].pc = "ensure", ![t].attempt = 2, ![t].copy = None]
       \/ task[t].attempt = 2 /\ Finish(t)
    /\ UNCHANGED <<log, db, clone, sync, ops, edits, history>>

Push(t) == PushOk(t) \/ PushLost(t) \/ PushRejected(t)

-----------------------------------------------------------------------------
(* purge: take the marker out of the repository, then the row out of the    *)
(* database (main.queries_delete), where it must still be deleted.          *)

PurgeNoMarker(t) ==
    LET copy == HeadTree(clone[Ws(t)])[Ent(t)] IN
    /\ task[t].pc = "mark"
    /\ copy # None => ~copy.deleted
    /\ Leave(t, "purgeRow")
    /\ UNCHANGED <<log, db, clone, sync, ops, edits, history>>

\* Seeded bug: the marker is removed without agreeing on it.
PurgeMarkerUnagreed(t) ==
    LET w == Ws(t)  e == Ent(t)  copy == HeadTree(clone[w])[e] IN
    /\ task[t].pc = "mark"
    /\ copy # None /\ copy.deleted
    /\ Seen(w, e, task[t].at)
    /\ clone' = [clone EXCEPT ![w] = Commit(@, e, None)]
    /\ Goto(t, "push")
    /\ UNCHANGED <<log, db, sync, lock, ops, edits, merged, purgedAt>>

PurgeMarker(t) ==
    LET w == Ws(t)  e == Ent(t)  copy == HeadTree(clone[w])[e] IN
    /\ task[t].pc = "mark"
    /\ copy # None /\ copy.deleted
    /\ SettleOn(w, e, copy)
    /\ Seen(w, e, task[t].at)
    /\ merged' = [merged EXCEPT ![w][e] = task[t].at]
    /\ clone' = [clone EXCEPT ![w] = Commit(@, e, None)]
    /\ Goto(t, "push")
    /\ UNCHANGED <<log, db, lock, ops, edits, purgedAt>>

PurgeRow(t) ==
    LET w == Ws(t)  e == Ent(t) IN
    /\ task[t].pc = "purgeRow"
    /\ db' = IF db[w][e] # None /\ db[w][e].deleted THEN [db EXCEPT ![w][e] = None] ELSE db
    /\ task' = [task EXCEPT ![t] = Idle]
    /\ UNCHANGED <<log, clone, sync, lock, ops, edits, history>>

-----------------------------------------------------------------------------
(* restore: read commit r under the lock, write the row after it, and take  *)
(* the lock again to settle the conflict.                                   *)

RestoreRead(t, r) ==
    LET copy == At(r)[Ent(t)] IN
    /\ task[t].pc = "read"
    /\ r <= clone[Ws(t)].origin
    /\ \/ copy = None /\ Finish(t)
       \/ /\ copy # None
          /\ task' = [task EXCEPT ![t].pc = "write", ![t].copy = copy]
          /\ Unlock(t)
    /\ UNCHANGED <<log, db, clone, sync, ops, edits, history>>

RestoreWrite(t) ==
    /\ task[t].pc = "write"
    /\ SetRow(Ws(t), Ent(t), task[t].copy)
    /\ Goto(t, "relock")
    /\ UNCHANGED <<log, clone, sync, lock, ops, edits, merged, purgedAt>>

\* The copy is looked up at `origin/<branch>` as it is now; the version the
\* user settled is the one this request fetched.
RestoreSettle(t) ==
    LET w == Ws(t)  e == Ent(t) IN
    /\ task[t].pc = "settle"
    /\ SettleOn(w, e, At(clone[w].origin)[e])
    /\ Seen(w, e, task[t].at)
    /\ Finish(t)
    /\ UNCHANGED <<log, db, clone, ops, edits, merged, purgedAt>>

-----------------------------------------------------------------------------
\* Seeded bug: the failing request leaves its lock behind.
GitFailsLocked(t) ==
    /\ task[t].pc \in Holding \ {"import", "flip"}
    /\ task' = [task EXCEPT ![t] = Idle]
    /\ UNCHANGED <<log, db, clone, sync, lock, ops, edits, history>>

\* A git command fails or is killed after _GIT_TIMEOUT_S: the request ends.
GitFails(t) ==
    /\ task[t].pc \in Holding \ {"import", "flip"}
    /\ Finish(t)
    /\ UNCHANGED <<log, db, clone, sync, ops, edits, history>>

\* Killing a clone leaves what it had created, a `.git` with its remote.
CloneKilled(t) ==
    /\ task[t].pc = "ensure"
    /\ clone[Ws(t)].stage = "none"
    /\ log # <<>>
    /\ clone' = [clone EXCEPT ![Ws(t)].stage = "attached"]
    /\ Finish(t)
    /\ UNCHANGED <<log, db, sync, ops, edits, history>>

Step(t) ==
    \/ EnsureRepo(t) \/ Fetch(t) \/ Merge(t) \/ Push(t)
    \/ StoreMissing(t) \/ StoreNoChanges(t) \/ StoreCommit(t) \/ StoreAgree(t)
    \/ PurgeNoMarker(t) \/ PurgeMarker(t) \/ PurgeRow(t)
    \/ \E r \in 1 .. Len(log) : RestoreRead(t, r)
    \/ RestoreWrite(t) \/ RestoreSettle(t)
    \/ GitFails(t) \/ CloneKilled(t)

\* The server of w dies: its requests are gone, what is on disk stays.
Crash(w) ==
    /\ Active(w) # {}
    /\ task' = [t \in Tasks |-> IF task[t].ws = w THEN Idle ELSE task[t]]
    /\ lock' = [lock EXCEPT ![w] = None]
    /\ UNCHANGED <<log, db, clone, sync, ops, edits, history>>

Next ==
    \/ UserEdit
    \/ \E t \in Tasks :
          \/ \E w \in Workspaces, op \in {"sync", "store", "purge", "restore"},
                e \in Maybe(Entities) : StartOp(t, w, op, e)
          \/ Acquire(t)
          \/ Step(t)
    \/ \E w \in Workspaces : Crash(w)

Spec == Init /\ [][Next]_vars

\* Every git command ends within _GIT_TIMEOUT_S and asyncio runs every ready
\* coroutine; asyncio.Lock wakes its waiters first come, first served.
Fairness == \A t \in Tasks : WF_vars(Step(t)) /\ WF_vars(Acquire(t))

FairSpec == Spec /\ Fairness

-----------------------------------------------------------------------------
(* Properties.                                                              *)

\* What a workspace recorded as agreed is a copy the remote really holds or
\* held: nothing is agreed before its push has succeeded (store, purge, _agree).
AgreedInHistory ==
    \A w \in Workspaces, e \in Entities :
        agreed[w][e] # None => \E n \in 1 .. Len(log) : log[n][e] = agreed[w][e]

\* "History is append-only": no instance's push ever rewrites or drops commits
\* another instance published, however their fetches, resets and retries interleave.
HistoryAppendOnly ==
    [][/\ Len(log') >= Len(log)
       /\ \A n \in 1 .. Len(log) : log'[n] = log[n]]_vars

\* "Each Commit makes exactly one commit touching one entity": a commit made from
\* a clone that another instance overtook never carries other entities' old files.
OneEntityPerCommit ==
    \A n \in 1 .. Len(log) :
        \E e \in Entities : \A f \in Entities \ {e} : log[n][f] = At(n - 1)[f]

\* No lost update: a commit that replaces or drops a copy in the repository replaces
\* content its workspace had held, or had listed as a conflict (store, retry included).
OverwriteIsSeen ==
    [][\A t \in Tasks : task[t].pc = "push" /\ task'[t].pc # "push" /\ log' # log =>
          LET w == Ws(t)  e == Ent(t)  old == At(Len(log))[e] IN
          \/ At(Len(log))[e] = log'[Len(log')][e]
          \/ old = None
          \/ old.content \in known[w][e]
          \/ e \in conflicts[w]]_vars

\* Content of the merged head that a workspace never held and never settled is
\* reported to it as a conflict until it commits, restores or purges (merge, _agree).
UnseenContentIsReported ==
    \A w \in Workspaces, e \in Entities :
        LET copy == At(merged[w][e])[e] IN
        copy # None /\ copy.content \notin known[w][e] => e \in conflicts[w]

\* "Last agreed" is a copy the workspace imported, committed, restored, purged or
\* found identical: it never records agreement with content it has not seen.
AgreedContentKnown ==
    \A w \in Workspaces, e \in Entities :
        agreed[w][e] # None => agreed[w][e].content \in known[w][e]

\* "Purge removes the marker before the row, so no instance imports it back": after
\* its purge a workspace imports the query again only once somebody committed a
\* different copy of it.
NoResurrection ==
    [][\A w \in Workspaces, e \in Queries, t \in Tasks :
          purgedAt[w][e] > 0 /\ Ws(t) = w /\ task[t].pc = "import" /\ task[t].cur = e
             /\ task'[t].pc = "merge" =>
             \E n \in purgedAt[w][e] .. Len(log) :
                 log[n][e] \notin {None, At(purgedAt[w][e] - 1)[e]}]_vars

\* The clone and the sync state of a workspace are used by the one request that
\* holds its lock, over every await between the fetch and the last use.
OneHolder ==
    \A t \in Tasks : task[t].pc \in Holding => lock[Ws(t)] = t

\* Every request ends: no lost lock, no retry loop, no wait on a dead holder.
RequestsEnd == \A t \in Tasks : task[t].pc # "idle" ~> task[t].pc = "idle"

\* Stated by docs/gitsync.md ("The merge only adds, never overwrites", a query
\* "edited locally becomes a conflict"): a merge writes a row that exists only when
\* it still holds the repository's content.  It may have been saved since it was read.
MergeKeepsContent ==
    [][\A t \in Tasks : task[t].pc \in {"import", "flip"} /\ task'[t].pc = "merge"
                         /\ Row(t, task[t].cur) # None =>
          SameContent(t, task[t].cur)]_vars
=============================================================================
