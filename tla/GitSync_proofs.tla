---------------------------- MODULE GitSync_proofs ----------------------------
(* TLAPS proofs about GitSync: type correctness, the exclusive use of a clone, *)
(* and that what is agreed was published, for any number of workspaces,        *)
(* entities, contents, coroutines and requests.                                *)
EXTENDS GitSync, TLAPS

-----------------------------------------------------------------------------
(* The inductive invariant.                                                 *)

InLog(e, c) == \E n \in 1 .. Len(log) : log[n][e] = c

\* No clone knows a commit that the remote does not have.
CloneBehind ==
    \A w \in Workspaces : clone[w].origin <= Len(log) /\ clone[w].base <= Len(log)

\* What a phase says about the request: its workspace, its entity, its operation.
PhaseOK(r) ==
    /\ r.pc # "idle" => r.ws \in Workspaces /\ r.op # "none"
    /\ r.op \in {"store", "purge", "restore"} => r.ent \in Entities
    /\ r.pc \in {"load", "agree"} => r.op = "store"
    /\ r.pc = "push" => r.op \in {"store", "purge"}
    /\ r.pc \in {"mark", "purgeRow"} => r.op = "purge"
    /\ r.pc \in {"read", "write", "relock", "settle"} => r.op = "restore"
    /\ r.pc \in {"import", "flip"} => r.cur \in r.todo
    /\ r.pc \in {"write", "agree"} => r.copy # None

\* What a merge under way has in hand comes from the remote's history.
MergeOK(r) ==
    /\ r.at <= Len(log)
    /\ \A e \in r.todo : At(r.at)[e] # None
    /\ \A e \in Entities : r.agr[e] # None => InLog(e, r.agr[e])

\* What the holder of a clone is about to push, or has pushed.
PushOK(r) ==
    /\ r.pc = "mark" => clone[r.ws].ahead = <<>>
    /\ r.pc = "push" => clone[r.ws].ahead # <<>>
    /\ r.pc = "push" /\ r.op = "store" =>
          r.copy # None /\ HeadTree(clone[r.ws])[r.ent] = r.copy
    /\ r.pc = "agree" => InLog(r.ent, r.copy)

TaskOK(t) == PhaseOK(task[t]) /\ MergeOK(task[t]) /\ PushOK(task[t])

IInv ==
    /\ TypeOK
    /\ OneHolder
    /\ CloneBehind
    /\ AgreedInHistory
    /\ \A t \in Tasks : TaskOK(t)

-----------------------------------------------------------------------------
(* Facts about the data.                                                    *)

LEMMA NoneIsNothing ==
    None \notin Copy /\ None \notin Tasks /\ None \notin Workspaces /\ None \notin Entities
BY GitSyncAssumption DEF Copy

LEMMA AtIsTree ==
    ASSUME TypeOK, NEW n \in Nat, n <= Len(log)
    PROVE  At(n) \in Tree
<1>1. CASE n = 0
    BY <1>1 DEF At, EmptyTree, Tree, Maybe
<1>2. CASE n # 0
    BY <1>2 DEF At, TypeOK
<1> QED BY <1>1, <1>2

LEMMA HeadIsTree ==
    ASSUME TypeOK, CloneBehind, NEW w \in Workspaces
    PROVE  HeadTree(clone[w]) \in Tree
<1>1. clone[w] \in Clone /\ clone[w].base <= Len(log)
    BY DEF TypeOK, CloneBehind
<1>2. CASE clone[w].ahead = <<>>
    BY <1>1, <1>2, AtIsTree DEF HeadTree, Clone
<1>3. CASE clone[w].ahead # <<>>
    BY <1>1, <1>3 DEF HeadTree, Clone
<1> QED BY <1>2, <1>3

\* Pushing only adds: what the log held, it holds.
LEMMA LogGrows ==
    ASSUME TypeOK, NEW s \in Seq(Tree), log' = log \o s
    PROVE  /\ log' \in Seq(Tree)
           /\ Len(log') = Len(log) + Len(s)
           /\ \A n \in 1 .. Len(log) : log'[n] = log[n]
           /\ \A n \in 1 .. Len(s) : log'[Len(log) + n] = s[n]
           /\ \A n \in 0 .. Len(log) : At(n)' = At(n)
           /\ \A e, c : InLog(e, c) => InLog(e, c)'
<1>1. log \in Seq(Tree)
    BY DEF TypeOK
<1>2. /\ log' \in Seq(Tree)
      /\ Len(log') = Len(log) + Len(s)
      /\ \A n \in 1 .. Len(log) : log'[n] = log[n]
      /\ \A n \in 1 .. Len(s) : log'[Len(log) + n] = s[n]
    BY <1>1
<1>3. \A n \in 0 .. Len(log) : At(n)' = At(n)
    BY <1>2 DEF At
<1>4. \A e, c : InLog(e, c) => InLog(e, c)'
    BY <1>1, <1>2 DEF InLog
<1> QED BY <1>2, <1>3, <1>4

-----------------------------------------------------------------------------
(* Frame lemmas: what a step of one coroutine leaves alone.                 *)

LEMMA IdleOK ==
    ASSUME TypeOK
    PROVE  Idle \in Task /\ PhaseOK(Idle) /\ MergeOK(Idle) /\ PushOK(Idle)
<1>1. Idle \in Task
    BY DEF Idle, Request, Task, Maybe, Phases, EmptyTree
<1>2. PhaseOK(Idle)
    BY DEF Idle, Request, PhaseOK
<1>3. MergeOK(Idle)
    BY DEF Idle, Request, MergeOK, EmptyTree, TypeOK
<1>4. PushOK(Idle)
    BY DEF Idle, Request, PushOK
<1> QED BY <1>1, <1>2, <1>3, <1>4

\* Only t has moved.
OnlyMoves(t) ==
    task' \in [Tasks -> Task] /\ \A u \in Tasks \ {t} : task'[u] = task[u]

LEMMA TaskFrame ==
    ASSUME NEW u \in Tasks, UNCHANGED <<log, clone>>, task'[u] = task[u], TaskOK(u)
    PROVE  TaskOK(u)'
<1>1. PhaseOK(task[u])'
    BY DEF TaskOK, PhaseOK
<1>2. MergeOK(task[u])'
    BY DEF TaskOK, MergeOK, InLog, At
<1>3. PushOK(task[u])'
    BY DEF TaskOK, PushOK, InLog, At, HeadTree
<1> QED BY <1>1, <1>2, <1>3 DEF TaskOK

\* A step of t that leaves the remote and the clones alone.
LEMMA OthersStand ==
    ASSUME IInv, NEW t \in Tasks, UNCHANGED <<log, clone>>, OnlyMoves(t), TaskOK(t)'
    PROVE  CloneBehind' /\ \A u \in Tasks : TaskOK(u)'
<1>1. CloneBehind'
    BY DEF IInv, CloneBehind
<1>2. ASSUME NEW u \in Tasks, u # t PROVE TaskOK(u)'
  <2>1. task'[u] = task[u] /\ TaskOK(u)
    BY <1>2 DEF IInv, OnlyMoves
  <2> QED BY <2>1, TaskFrame
<1> QED BY <1>1, <1>2

\* The same, and the agreements stay.
LEMMA QuietStep ==
    ASSUME IInv, NEW t \in Tasks, UNCHANGED <<log, clone, agreed>>, OnlyMoves(t), TaskOK(t)'
    PROVE  CloneBehind' /\ AgreedInHistory' /\ \A u \in Tasks : TaskOK(u)'
BY OthersStand DEF IInv, AgreedInHistory

\* The locks after t has kept, or given back, that of its workspace.
LEMMA HolderFrame ==
    ASSUME IInv, NEW t \in Tasks, OnlyMoves(t), PhaseOK(task[t])',
           \/ UNCHANGED lock /\ (task'[t].pc \in Holding => task[t].pc \in Holding /\ task'[t].ws = task[t].ws)
           \/ /\ task[t].pc \in Holding
              /\ lock' = [lock EXCEPT ![task[t].ws] = None]
              /\ task'[t].pc \notin Holding
    PROVE  OneHolder' /\ lock' \in [Workspaces -> Maybe(Tasks)]
<1>1. lock \in [Workspaces -> Maybe(Tasks)] /\ task \in [Tasks -> Task]
    BY DEF IInv, TypeOK
<1>2. \A u \in Tasks : task[u].pc \in Holding => lock[task[u].ws] = u /\ task[u].ws \in Workspaces
    BY DEF IInv, OneHolder, Ws, TaskOK, PhaseOK, Holding
<1>3. lock' \in [Workspaces -> Maybe(Tasks)]
    BY <1>1 DEF Maybe
<1>4. OneHolder'
    BY <1>1, <1>2 DEF OneHolder, OnlyMoves, Ws
<1> QED BY <1>3, <1>4

\* A step of t, the holder of w, that may change the clone, publish and agree.
LEMMA HolderStep ==
    ASSUME IInv, NEW t \in Tasks, NEW w \in Workspaces, NEW c \in Clone,
           task[t].pc \in Holding, task[t].ws = w,
           OnlyMoves(t), clone' = [clone EXCEPT ![w] = c],
           Len(log) <= Len(log'), Len(log') \in Nat,
           \A n \in 0 .. Len(log) : At(n)' = At(n),
           \A e, d : InLog(e, d) => InLog(e, d)',
           c.origin <= Len(log'), c.base <= Len(log'), TaskOK(t)'
    PROVE  /\ clone' \in [Workspaces -> Clone]
           /\ CloneBehind' /\ \A u \in Tasks : TaskOK(u)'
<1>1. /\ clone' \in [Workspaces -> Clone]
      /\ \A v \in Workspaces : clone'[v] = IF v = w THEN c ELSE clone[v]
    BY DEF IInv, TypeOK
<1>2. CloneBehind'
    BY <1>1 DEF IInv, TypeOK, CloneBehind, Clone
<1>3. ASSUME NEW u \in Tasks, u # t PROVE TaskOK(u)'
  <2>1. /\ task'[u] = task[u] /\ task[u] \in Task
        /\ PhaseOK(task[u]) /\ MergeOK(task[u]) /\ PushOK(task[u])
    BY <1>3 DEF IInv, TypeOK, TaskOK, OnlyMoves
  <2>2. MergeOK(task[u])'
    <3>1. task[u].at \in 0 .. Len(log)
        BY <2>1 DEF MergeOK, Task, IInv, TypeOK
    <3> QED BY <2>1, <3>1 DEF MergeOK, Task
  <2>3. task[u].pc \in Holding =>
            task[u].ws \in Workspaces /\ clone'[task[u].ws] = clone[task[u].ws]
    BY <1>1, <1>3, <2>1 DEF IInv, OneHolder, Ws, PhaseOK, Holding
  <2>4. task[u].pc \in Holding => clone[task[u].ws].base \in 0 .. Len(log)
    BY <2>3 DEF IInv, TypeOK, CloneBehind, Clone
  <2>5. task[u].pc \in Holding =>
            HeadTree(clone[task[u].ws])' = HeadTree(clone[task[u].ws])
    BY <2>1, <2>3, <2>4 DEF HeadTree
  <2>6. PushOK(task[u])'
    BY <2>1, <2>3, <2>5 DEF PushOK, Holding
  <2> QED BY <2>1, <2>2, <2>6 DEF TaskOK, PhaseOK
<1> QED BY <1>1, <1>2, <1>3

-----------------------------------------------------------------------------
(* Every action preserves the invariant.                                    *)

LEMMA UserEditInv == ASSUME IInv, UserEdit PROVE IInv'
<1>1. UNCHANGED <<log, clone, agreed, conflicts, lock, task, ops, merged, purgedAt>>
      /\ edits' = edits + 1
    BY DEF UserEdit, Save, SetDeleted, Rename, Edit, sync
<1>2. db' \in [Workspaces -> Tree] /\ known' \in [Workspaces -> [Entities -> SUBSET Contents]]
  <2>1. db \in [Workspaces -> Tree] /\ known \in [Workspaces -> [Entities -> SUBSET Contents]]
    BY DEF IInv, TypeOK
  <2>2. ASSUME NEW w \in Workspaces, NEW e \in Entities, NEW row \in Copy, SetRow(w, e, row)
        PROVE  <1>2!1 /\ <1>2!2
    BY <2>1, <2>2 DEF SetRow, Tree, Maybe, Copy
  <2>3. CASE \E w \in Workspaces, e \in Entities, c \in Contents : Save(w, e, c)
    BY <2>2, <2>3 DEF Save, Copy
  <2>4. CASE \E w \in Workspaces, q \in Queries, d \in BOOLEAN : SetDeleted(w, q, d)
    <3>1. PICK w \in Workspaces, q \in Queries, d \in BOOLEAN : SetDeleted(w, q, d)
        BY <2>4
    <3>2. db[w][q] \in Copy /\ q \in Entities
        BY <2>1, <3>1 DEF SetDeleted, Tree, Maybe, Entities
    <3>3. [db[w][q] EXCEPT !.deleted = d] \in Copy
        BY <3>2 DEF Copy
    <3> QED BY <2>2, <3>1, <3>2, <3>3 DEF SetDeleted
  <2>5. CASE \E w \in Workspaces, q, new \in Queries : Rename(w, q, new)
    BY <2>1, <2>5 DEF Rename, Copy, Tree, Maybe, Entities
  <2> QED BY <2>3, <2>4, <2>5 DEF UserEdit
<1>3. TypeOK'
    BY <1>1, <1>2 DEF IInv, TypeOK
<1>4. OneHolder'
    BY <1>1 DEF IInv, OneHolder, Ws
<1>5. CloneBehind' /\ AgreedInHistory'
    BY <1>1 DEF IInv, CloneBehind, AgreedInHistory
<1>6. \A t \in Tasks : TaskOK(t)'
    BY <1>1, TaskFrame DEF IInv
<1> QED BY <1>3, <1>4, <1>5, <1>6 DEF IInv

LEMMA StartOpInv ==
    ASSUME IInv, NEW t \in Tasks, NEW w \in Workspaces,
           NEW op \in {"sync", "store", "purge", "restore"}, NEW e \in Maybe(Entities),
           StartOp(t, w, op, e)
    PROVE  IInv'
<1> DEFINE r == Request(op, w, e, "lock")
<1>1. task[t].pc = "idle" /\ task' = [task EXCEPT ![t] = r] /\ (op = "sync" <=> e = None)
    BY DEF StartOp
<1>2. UNCHANGED <<log, db, clone, agreed, conflicts, lock, edits, known, merged, purgedAt>>
      /\ ops' = ops + 1
    BY DEF StartOp, sync, history
<1>3. r \in Task
    BY DEF Request, Task, Maybe, Phases, Waiting, EmptyTree
<1>4. PhaseOK(r) /\ MergeOK(r)' /\ PushOK(r)'
    BY <1>1, <1>2, NoneIsNothing
    DEF IInv, TypeOK, Request, Maybe, EmptyTree, PhaseOK, MergeOK, PushOK
<1>5. r.pc = "lock"
    BY DEF Request
<1> HIDE DEF r
<1>6. OnlyMoves(t) /\ task'[t] = r
    BY <1>1, <1>3 DEF IInv, TypeOK, OnlyMoves
<1>7. TaskOK(t)'
    BY <1>4, <1>6 DEF TaskOK, PhaseOK
<1>8. OneHolder'
    BY <1>2, <1>4, <1>5, <1>6, HolderFrame DEF Holding, PhaseOK
<1>9. TypeOK'
    BY <1>2, <1>6 DEF IInv, TypeOK, OnlyMoves
<1> QED BY <1>2, <1>6, <1>7, <1>8, <1>9, QuietStep DEF IInv

\* What the invariant says of the coroutine that moves.
LEMMA Facts ==
    ASSUME IInv, NEW t \in Tasks
    PROVE  /\ task[t] \in Task /\ PhaseOK(task[t]) /\ MergeOK(task[t]) /\ PushOK(task[t])
           /\ task[t].pc # "idle" => task[t].ws \in Workspaces
           /\ task[t].pc \in Holding => lock[task[t].ws] = t /\ task[t].pc # "idle"
BY DEF IInv, TypeOK, TaskOK, PhaseOK, OneHolder, Ws, Holding

LEMMA GotoFacts ==
    ASSUME IInv, NEW t \in Tasks, NEW pc \in Phases, Goto(t, pc)
    PROVE  /\ OnlyMoves(t)
           /\ task'[t].pc = pc
           /\ task'[t].op = task[t].op /\ task'[t].ws = task[t].ws
           /\ task'[t].ent = task[t].ent /\ task'[t].at = task[t].at
           /\ task'[t].copy = task[t].copy /\ task'[t].todo = task[t].todo
           /\ task'[t].cur = task[t].cur /\ task'[t].agr = task[t].agr
<1>1. task \in [Tasks -> Task] /\ task[t] \in Task
    BY DEF IInv, TypeOK
<1> DEFINE r == [task[t] EXCEPT !.pc = pc]
<1>2. task' = [task EXCEPT ![t] = r]
    BY <1>1 DEF Goto
<1>3. /\ r \in Task /\ r.pc = pc
      /\ r.op = task[t].op /\ r.ws = task[t].ws /\ r.ent = task[t].ent /\ r.at = task[t].at
      /\ r.copy = task[t].copy /\ r.todo = task[t].todo /\ r.cur = task[t].cur /\ r.agr = task[t].agr
    BY <1>1 DEF Task
<1> HIDE DEF r
<1>4. OnlyMoves(t) /\ task'[t] = r
    BY <1>1, <1>2, <1>3 DEF OnlyMoves
<1> QED BY <1>3, <1>4

\* A request that ends while it holds the lock, whatever it did last.
LEMMA FinishFacts ==
    ASSUME IInv, NEW t \in Tasks, Finish(t), task[t].pc \in Holding, log' \in Seq(Tree)
    PROVE  /\ OnlyMoves(t) /\ TaskOK(t)'
           /\ OneHolder' /\ lock' \in [Workspaces -> Maybe(Tasks)]
<1>1. OnlyMoves(t) /\ task'[t] = Idle
    BY IdleOK DEF IInv, TypeOK, Finish, OnlyMoves
<1>2. PhaseOK(Idle) /\ MergeOK(Idle)' /\ PushOK(Idle)'
    BY IdleOK DEF IInv, Idle, Request, EmptyTree, MergeOK, PushOK
<1>3. TaskOK(t)'
    BY <1>1, <1>2 DEF TaskOK, PhaseOK
<1>4. task'[t].pc \notin Holding /\ PhaseOK(task[t])'
    BY <1>1, <1>2 DEF Idle, Request, Holding, PhaseOK
<1>5. lock' = [lock EXCEPT ![task[t].ws] = None]
    BY DEF Finish, Unlock, Ws
<1> QED BY <1>1, <1>3, <1>4, <1>5, HolderFrame

\* A request that ends and changes nothing else.
LEMMA FinishOnlyInv ==
    ASSUME IInv, NEW t \in Tasks, Finish(t), task[t].pc \in Holding,
           UNCHANGED <<log, db, clone, sync, ops, edits, history>>
    PROVE  IInv'
<1>1. log' \in Seq(Tree) /\ UNCHANGED <<log, clone, agreed>>
    BY DEF IInv, TypeOK, sync
<1>2. OnlyMoves(t) /\ TaskOK(t)' /\ OneHolder' /\ lock' \in [Workspaces -> Maybe(Tasks)]
    BY <1>1, FinishFacts
<1>3. CloneBehind' /\ AgreedInHistory' /\ \A u \in Tasks : TaskOK(u)'
    BY <1>1, <1>2, QuietStep
<1>4. TypeOK'
    BY <1>2 DEF IInv, TypeOK, OnlyMoves, sync, history
<1> QED BY <1>2, <1>3, <1>4 DEF IInv

\* A request that goes on in another phase, with or without its lock.
LEMMA GotoOnlyInv ==
    ASSUME IInv, NEW t \in Tasks, NEW pc \in Phases, Goto(t, pc),
           UNCHANGED <<log, clone, sync, ops, edits, merged, purgedAt>>,
           db' \in [Workspaces -> Tree], known' \in [Workspaces -> [Entities -> SUBSET Contents]],
           \/ UNCHANGED lock /\ (pc \in Holding => task[t].pc \in Holding)
           \/ Unlock(t) /\ task[t].pc \in Holding /\ pc \notin Holding,
           PhaseOK(task[t])', PushOK(task[t])'
    PROVE  IInv'
<1>1. OnlyMoves(t) /\ task'[t].ws = task[t].ws /\ task'[t].pc = pc
    BY GotoFacts
<1>2. TaskOK(t)'
  <2>1. MergeOK(task[t]) /\ task'[t].at = task[t].at /\ task'[t].todo = task[t].todo
        /\ task'[t].agr = task[t].agr
    BY Facts, GotoFacts
  <2>2. MergeOK(task[t])'
    BY <2>1 DEF MergeOK, InLog, At
  <2> QED BY <2>2 DEF TaskOK
<1>3. OneHolder' /\ lock' \in [Workspaces -> Maybe(Tasks)]
    BY <1>1, HolderFrame DEF Unlock, Ws
<1>4. CloneBehind' /\ AgreedInHistory' /\ \A u \in Tasks : TaskOK(u)'
    BY <1>1, <1>2, QuietStep DEF sync
<1>5. TypeOK'
    BY <1>1, <1>3 DEF IInv, TypeOK, OnlyMoves, sync
<1> QED BY <1>3, <1>4, <1>5 DEF IInv

LEMMA AcquireInv == ASSUME IInv, NEW t \in Tasks, Acquire(t) PROVE IInv'
<1> DEFINE pc == IF task[t].pc = "lock" THEN "ensure" ELSE "settle"
<1>1. /\ task[t].pc \in Waiting /\ Goto(t, pc) /\ pc \in Phases /\ pc \in Holding
      /\ lock[task[t].ws] = None /\ lock' = [lock EXCEPT ![task[t].ws] = t]
      /\ UNCHANGED <<log, db, clone, agreed, conflicts, ops, edits, known, merged, purgedAt>>
    BY DEF Acquire, Ws, Phases, Holding, Waiting, sync, history
<1>2. /\ task[t] \in Task /\ PhaseOK(task[t]) /\ MergeOK(task[t]) /\ PushOK(task[t])
      /\ task[t].ws \in Workspaces /\ task[t].pc \notin Holding
    BY <1>1, Facts DEF Waiting, Holding
<1>3. PhaseOK(task[t])'
    BY <1>1, <1>2, GotoFacts DEF PhaseOK, Waiting
<1>4. TaskOK(t)'
    BY <1>1, <1>2, <1>3, GotoFacts DEF TaskOK, MergeOK, PushOK, InLog, At
<1>5. OnlyMoves(t) /\ task'[t].ws = task[t].ws
    BY <1>1, GotoFacts
<1>6. lock' \in [Workspaces -> Maybe(Tasks)]
    BY <1>1, <1>2 DEF IInv, TypeOK, Maybe
<1>7. OneHolder'
  <2>1. ASSUME NEW u \in Tasks \ {t}, task'[u].pc \in Holding
        PROVE  lock'[task'[u].ws] = u
    <3>1. task'[u] = task[u] /\ lock[task[u].ws] = u /\ task[u].ws \in Workspaces
        BY <1>5, <2>1, Facts DEF OnlyMoves
    <3> QED BY <1>1, <1>2, <3>1, NoneIsNothing DEF IInv, TypeOK
  <2>2. lock'[task'[t].ws] = t
    BY <1>1, <1>2, <1>5 DEF IInv, TypeOK
  <2> QED BY <2>1, <2>2 DEF OneHolder, Ws
<1>8. CloneBehind' /\ AgreedInHistory' /\ \A u \in Tasks : TaskOK(u)'
    BY <1>1, <1>4, <1>5, QuietStep
<1>9. TypeOK'
    BY <1>1, <1>5, <1>6 DEF IInv, TypeOK, OnlyMoves
<1> QED BY <1>7, <1>8, <1>9 DEF IInv

\* A step of the holder that changes its clone and moves to a phase with no
\* clause of its own; the remote stays.
LEMMA CloneGotoInv ==
    ASSUME IInv, NEW t \in Tasks, NEW c \in Clone, NEW pc \in {"attach", "config", "fetch"},
           task[t].pc \in Holding, Goto(t, pc), clone' = [clone EXCEPT ![Ws(t)] = c],
           c.origin <= Len(log), c.base <= Len(log), UnchangedButClone
    PROVE  IInv'
<1>1. /\ task[t].ws \in Workspaces /\ task[t] \in Task /\ PhaseOK(task[t]) /\ MergeOK(task[t])
      /\ task[t].pc # "idle"
    BY Facts
<1>2. UNCHANGED <<log, db, agreed, conflicts, lock, ops, edits, known, merged, purgedAt>>
    BY DEF UnchangedButClone, sync, history
<1>3. pc \in Phases /\ pc \in Holding
    BY DEF Phases, Holding
<1>4. OnlyMoves(t) /\ task'[t].pc = pc /\ task'[t].ws = task[t].ws
    BY <1>3, GotoFacts
<1>5. TaskOK(t)'
  <2>1. PhaseOK(task[t])'
    BY <1>1, <1>3, GotoFacts DEF PhaseOK
  <2>2. MergeOK(task[t])'
    BY <1>1, <1>2, <1>3, GotoFacts DEF MergeOK, InLog, At
  <2>3. PushOK(task[t])'
    BY <1>4 DEF PushOK
  <2> QED BY <2>1, <2>2, <2>3 DEF TaskOK
<1>6. OneHolder'
    BY <1>2, <1>4, <1>5, HolderFrame DEF TaskOK
<1>7. clone' \in [Workspaces -> Clone] /\ CloneBehind' /\ \A u \in Tasks : TaskOK(u)'
  <2>1. log \in Seq(Tree)
    BY DEF IInv, TypeOK
  <2>2. Len(log) <= Len(log') /\ Len(log') \in Nat /\ c.origin <= Len(log') /\ c.base <= Len(log')
    BY <1>2, <2>1 DEF Clone
  <2>3. (\A n \in 0 .. Len(log) : At(n)' = At(n)) /\ \A e, d : InLog(e, d) => InLog(e, d)'
    BY <1>2 DEF At, InLog
  <2> QED BY <1>1, <1>4, <1>5, <2>2, <2>3, HolderStep DEF Ws
<1>8. AgreedInHistory'
    BY <1>2 DEF IInv, AgreedInHistory
<1>9. TypeOK'
    BY <1>2, <1>4, <1>7 DEF IInv, TypeOK, OnlyMoves
<1> QED BY <1>6, <1>7, <1>8, <1>9 DEF IInv

LEMMA EnsureRepoInv == ASSUME IInv, NEW t \in Tasks, EnsureRepo(t) PROVE IInv'
<1>1. task[t].pc \in {"ensure", "attach", "config"}
    BY DEF EnsureRepo, EnsureDone, CloneRemote, InitLocal, AttachRemote, Configure
<1>2. /\ task[t] \in Task /\ PhaseOK(task[t]) /\ PushOK(task[t]) /\ task[t].pc \in Holding
      /\ task[t].ws \in Workspaces /\ task[t].pc # "idle"
    BY <1>1, Facts DEF Holding
<1>3. /\ clone[Ws(t)] \in Clone /\ clone[Ws(t)].origin <= Len(log)
      /\ clone[Ws(t)].base <= Len(log) /\ Len(log) \in Nat
    BY <1>2 DEF IInv, TypeOK, CloneBehind, Ws
<1>4. CASE EnsureDone(t)
  <2>1. Goto(t, "fetch") /\ "fetch" \in Phases /\ UNCHANGED clone /\ UnchangedButClone
    BY <1>4 DEF EnsureDone, Phases, Holding
  <2>2. PhaseOK(task[t])' /\ PushOK(task[t])'
    BY <1>2, <2>1, GotoFacts DEF PhaseOK, PushOK
  <2>3. db' \in [Workspaces -> Tree] /\ known' \in [Workspaces -> [Entities -> SUBSET Contents]]
    BY <2>1 DEF IInv, TypeOK, UnchangedButClone, history
  <2> QED BY <1>2, <2>1, <2>2, <2>3, GotoOnlyInv DEF UnchangedButClone, history
<1>5. CASE CloneRemote(t)
  <2> DEFINE c == [stage |-> "attached", origin |-> Len(log), base |-> Len(log), ahead |-> <<>>]
  <2>1. c \in Clone /\ c.origin <= Len(log) /\ c.base <= Len(log)
    BY <1>3 DEF Clone
  <2>2. clone' = [clone EXCEPT ![Ws(t)] = c] /\ Goto(t, "config") /\ UnchangedButClone
    BY <1>5 DEF CloneRemote
  <2> HIDE DEF c
  <2> QED BY <1>2, <2>1, <2>2, CloneGotoInv
<1>6. ASSUME NEW stage \in {"bare", "attached", "ready"}, NEW pc \in {"attach", "config", "fetch"},
             clone' = [clone EXCEPT ![Ws(t)].stage = stage], Goto(t, pc), UnchangedButClone
      PROVE  IInv'
  <2> DEFINE c == [clone[Ws(t)] EXCEPT !.stage = stage]
  <2>1. c \in Clone /\ c.origin <= Len(log) /\ c.base <= Len(log)
    BY <1>3 DEF Clone
  <2>2. clone' = [clone EXCEPT ![Ws(t)] = c]
    BY <1>6
  <2> HIDE DEF c
  <2> QED BY <1>2, <1>6, <2>1, <2>2, CloneGotoInv
<1>7. CASE InitLocal(t) \/ AttachRemote(t) \/ Configure(t)
    BY <1>6, <1>7 DEF InitLocal, AttachRemote, Configure
<1> QED BY <1>4, <1>5, <1>7 DEF EnsureRepo

LEMMA FetchNoHeadInv == ASSUME IInv, NEW t \in Tasks, FetchNoHead(t) PROVE IInv'
<1>1. /\ task[t].pc = "fetch" /\ task[t].pc \in Holding
      /\ UNCHANGED <<log, db, clone, sync, ops, edits, history>>
    BY DEF FetchNoHead, Holding
<1>2. CASE Finish(t)
    BY <1>1, <1>2, FinishOnlyInv
<1>3. ASSUME NEW pc \in {"purgeRow", "load"}, Goto(t, pc),
             \/ pc = "purgeRow" /\ task[t].op = "purge" /\ Unlock(t)
             \/ pc = "load" /\ task[t].op = "store" /\ UNCHANGED lock
      PROVE  IInv'
  <2>1. pc \in Phases /\ PhaseOK(task[t])
    BY Facts DEF Phases, Holding
  <2>2. PhaseOK(task[t])' /\ PushOK(task[t])'
    BY <1>3, <2>1, <1>1, GotoFacts DEF PhaseOK, PushOK
  <2>3. db' \in [Workspaces -> Tree] /\ known' \in [Workspaces -> [Entities -> SUBSET Contents]]
    BY <1>1 DEF IInv, TypeOK, history
  <2> QED BY <1>1, <1>3, <2>1, <2>2, <2>3, GotoOnlyInv DEF Holding, history
<1> QED BY <1>2, <1>3 DEF FetchNoHead, Leave

LEMMA FetchHeadInv == ASSUME IInv, NEW t \in Tasks, FetchHead(t) PROVE IInv'
<1>1. task[t].pc = "fetch" /\ task[t].pc \in Holding /\ log # <<>> /\ UnchangedButClone
    BY DEF FetchHead, Holding
<1>2. /\ task[t] \in Task /\ PhaseOK(task[t]) /\ MergeOK(task[t]) /\ task[t].ws \in Workspaces
    BY <1>1, Facts
<1>3. UNCHANGED <<log, db, agreed, conflicts, lock, ops, edits, known, merged, purgedAt>>
    BY <1>1 DEF UnchangedButClone, sync, history
<1>4. log \in Seq(Tree) /\ Len(log) \in Nat \ {0} /\ clone[task[t].ws] \in Clone
      /\ clone[task[t].ws].base <= Len(log) /\ agreed[task[t].ws] \in Tree
    BY <1>1, <1>2 DEF IInv, TypeOK, CloneBehind
<1> DEFINE w == task[t].ws
           c == IF task[t].op \in Resets
                THEN [clone[w] EXCEPT !.origin = Len(log), !.base = Len(log), !.ahead = <<>>]
                ELSE [clone[w] EXCEPT !.origin = Len(log)]
<1>5. c \in Clone /\ c.origin <= Len(log) /\ c.base <= Len(log)
      /\ (task[t].op \in Resets => c.ahead = <<>>)
  <2>1. CASE task[t].op \in Resets
    <3>1. c = [clone[w] EXCEPT !.origin = Len(log), !.base = Len(log), !.ahead = <<>>]
        BY <2>1
    <3>2. clone[w] \in Clone /\ Len(log) \in Nat /\ <<>> \in Seq(Tree)
        BY <1>4
    <3>3. /\ c.origin = Len(log) /\ c.base = Len(log) /\ c.ahead = <<>>
        BY <3>1, <3>2 DEF Clone
    <3>4. c \in Clone
        BY <3>1, <3>2 DEF Clone
    <3> QED BY <3>2, <3>3, <3>4
  <2>2. CASE task[t].op \notin Resets
    <3>1. c = [clone[w] EXCEPT !.origin = Len(log)]
        BY <2>2
    <3> QED BY <1>4, <2>2, <3>1 DEF Clone
  <2> QED BY <2>1, <2>2
<1>6. clone' = [clone EXCEPT ![w] = c]
    BY DEF FetchHead, Ws
<1> DEFINE p == IF task[t].op = "purge" THEN "mark" ELSE "merge"
           todo == {e \in Entities : log[Len(log)][e] # None}
<1> HIDE DEF c
<1>7. /\ OnlyMoves(t)
      /\ task'[t].pc = p /\ task'[t].todo = todo
      /\ task'[t].at = Len(log) /\ task'[t].agr = agreed[w]
      /\ task'[t].op = task[t].op /\ task'[t].ws = w /\ task'[t].ent = task[t].ent
  <2>1. p \in Phases /\ todo \in SUBSET Entities /\ Len(log) \in Nat
        /\ agreed[w] \in [Entities -> Maybe(Copy)]
    BY <1>4 DEF Phases, Holding, Tree
  <2>2. task' = [task EXCEPT ![t].pc = p, ![t].at = Len(log), ![t].todo = todo,
                             ![t].agr = agreed[w], ![t].conf = {}]
    BY DEF FetchHead, Ws
  <2>3. task \in [Tasks -> Task]
    BY DEF IInv, TypeOK
  <2> HIDE DEF p, todo
  <2>4. task'[t] = [task[t] EXCEPT !.pc = p, !.at = Len(log), !.todo = todo,
                                   !.agr = agreed[w], !.conf = {}]
    BY <2>2, <2>3
  <2>5. task'[t] \in Task
    BY <2>1, <2>3, <2>4 DEF Task
  <2>6. OnlyMoves(t)
    BY <2>2, <2>3, <2>5 DEF OnlyMoves
  <2> QED BY <2>3, <2>4, <2>6 DEF Task
<1>8. TaskOK(t)'
  <2>1. PhaseOK(task[t])'
    BY <1>1, <1>2, <1>7 DEF PhaseOK
  <2>2. MergeOK(task[t])'
    BY <1>2, <1>3, <1>4, <1>7 DEF MergeOK, At, InLog, IInv, AgreedInHistory
  <2>3. clone'[w] = c
    BY <1>2, <1>6 DEF IInv, TypeOK
  <2>4. PushOK(task[t])'
    BY <1>5, <1>7, <2>3 DEF PushOK, Resets
  <2> QED BY <2>1, <2>2, <2>4 DEF TaskOK
<1>9. OneHolder'
    BY <1>1, <1>3, <1>7, <1>8, HolderFrame DEF TaskOK
<1>10. clone' \in [Workspaces -> Clone] /\ CloneBehind' /\ \A u \in Tasks : TaskOK(u)'
  <2>1. (\A n \in 0 .. Len(log) : At(n)' = At(n)) /\ \A e, d : InLog(e, d) => InLog(e, d)'
    BY <1>3 DEF At, InLog
  <2>2. Len(log) <= Len(log') /\ Len(log') \in Nat /\ c.origin <= Len(log') /\ c.base <= Len(log')
    BY <1>3, <1>4, <1>5
  <2> QED BY <1>1, <1>2, <1>5, <1>6, <1>7, <1>8, <2>1, <2>2, HolderStep
<1>11. AgreedInHistory'
    BY <1>3 DEF IInv, AgreedInHistory
<1>12. TypeOK'
    BY <1>3, <1>7, <1>10 DEF IInv, TypeOK, OnlyMoves
<1> QED BY <1>9, <1>10, <1>11, <1>12 DEF IInv

\* The copies a merge compares with are published ones.
LEMMA RepoCopyInLog ==
    ASSUME IInv, NEW t \in Tasks, NEW e \in task[t].todo
    PROVE  /\ e \in Entities /\ RepoCopy(t, e) \in Copy /\ InLog(e, RepoCopy(t, e))
<1>1. /\ e \in Entities /\ task[t].at \in 0 .. Len(log) /\ At(task[t].at)[e] # None
      /\ Len(log) \in Nat
    BY Facts DEF MergeOK, Task, IInv, TypeOK
<1>2. task[t].at # 0
    BY <1>1 DEF At, EmptyTree
<1>3. At(task[t].at) \in Tree /\ At(task[t].at) = log[task[t].at]
    BY <1>1, <1>2, AtIsTree DEF IInv, At
<1> QED BY <1>1, <1>2, <1>3 DEF RepoCopy, InLog, Tree, Maybe

\* A step of a merge: rows aside, it only moves its own locals, and what it newly
\* takes as agreed is the repository's copy of an entity it had still to do.
LEMMA MergeStepInv ==
    ASSUME IInv, NEW t \in Tasks, OnlyMoves(t),
           task[t].pc \in {"merge", "import", "flip"},
           task'[t].pc \in {"merge", "import", "flip"},
           task'[t].op = task[t].op, task'[t].ws = task[t].ws,
           task'[t].ent = task[t].ent, task'[t].at = task[t].at,
           task'[t].todo \subseteq task[t].todo,
           task'[t].pc # "merge" => task'[t].cur \in task'[t].todo,
           \A e \in Entities : \/ task'[t].agr[e] = task[t].agr[e]
                               \/ e \in task[t].todo /\ task'[t].agr[e] = RepoCopy(t, e),
           UNCHANGED <<log, clone, sync, lock, ops, edits, merged, purgedAt>>,
           db' \in [Workspaces -> Tree], known' \in [Workspaces -> [Entities -> SUBSET Contents]]
    PROVE  IInv'
<1>1. PhaseOK(task[t]) /\ MergeOK(task[t]) /\ task[t].pc \in Holding /\ task[t].pc # "idle"
    BY Facts DEF Holding
<1>2. UNCHANGED <<log, clone, agreed, conflicts, lock, ops, edits, merged, purgedAt>>
    BY DEF sync
<1>3. PhaseOK(task[t])'
    BY <1>1 DEF PhaseOK
<1>4. MergeOK(task[t])'
  <2>1. ASSUME NEW e \in Entities, task'[t].agr[e] # None PROVE InLog(e, task'[t].agr[e])
    BY <1>1, <2>1, RepoCopyInLog DEF MergeOK
  <2>2. \A e \in task'[t].todo : At(task'[t].at)[e] # None
    BY <1>1 DEF MergeOK
  <2> QED BY <1>1, <1>2, <2>1, <2>2 DEF MergeOK, InLog, At
<1>5. PushOK(task[t])'
    BY DEF PushOK
<1>6. TaskOK(t)'
    BY <1>3, <1>4, <1>5 DEF TaskOK
<1>7. OneHolder'
    BY <1>1, <1>2, <1>3, HolderFrame
<1>8. CloneBehind' /\ AgreedInHistory' /\ \A u \in Tasks : TaskOK(u)'
    BY <1>2, <1>6, QuietStep
<1>9. TypeOK'
    BY <1>2 DEF IInv, TypeOK, OnlyMoves
<1> QED BY <1>7, <1>8, <1>9 DEF IInv

LEMMA MergeCompareInv ==
    ASSUME IInv, NEW t \in Tasks, NEW e \in Entities,
           MergeLocalChange(t, e) \/ MergeSame(t, e) \/ MergeDecide(t, e) \/ MergeConflict(t, e)
    PROVE  IInv'
<1>1. task[t].pc = "merge" /\ e \in task[t].todo /\ UnchangedButTask
    BY DEF MergeLocalChange, MergeSame, MergeDecide, MergeConflict, AtMerge
<1>2. /\ UNCHANGED <<log, clone, sync, lock, ops, edits, merged, purgedAt>>
      /\ db' \in [Workspaces -> Tree] /\ known' \in [Workspaces -> [Entities -> SUBSET Contents]]
    BY <1>1 DEF UnchangedButTask, history, IInv, TypeOK
<1>3. /\ task \in [Tasks -> Task] /\ task[t] \in Task /\ RepoCopy(t, e) \in Maybe(Copy)
      /\ task[t].agr \in [Entities -> Maybe(Copy)]
    BY <1>1, RepoCopyInLog DEF IInv, TypeOK, Task, Maybe
<1>4. CASE MergeLocalChange(t, e)
  <2>1. task' = [task EXCEPT ![t].todo = @ \ {e}]
    BY <1>4 DEF MergeLocalChange
  <2>2. OnlyMoves(t)
    BY <1>3, <2>1 DEF OnlyMoves, Task
  <2> QED BY <1>1, <1>2, <1>3, <2>1, <2>2, MergeStepInv DEF Task
<1>5. CASE MergeSame(t, e)
  <2>1. task' = [task EXCEPT ![t].todo = @ \ {e}, ![t].agr[e] = RepoCopy(t, e)]
    BY <1>5 DEF MergeSame
  <2>2. OnlyMoves(t)
    BY <1>3, <2>1 DEF OnlyMoves, Task
  <2> QED BY <1>1, <1>2, <1>3, <2>1, <2>2, MergeStepInv DEF Task
<1>6. CASE MergeDecide(t, e)
  <2>1. PICK pc \in {"import", "flip"} : task' = [task EXCEPT ![t].pc = pc, ![t].cur = e]
    BY <1>6 DEF MergeDecide
  <2>2. OnlyMoves(t)
    <3>1. pc \in Phases /\ e \in Maybe(Entities)
      BY DEF Phases, Holding, Maybe
    <3>2. [task[t] EXCEPT !.pc = pc, !.cur = e] \in Task
      BY <1>3, <3>1 DEF Task
    <3> QED BY <1>3, <2>1, <3>2, Zenon DEF OnlyMoves
  <2> QED BY <1>1, <1>2, <1>3, <2>1, <2>2, MergeStepInv DEF Task
<1>7. CASE MergeConflict(t, e)
  <2>1. task' = [task EXCEPT ![t].todo = @ \ {e}, ![t].conf = @ \cup {e}]
    BY <1>7 DEF MergeConflict
  <2>2. OnlyMoves(t)
    BY <1>3, <2>1 DEF OnlyMoves, Task
  <2> QED BY <1>1, <1>2, <1>3, <2>1, <2>2, MergeStepInv DEF Task
<1> QED BY <1>4, <1>5, <1>6, <1>7

LEMMA MergedFacts ==
    ASSUME IInv, NEW t \in Tasks, NEW agree \in BOOLEAN, Merged(t, agree),
           task[t].pc \in {"import", "flip"}
    PROVE  /\ OnlyMoves(t)
           /\ task'[t].pc = "merge"
           /\ task'[t].op = task[t].op /\ task'[t].ws = task[t].ws
           /\ task'[t].ent = task[t].ent /\ task'[t].at = task[t].at
           /\ task'[t].todo \subseteq task[t].todo
           /\ \A e \in Entities : \/ task'[t].agr[e] = task[t].agr[e]
                                  \/ e \in task[t].todo /\ task'[t].agr[e] = RepoCopy(t, e)
<1> DEFINE cur == task[t].cur
           new == IF agree THEN RepoCopy(t, cur) ELSE task[t].agr[cur]
<1>1. cur \in task[t].todo /\ task[t] \in Task /\ task \in [Tasks -> Task]
    BY Facts DEF PhaseOK, IInv, TypeOK
<1>2. new \in Maybe(Copy)
    BY <1>1, RepoCopyInLog DEF Task, Maybe
<1>3. task' = [task EXCEPT ![t].pc = "merge", ![t].cur = None, ![t].todo = @ \ {cur},
                           ![t].agr[cur] = new]
    BY <1>1 DEF Merged, Task
<1>4. new = RepoCopy(t, cur) \/ new = task[t].agr[cur]
    OBVIOUS
<1> HIDE DEF new
<1> DEFINE agr == [task[t].agr EXCEPT ![cur] = new]
           todo == task[t].todo \ {cur}
<1>5. task'[t] = [task[t] EXCEPT !.pc = "merge", !.cur = None, !.todo = todo, !.agr = agr]
    BY <1>1, <1>3 DEF Task
<1>6. task'[t] \in Task
  <2>1. agr \in [Entities -> Maybe(Copy)] /\ todo \in SUBSET Entities
    BY <1>1, <1>2 DEF Task
  <2>2. None \in Maybe(Entities) /\ "merge" \in Phases
    BY DEF Maybe, Phases, Holding
  <2> HIDE DEF agr, todo
  <2> QED BY <1>1, <1>5, <2>1, <2>2 DEF Task
<1>7. OnlyMoves(t)
    BY <1>1, <1>3, <1>6 DEF OnlyMoves
<1> QED BY <1>1, <1>4, <1>5, <1>7 DEF Task

LEMMA MergeWriteInv ==
    ASSUME IInv, NEW t \in Tasks, MergeImport(t) \/ MergeFlip(t)
    PROVE  IInv'
<1> DEFINE e == task[t].cur
           w == task[t].ws
<1>1. task[t].pc \in {"import", "flip"} /\ e \in task[t].todo
    BY Facts DEF PhaseOK, MergeImport, MergeFlip
<1>2. w \in Workspaces /\ e \in Entities /\ RepoCopy(t, e) \in Copy
    BY <1>1, Facts, RepoCopyInLog
<1>3. UNCHANGED <<log, clone, sync, lock, ops, edits, merged, purgedAt>>
    BY DEF MergeImport, MergeFlip, history
<1>4. PICK agree \in BOOLEAN : Merged(t, agree)
    BY DEF MergeImport, MergeFlip, Row
<1>5. db \in [Workspaces -> Tree] /\ known \in [Workspaces -> [Entities -> SUBSET Contents]]
    BY DEF IInv, TypeOK
<1>6. db' \in [Workspaces -> Tree] /\ known' \in [Workspaces -> [Entities -> SUBSET Contents]]
  <2>1. CASE MergeImport(t)
    <3>1. SetRow(w, e, RepoCopy(t, e))
        BY <2>1 DEF MergeImport, Ws
    <3>2. RepoCopy(t, e).content \in Contents
        BY <1>2 DEF Copy
    <3> QED BY <1>2, <1>5, <3>1, <3>2 DEF SetRow, Tree, Maybe
  <2>2. CASE MergeFlip(t)
    <3>1. known' = known /\ RepoCopy(t, e).deleted \in BOOLEAN
        BY <1>2, <2>2 DEF MergeFlip, history, Copy
    <3>2. CASE db[w][e] = None
        BY <1>5, <2>2, <3>1, <3>2 DEF MergeFlip, Row, Ws
    <3>3. CASE db[w][e] # None
        <4>1. db' = [db EXCEPT ![w][e].deleted = RepoCopy(t, e).deleted]
            BY <2>2, <3>3 DEF MergeFlip, Row, Ws
        <4>2. db[w][e] \in Copy
            BY <1>2, <1>5, <3>3 DEF Tree, Maybe
        <4>3. [db[w][e] EXCEPT !.deleted = RepoCopy(t, e).deleted] \in Copy
            BY <3>1, <4>2 DEF Copy
        <4> QED BY <1>2, <1>5, <3>1, <4>1, <4>3 DEF Tree, Maybe
    <3> QED BY <3>2, <3>3
  <2> QED BY <2>1, <2>2
<1> QED BY <1>1, <1>3, <1>4, <1>6, MergedFacts, MergeStepInv

LEMMA MergeSaveInv == ASSUME IInv, NEW t \in Tasks, MergeSave(t) PROVE IInv'
<1> DEFINE w == task[t].ws
<1>1. /\ task[t].pc = "merge" /\ task[t].pc \in Holding /\ task[t].pc # "idle"
      /\ task[t] \in Task /\ w \in Workspaces
      /\ PhaseOK(task[t]) /\ MergeOK(task[t]) /\ PushOK(task[t])
    BY Facts DEF MergeSave, Holding
<1>2. /\ agreed' = [agreed EXCEPT ![w] = task[t].agr]
      /\ conflicts' = [conflicts EXCEPT ![w] = task[t].conf]
      /\ merged' = [merged EXCEPT ![w] = [e \in Entities |-> task[t].at]]
      /\ UNCHANGED <<log, db, clone, ops, edits, known, purgedAt>>
    BY DEF MergeSave, Ws
<1>3. /\ agreed' \in [Workspaces -> Tree] /\ conflicts' \in [Workspaces -> SUBSET Entities]
      /\ merged' \in [Workspaces -> [Entities -> Nat]]
    BY <1>1, <1>2 DEF IInv, TypeOK, Task, Tree
<1>4. AgreedInHistory'
    BY <1>1, <1>2 DEF IInv, TypeOK, AgreedInHistory, MergeOK, InLog
<1>5. OnlyMoves(t) /\ TaskOK(t)' /\ OneHolder' /\ lock' \in [Workspaces -> Maybe(Tasks)]
  <2>1. CASE Finish(t)
    BY <1>1, <1>2, <2>1, FinishFacts DEF IInv, TypeOK
  <2>2. ASSUME NEW pc \in {"load", "read"}, Goto(t, pc), UNCHANGED lock,
               pc = "load" => task[t].op = "store", pc = "read" => task[t].op = "restore"
        PROVE  OnlyMoves(t) /\ TaskOK(t)' /\ OneHolder' /\ lock' \in [Workspaces -> Maybe(Tasks)]
    <3>1. pc \in Phases /\ pc \in Holding
        BY DEF Phases, Holding
    <3>2. PhaseOK(task[t])'
        BY <1>1, <2>2, <3>1, GotoFacts DEF PhaseOK
    <3>3. MergeOK(task[t])'
        BY <1>1, <1>2, <2>2, <3>1, GotoFacts DEF MergeOK, InLog, At
    <3>4. PushOK(task[t])'
        BY <2>2, <3>1, GotoFacts DEF PushOK
    <3> QED BY <1>1, <2>2, <3>1, <3>2, <3>3, <3>4, GotoFacts, HolderFrame DEF TaskOK
  <2> QED BY <2>1, <2>2 DEF MergeSave
<1>6. CloneBehind' /\ \A u \in Tasks : TaskOK(u)'
    <2>1. \A u \in Tasks \ {t} : TaskOK(u)'
        BY <1>2, <1>5, TaskFrame DEF IInv, OnlyMoves
    <2>2. CloneBehind'
        BY <1>2 DEF IInv, CloneBehind
    <2> QED BY <1>5, <2>1, <2>2
<1>7. TypeOK'
    BY <1>2, <1>3, <1>5 DEF IInv, TypeOK, OnlyMoves
<1> QED BY <1>4, <1>5, <1>6, <1>7 DEF IInv

LEMMA MergeInv == ASSUME IInv, NEW t \in Tasks, Merge(t) PROVE IInv'
BY MergeCompareInv, MergeWriteInv, MergeSaveInv DEF Merge

LEMMA CommitFacts ==
    ASSUME IInv, NEW w \in Workspaces, NEW e \in Entities, NEW copy \in Maybe(Copy)
    PROVE  LET c == Commit(clone[w], e, copy) IN
           /\ c \in Clone /\ c.origin <= Len(log) /\ c.base <= Len(log)
           /\ c.ahead # <<>> /\ HeadTree(c)[e] = copy
<1> DEFINE T == [HeadTree(clone[w]) EXCEPT ![e] = copy]
           c == [clone[w] EXCEPT !.ahead = Append(@, T)]
<1>1. T \in Tree /\ T[e] = copy
    BY HeadIsTree DEF IInv, Tree
<1>2. clone[w] \in Clone /\ clone[w].origin <= Len(log) /\ clone[w].base <= Len(log)
    BY DEF IInv, TypeOK, CloneBehind
<1>3. clone[w].ahead \in Seq(Tree)
    BY <1>2 DEF Clone
<1> HIDE DEF T
<1>4. c.ahead = Append(clone[w].ahead, T) /\ c.origin = clone[w].origin /\ c.base = clone[w].base
    BY <1>2 DEF Clone
<1>5. c \in Clone
  <2>1. Append(clone[w].ahead, T) \in Seq(Tree)
    BY <1>1, <1>3
  <2> QED BY <1>2, <2>1 DEF Clone
<1>6. c.ahead # <<>> /\ c.ahead[Len(c.ahead)] = T
    BY <1>1, <1>3, <1>4
<1>7. HeadTree(c)[e] = copy
    BY <1>1, <1>6 DEF HeadTree
<1>8. c = Commit(clone[w], e, copy)
    BY DEF Commit, T
<1> HIDE DEF c
<1> QED BY <1>2, <1>4, <1>5, <1>6, <1>7, <1>8

LEMMA SettleFacts ==
    ASSUME IInv, NEW w \in Workspaces, NEW e \in Entities, NEW c \in Maybe(Copy),
           SettleOn(w, e, c), c # None => InLog(e, c), log' = log
    PROVE  /\ agreed' \in [Workspaces -> Tree] /\ conflicts' \in [Workspaces -> SUBSET Entities]
           /\ AgreedInHistory'
<1>1. agreed \in [Workspaces -> Tree] /\ conflicts \in [Workspaces -> SUBSET Entities]
    BY DEF IInv, TypeOK
<1>2. agreed' \in [Workspaces -> Tree] /\ conflicts' \in [Workspaces -> SUBSET Entities]
    BY <1>1 DEF SettleOn, Tree
<1>3. \A v \in Workspaces, f \in Entities :
          agreed'[v][f] = agreed[v][f] \/ (v = w /\ f = e /\ c # None /\ agreed'[v][f] = c)
    BY <1>1 DEF SettleOn, Tree
<1>4. AgreedInHistory'
    BY <1>3 DEF IInv, AgreedInHistory, InLog
<1> QED BY <1>2, <1>4

LEMMA SeenType ==
    ASSUME IInv, NEW w \in Workspaces, NEW e \in Entities, NEW n \in Nat, n <= Len(log),
           Seen(w, e, n)
    PROVE  known' \in [Workspaces -> [Entities -> SUBSET Contents]]
<1>1. At(n)[e] \in Maybe(Copy) /\ known \in [Workspaces -> [Entities -> SUBSET Contents]]
    BY AtIsTree DEF IInv, TypeOK, Tree
<1>2. At(n)[e] # None => At(n)[e].content \in Contents
    BY <1>1 DEF Maybe, Copy
<1> QED BY <1>1, <1>2 DEF Seen

\* What a holder's request is about, once it is past the merge.
LEMMA EntityFacts ==
    ASSUME IInv, NEW t \in Tasks,
           task[t].pc \in {"load", "push", "agree", "mark", "purgeRow", "read", "write", "settle"}
    PROVE  /\ task[t].ent \in Entities /\ task[t].ws \in Workspaces
           /\ task[t].at \in Nat /\ task[t].at <= Len(log)
           /\ task[t].copy \in Maybe(Copy)
           /\ Len(log) \in Nat
           /\ clone[task[t].ws] \in Clone
           /\ clone[task[t].ws].base <= Len(log) /\ clone[task[t].ws].origin <= Len(log)
BY Facts DEF PhaseOK, MergeOK, Task, IInv, TypeOK, CloneBehind

LEMMA StoreInv ==
    ASSUME IInv, NEW t \in Tasks,
           StoreMissing(t) \/ StoreNoChanges(t) \/ StoreCommit(t) \/ StoreAgree(t)
    PROVE  IInv'
<1> DEFINE w == task[t].ws
           e == task[t].ent
<1>1. task[t].pc \in {"load", "agree"} /\ task[t].pc \in Holding
    BY DEF StoreMissing, StoreNoChanges, StoreCommit, StoreAgree, Holding
<1>2. /\ task[t] \in Task /\ PhaseOK(task[t]) /\ MergeOK(task[t]) /\ PushOK(task[t])
      /\ w \in Workspaces /\ e \in Entities /\ task[t].op = "store"
    BY <1>1, Facts, EntityFacts DEF PhaseOK
<1>3. CASE StoreMissing(t) \/ StoreNoChanges(t)
    BY <1>1, <1>3, FinishOnlyInv DEF StoreMissing, StoreNoChanges
<1>4. CASE StoreCommit(t)
  <2> DEFINE row == db[w][e]
             c == Commit(clone[w], e, row)
  <2>1. /\ row # None /\ row \in Maybe(Copy)
        /\ clone' = [clone EXCEPT ![w] = c]
        /\ task' = [task EXCEPT ![t].pc = "push", ![t].copy = row]
        /\ UNCHANGED <<log, db, agreed, conflicts, lock, ops, edits, known, merged, purgedAt>>
    BY <1>2, <1>4 DEF StoreCommit, Row, Ws, Ent, IInv, TypeOK, Tree, UnchangedButClone, sync, history
  <2>2. c \in Clone /\ c.origin <= Len(log) /\ c.base <= Len(log)
        /\ c.ahead # <<>> /\ HeadTree(c)[e] = row
    BY <1>2, <2>1, CommitFacts
  <2> HIDE DEF c
  <2>3. /\ OnlyMoves(t) /\ task'[t].pc = "push" /\ task'[t].copy = row /\ task'[t].op = "store"
        /\ task'[t].ws = w /\ task'[t].ent = e /\ task'[t].at = task[t].at
        /\ task'[t].todo = task[t].todo /\ task'[t].agr = task[t].agr
    BY <1>2, <2>1 DEF IInv, TypeOK, OnlyMoves, Task, Phases, Holding
  <2>4. TaskOK(t)'
    <3>1. PhaseOK(task[t])'
        BY <1>2, <2>3 DEF PhaseOK
    <3>2. MergeOK(task[t])'
      <4>1. MergeOK(task[t]) /\ log' = log
        BY <1>2, <2>1
      <4> QED BY <2>3, <4>1 DEF MergeOK, InLog, At
    <3>3. clone'[w] = c
        BY <1>2, <2>1 DEF IInv, TypeOK
    <3>4. PushOK(task[t])'
        BY <2>1, <2>2, <2>3, <3>3 DEF PushOK, HeadTree, At
    <3> QED BY <3>1, <3>2, <3>4 DEF TaskOK
  <2>5. OneHolder'
    BY <1>1, <2>1, <2>3, <2>4, HolderFrame DEF TaskOK
  <2>6. clone' \in [Workspaces -> Clone] /\ CloneBehind' /\ \A u \in Tasks : TaskOK(u)'
    <3>1. (\A n \in 0 .. Len(log) : At(n)' = At(n)) /\ \A f, d : InLog(f, d) => InLog(f, d)'
        BY <2>1 DEF At, InLog
    <3>2. Len(log) <= Len(log') /\ Len(log') \in Nat /\ c.origin <= Len(log') /\ c.base <= Len(log')
        BY <2>1, <2>2 DEF IInv, TypeOK
    <3> QED BY <1>1, <1>2, <2>1, <2>2, <2>3, <2>4, <3>1, <3>2, HolderStep
  <2>7. AgreedInHistory'
    BY <2>1 DEF IInv, AgreedInHistory
  <2>8. TypeOK'
    BY <2>1, <2>3, <2>6 DEF IInv, TypeOK, OnlyMoves
  <2> QED BY <2>5, <2>6, <2>7, <2>8 DEF IInv
<1>5. CASE StoreAgree(t)
  <2>1. /\ SettleOn(w, e, task[t].copy) /\ Finish(t) /\ task[t].pc = "agree"
        /\ UNCHANGED <<log, db, clone, ops, edits, known, merged, purgedAt>>
    BY <1>5 DEF StoreAgree, Ws, Ent, history
  <2>2. task[t].copy \in Maybe(Copy) /\ InLog(e, task[t].copy)
    BY <1>2, <2>1 DEF Task, PushOK
  <2>3. /\ agreed' \in [Workspaces -> Tree] /\ conflicts' \in [Workspaces -> SUBSET Entities]
        /\ AgreedInHistory'
    BY <1>2, <2>1, <2>2, SettleFacts
  <2>4. OnlyMoves(t) /\ TaskOK(t)' /\ OneHolder' /\ lock' \in [Workspaces -> Maybe(Tasks)]
    BY <1>1, <2>1, FinishFacts DEF IInv, TypeOK
  <2>5. CloneBehind' /\ \A u \in Tasks : TaskOK(u)'
    BY <2>1, <2>4, OthersStand
  <2>6. TypeOK'
    BY <2>1, <2>3, <2>4 DEF IInv, TypeOK, OnlyMoves
  <2> QED BY <2>3, <2>4, <2>5, <2>6 DEF IInv
<1> QED BY <1>3, <1>4, <1>5

LEMMA PushLandsFacts ==
    ASSUME IInv, NEW t \in Tasks, PushLands(t), agreed' = agreed
    PROVE  /\ task[t].pc = "push" /\ task[t].pc \in Holding
           /\ clone[task[t].ws].ahead \in Seq(Tree)
           /\ log' = log \o clone[task[t].ws].ahead
           /\ log' \in Seq(Tree) /\ Len(log) <= Len(log') /\ Len(log') \in Nat
           /\ \A n \in 0 .. Len(log) : At(n)' = At(n)
           /\ \A e, d : InLog(e, d) => InLog(e, d)'
           /\ known' \in [Workspaces -> [Entities -> SUBSET Contents]]
           /\ AgreedInHistory'
           /\ \A e, c : task[t].op = "store" /\ e = task[t].ent /\ c = task[t].copy => InLog(e, c)'
<1> DEFINE w == task[t].ws
           a == clone[w].ahead
<1>1. task[t].pc = "push" /\ task[t].pc \in Holding /\ log' = log \o a /\ Seen(w, task[t].ent, Len(log))
    BY DEF PushLands, Holding, Ws, Ent
<1>2. /\ task[t].ent \in Entities /\ w \in Workspaces /\ clone[w] \in Clone /\ Len(log) \in Nat
      /\ a \in Seq(Tree) /\ a # <<>>
    BY <1>1, EntityFacts, Facts DEF Clone, PushOK
<1>3. /\ log' \in Seq(Tree) /\ Len(log') = Len(log) + Len(a)
      /\ \A n \in 1 .. Len(a) : log'[Len(log) + n] = a[n]
      /\ \A n \in 0 .. Len(log) : At(n)' = At(n)
      /\ \A e, d : InLog(e, d) => InLog(e, d)'
    BY <1>1, <1>2, LogGrows DEF IInv
<1>4. known' \in [Workspaces -> [Entities -> SUBSET Contents]]
    BY <1>1, <1>2, SeenType
<1>5. AgreedInHistory'
    BY <1>3 DEF IInv, AgreedInHistory, InLog
<1>6. ASSUME task[t].op = "store", NEW e, NEW c, e = task[t].ent, c = task[t].copy
      PROVE  InLog(e, c)'
  <2>1. a[Len(a)][e] = c
    BY <1>1, <1>2, <1>6, Facts DEF PushOK, HeadTree
  <2>2. Len(a) \in 1 .. Len(a) /\ Len(log) + Len(a) \in 1 .. Len(log')
    BY <1>2, <1>3
  <2> QED BY <1>3, <2>1, <2>2 DEF InLog
<1>7. Len(log) <= Len(log') /\ Len(log') \in Nat
    BY <1>2, <1>3
<1>8. \A e, c : task[t].op = "store" /\ e = task[t].ent /\ c = task[t].copy => InLog(e, c)'
    BY <1>6
<1> QED BY <1>1, <1>2, <1>3, <1>4, <1>5, <1>7, <1>8

LEMMA PushInv == ASSUME IInv, NEW t \in Tasks, Push(t) PROVE IInv'
<1> DEFINE w == task[t].ws
<1>1. task[t].pc = "push" /\ task[t].pc \in Holding /\ task[t].pc # "idle"
    BY DEF Push, PushOk, PushLost, PushRejected, PushLands, Holding
<1>2. /\ task[t] \in Task /\ PhaseOK(task[t]) /\ MergeOK(task[t]) /\ w \in Workspaces
      /\ task[t].ent \in Entities /\ clone[w] \in Clone /\ Len(log) \in Nat
      /\ clone[w].base <= Len(log) /\ clone[w].origin <= Len(log)
    BY <1>1, Facts, EntityFacts
<1>3. CASE PushOk(t)
  <2> DEFINE c == [clone[w] EXCEPT !.origin = Len(log'), !.base = Len(log'), !.ahead = <<>>]
             pc == IF task[t].op = "store" THEN "agree" ELSE "purgeRow"
  <2>1. /\ PushLands(t) /\ clone' = [clone EXCEPT ![w] = c]
        /\ UNCHANGED <<db, agreed, conflicts, ops, edits, merged>>
    BY <1>3 DEF PushOk, Ws, sync
  <2>2. /\ log' \in Seq(Tree) /\ Len(log) <= Len(log') /\ Len(log') \in Nat
        /\ \A n \in 0 .. Len(log) : At(n)' = At(n)
        /\ \A e, d : InLog(e, d) => InLog(e, d)'
        /\ known' \in [Workspaces -> [Entities -> SUBSET Contents]]
        /\ AgreedInHistory'
        /\ \A e, d : task[t].op = "store" /\ e = task[t].ent /\ d = task[t].copy => InLog(e, d)'
    BY <2>1, PushLandsFacts
  <2>3. c \in Clone /\ c.origin = Len(log') /\ c.base = Len(log') /\ c.ahead = <<>>
    <3>1. <<>> \in Seq(Tree)
        OBVIOUS
    <3> QED BY <1>2, <2>2, <3>1 DEF Clone
  <2> HIDE DEF c
  <2>4. /\ Goto(t, pc) /\ pc \in Phases
        /\ \/ task[t].op = "store" /\ pc = "agree" /\ UNCHANGED <<lock, purgedAt>>
           \/ /\ task[t].op = "purge" /\ pc = "purgeRow" /\ Unlock(t)
              /\ purgedAt' = [purgedAt EXCEPT ![w][task[t].ent] = Len(log')]
    BY <1>3 DEF PushOk, Leave, Phases, Holding, Ws, Ent
  <2>5. TaskOK(t)'
    <3>1. PhaseOK(task[t])'
        BY <1>1, <1>2, <2>4, GotoFacts, Facts DEF PhaseOK, PushOK
    <3>2. MergeOK(task[t])'
      <4>1. task[t].at \in 0 .. Len(log)
        BY <1>2 DEF Task, MergeOK
      <4> QED BY <1>2, <2>2, <2>4, <4>1, GotoFacts DEF MergeOK, Task
    <3>3. PushOK(task[t])'
        BY <2>2, <2>4, GotoFacts DEF PushOK
    <3> QED BY <3>1, <3>2, <3>3 DEF TaskOK
  <2>6. OnlyMoves(t) /\ task'[t].ws = w
    BY <2>4, GotoFacts
  <2>7. OneHolder' /\ lock' \in [Workspaces -> Maybe(Tasks)]
    BY <1>1, <2>4, <2>5, <2>6, GotoFacts, HolderFrame DEF TaskOK, Unlock, Ws, Holding
  <2>8. clone' \in [Workspaces -> Clone] /\ CloneBehind' /\ \A u \in Tasks : TaskOK(u)'
    <3>1. c.origin <= Len(log') /\ c.base <= Len(log')
        BY <2>2, <2>3
    <3>2. /\ \A n \in 0 .. Len(log) : At(n)' = At(n)
          /\ \A e, d : InLog(e, d) => InLog(e, d)'
        BY <2>2
    <3> QED BY <1>1, <1>2, <2>1, <2>2, <2>3, <2>5, <2>6, <3>1, <3>2, HolderStep
  <2>9. purgedAt' \in [Workspaces -> [Entities -> Nat]]
    <3>1. purgedAt \in [Workspaces -> [Entities -> Nat]]
        BY DEF IInv, TypeOK
    <3>2. CASE UNCHANGED purgedAt
        BY <3>1, <3>2
    <3>3. CASE purgedAt' = [purgedAt EXCEPT ![w][task[t].ent] = Len(log')]
        BY <1>2, <2>2, <3>1, <3>3
    <3> QED BY <2>4, <3>2, <3>3
  <2>10. TypeOK'
    BY <2>1, <2>2, <2>6, <2>7, <2>8, <2>9 DEF IInv, TypeOK, OnlyMoves
  <2> QED BY <2>2, <2>7, <2>8, <2>10 DEF IInv
<1>4. CASE PushLost(t)
  <2>1. /\ PushLands(t) /\ Finish(t)
        /\ UNCHANGED <<db, clone, agreed, conflicts, ops, edits, merged, purgedAt>>
    BY <1>4 DEF PushLost, sync
  <2>2. /\ log' \in Seq(Tree) /\ Len(log) <= Len(log') /\ Len(log') \in Nat
        /\ \A n \in 0 .. Len(log) : At(n)' = At(n)
        /\ \A e, d : InLog(e, d) => InLog(e, d)'
        /\ known' \in [Workspaces -> [Entities -> SUBSET Contents]]
        /\ AgreedInHistory'
    BY <2>1, PushLandsFacts
  <2>3. OnlyMoves(t) /\ TaskOK(t)' /\ OneHolder' /\ lock' \in [Workspaces -> Maybe(Tasks)]
    BY <1>1, <2>1, <2>2, FinishFacts
  <2>4. clone' = [clone EXCEPT ![w] = clone[w]]
    BY <2>1 DEF IInv, TypeOK
  <2>5. clone[w].origin <= Len(log') /\ clone[w].base <= Len(log')
    BY <1>2, <2>2 DEF Clone
  <2>6. clone' \in [Workspaces -> Clone] /\ CloneBehind' /\ \A u \in Tasks : TaskOK(u)'
    BY <1>1, <1>2, <2>2, <2>3, <2>4, <2>5, HolderStep
  <2>7. TypeOK'
    BY <2>1, <2>2, <2>3, <2>6 DEF IInv, TypeOK, OnlyMoves
  <2> QED BY <2>2, <2>3, <2>6, <2>7 DEF IInv
<1>5. CASE PushRejected(t)
  <2>1. UNCHANGED <<log, db, clone, sync, ops, edits, history>>
    BY <1>5 DEF PushRejected
  <2>2. CASE Finish(t)
    BY <1>1, <2>1, <2>2, FinishOnlyInv
  <2>3. CASE UNCHANGED lock
             /\ task' = [task EXCEPT ![t].pc = "ensure", ![t].attempt = 2, ![t].copy = None]
    <3>1. None \in Maybe(Copy) /\ "ensure" \in Phases /\ 2 \in 1 .. 2
        BY DEF Maybe, Phases, Holding
    <3>2. /\ OnlyMoves(t) /\ task'[t].pc = "ensure" /\ task'[t].op = task[t].op
          /\ task'[t].ws = w /\ task'[t].ent = task[t].ent /\ task'[t].at = task[t].at
          /\ task'[t].todo = task[t].todo /\ task'[t].agr = task[t].agr
        BY <1>2, <2>3, <3>1 DEF IInv, TypeOK, OnlyMoves, Task
    <3>3. TaskOK(t)'
        BY <1>1, <1>2, <2>1, <3>2 DEF TaskOK, PhaseOK, MergeOK, PushOK, InLog, At
    <3>4. OneHolder'
        BY <1>1, <2>3, <3>2, <3>3, HolderFrame DEF TaskOK
    <3>5. CloneBehind' /\ AgreedInHistory' /\ \A u \in Tasks : TaskOK(u)'
        BY <2>1, <3>2, <3>3, QuietStep DEF sync
    <3>6. TypeOK'
        BY <2>1, <2>3, <3>2 DEF IInv, TypeOK, OnlyMoves, sync, history
    <3> QED BY <3>4, <3>5, <3>6 DEF IInv
  <2> QED BY <1>5, <2>2, <2>3 DEF PushRejected
<1> QED BY <1>3, <1>4, <1>5 DEF Push

LEMMA PurgeInv ==
    ASSUME IInv, NEW t \in Tasks, PurgeNoMarker(t) \/ PurgeMarker(t) \/ PurgeRow(t)
    PROVE  IInv'
<1> DEFINE w == task[t].ws
           e == task[t].ent
<1>1. /\ task[t].pc \in {"mark", "purgeRow"} /\ task[t].pc # "idle"
      /\ task[t] \in Task /\ PhaseOK(task[t]) /\ MergeOK(task[t]) /\ PushOK(task[t])
      /\ w \in Workspaces /\ e \in Entities /\ task[t].op = "purge"
    BY Facts, EntityFacts DEF PurgeNoMarker, PurgeMarker, PurgeRow, PhaseOK
<1>2. CASE PurgeNoMarker(t)
  <2>1. /\ task[t].pc \in Holding /\ Goto(t, "purgeRow") /\ Unlock(t)
        /\ "purgeRow" \in Phases /\ "purgeRow" \notin Holding
        /\ UNCHANGED <<log, db, clone, sync, ops, edits, known, merged, purgedAt>>
    BY <1>2 DEF PurgeNoMarker, Leave, Phases, Holding, history
  <2>2. PhaseOK(task[t])' /\ PushOK(task[t])'
    BY <1>1, <2>1, GotoFacts DEF PhaseOK, PushOK
  <2>3. db' \in [Workspaces -> Tree] /\ known' \in [Workspaces -> [Entities -> SUBSET Contents]]
    BY <2>1 DEF IInv, TypeOK
  <2> QED BY <2>1, <2>2, <2>3, GotoOnlyInv
<1>3. CASE PurgeMarker(t)
  <2> DEFINE copy == HeadTree(clone[w])[e]
             c == Commit(clone[w], e, None)
  <2>1. /\ task[t].pc = "mark" /\ task[t].pc \in Holding /\ copy # None
        /\ SettleOn(w, e, copy) /\ Seen(w, e, task[t].at)
        /\ clone' = [clone EXCEPT ![w] = c] /\ Goto(t, "push")
        /\ "push" \in Phases /\ "push" \in Holding
        /\ merged' = [merged EXCEPT ![w][e] = task[t].at]
        /\ UNCHANGED <<log, db, lock, ops, edits, purgedAt>>
    BY <1>3 DEF PurgeMarker, Ws, Ent, Phases, Holding
  <2>2. copy \in Maybe(Copy) /\ InLog(e, copy)
    <3>1. clone[w].ahead = <<>> /\ clone[w] \in Clone /\ clone[w].base <= Len(log) /\ Len(log) \in Nat
        BY <1>1, <2>1, EntityFacts DEF PushOK
    <3>2. copy = At(clone[w].base)[e] /\ clone[w].base \in 0 .. Len(log)
        BY <3>1 DEF HeadTree, Clone
    <3>3. clone[w].base # 0
        BY <1>1, <2>1, <3>2 DEF At, EmptyTree
    <3>4. copy \in Maybe(Copy)
        BY <1>1, HeadIsTree DEF IInv, Tree
    <3>5. clone[w].base \in 1 .. Len(log) /\ log[clone[w].base][e] = copy
        BY <3>1, <3>2, <3>3 DEF At, Clone
    <3> HIDE DEF copy
    <3> QED BY <3>4, <3>5 DEF InLog
  <2>3. /\ agreed' \in [Workspaces -> Tree] /\ conflicts' \in [Workspaces -> SUBSET Entities]
        /\ AgreedInHistory'
    BY <1>1, <2>1, <2>2, SettleFacts
  <2>4. known' \in [Workspaces -> [Entities -> SUBSET Contents]]
    BY <1>1, <2>1, EntityFacts, SeenType
  <2>5. c \in Clone /\ c.origin <= Len(log) /\ c.base <= Len(log) /\ c.ahead # <<>>
    BY <1>1, CommitFacts DEF Maybe
  <2> HIDE DEF c
  <2>6. OnlyMoves(t) /\ task'[t].ws = w /\ task'[t].pc = "push" /\ task'[t].op = "purge"
    BY <1>1, <2>1, GotoFacts
  <2>7. TaskOK(t)'
    <3>1. PhaseOK(task[t])'
        BY <1>1, <2>1, GotoFacts DEF PhaseOK
    <3>2. MergeOK(task[t])'
        BY <1>1, <2>1, GotoFacts DEF MergeOK, InLog, At
    <3>3. clone'[w] = c
        BY <1>1, <2>1 DEF IInv, TypeOK
    <3>4. PushOK(task[t])'
        BY <2>5, <2>6, <3>3 DEF PushOK
    <3> QED BY <3>1, <3>2, <3>4 DEF TaskOK
  <2>8. OneHolder'
    BY <2>1, <2>6, <2>7, HolderFrame DEF TaskOK
  <2>9. clone' \in [Workspaces -> Clone] /\ CloneBehind' /\ \A u \in Tasks : TaskOK(u)'
    <3>1. (\A n \in 0 .. Len(log) : At(n)' = At(n)) /\ \A f, d : InLog(f, d) => InLog(f, d)'
        BY <2>1 DEF At, InLog
    <3>2. Len(log) <= Len(log') /\ Len(log') \in Nat /\ c.origin <= Len(log') /\ c.base <= Len(log')
        BY <2>1, <2>5 DEF IInv, TypeOK
    <3> QED BY <1>1, <2>1, <2>5, <2>6, <2>7, <3>1, <3>2, HolderStep
  <2>10. merged' \in [Workspaces -> [Entities -> Nat]]
    BY <1>1, <2>1, EntityFacts DEF IInv, TypeOK
  <2>11. TypeOK'
    BY <2>1, <2>3, <2>4, <2>6, <2>9, <2>10 DEF IInv, TypeOK, OnlyMoves
  <2> QED BY <2>3, <2>8, <2>9, <2>11 DEF IInv
<1>4. CASE PurgeRow(t)
  <2>1. /\ task[t].pc = "purgeRow" /\ task' = [task EXCEPT ![t] = Idle]
        /\ UNCHANGED <<log, clone, agreed, conflicts, lock, ops, edits, known, merged, purgedAt>>
    BY <1>4 DEF PurgeRow, sync, history
  <2>2. db' \in [Workspaces -> Tree]
    BY <1>1, <1>4 DEF PurgeRow, Ws, Ent, IInv, TypeOK, Tree, Maybe
  <2>3. OnlyMoves(t) /\ task'[t] = Idle
    BY <2>1, IdleOK DEF IInv, TypeOK, OnlyMoves
  <2>4. TaskOK(t)'
    <3>1. PhaseOK(Idle) /\ MergeOK(Idle)' /\ PushOK(Idle)'
        BY <2>1, IdleOK DEF IInv, Idle, Request, EmptyTree, MergeOK, PushOK
    <3> QED BY <2>3, <3>1 DEF TaskOK, PhaseOK
  <2>5. task'[t].pc \notin Holding
    BY <2>3 DEF Idle, Request, Holding
  <2>6. OneHolder'
    BY <2>1, <2>3, <2>4, <2>5, HolderFrame DEF TaskOK
  <2>7. CloneBehind' /\ AgreedInHistory' /\ \A u \in Tasks : TaskOK(u)'
    BY <2>1, <2>3, <2>4, QuietStep
  <2>8. TypeOK'
    BY <2>1, <2>2, <2>3 DEF IInv, TypeOK, OnlyMoves
  <2> QED BY <2>6, <2>7, <2>8 DEF IInv
<1> QED BY <1>2, <1>3, <1>4

LEMMA RestoreInv ==
    ASSUME IInv, NEW t \in Tasks,
           (\E r \in 1 .. Len(log) : RestoreRead(t, r)) \/ RestoreWrite(t) \/ RestoreSettle(t)
    PROVE  IInv'
<1> DEFINE w == task[t].ws
           e == task[t].ent
<1>1. /\ task[t].pc \in {"read", "write", "settle"} /\ task[t].pc # "idle"
      /\ task[t] \in Task /\ PhaseOK(task[t]) /\ MergeOK(task[t]) /\ PushOK(task[t])
      /\ w \in Workspaces /\ e \in Entities /\ task[t].op = "restore"
    BY Facts, EntityFacts DEF RestoreRead, RestoreWrite, RestoreSettle, PhaseOK
<1>2. ASSUME NEW r \in 1 .. Len(log), RestoreRead(t, r) PROVE IInv'
  <2> DEFINE copy == At(r)[e]
  <2>1. task[t].pc = "read" /\ task[t].pc \in Holding
        /\ UNCHANGED <<log, db, clone, sync, ops, edits, history>>
    BY <1>2 DEF RestoreRead, Holding
  <2>2. CASE Finish(t)
    BY <2>1, <2>2, FinishOnlyInv
  <2>3. CASE copy # None /\ task' = [task EXCEPT ![t].pc = "write", ![t].copy = copy] /\ Unlock(t)
    <3>1. copy \in Maybe(Copy) /\ "write" \in Phases
        BY <1>1, AtIsTree DEF IInv, TypeOK, Tree, Phases
    <3> HIDE DEF copy
    <3>2. /\ OnlyMoves(t) /\ task'[t].pc = "write" /\ task'[t].op = "restore"
          /\ task'[t].copy = copy
          /\ task'[t].ws = w /\ task'[t].ent = e /\ task'[t].at = task[t].at
          /\ task'[t].todo = task[t].todo /\ task'[t].agr = task[t].agr
        BY <1>1, <2>3, <3>1 DEF IInv, TypeOK, OnlyMoves, Task
    <3>3. TaskOK(t)'
      <4>1. PhaseOK(task[t])'
        BY <1>1, <2>3, <3>2 DEF PhaseOK
      <4>2. MergeOK(task[t])'
        BY <1>1, <2>1, <3>2 DEF MergeOK, InLog, At
      <4>3. PushOK(task[t])'
        BY <3>2 DEF PushOK
      <4> QED BY <4>1, <4>2, <4>3 DEF TaskOK
    <3>4. OneHolder' /\ lock' \in [Workspaces -> Maybe(Tasks)]
        BY <2>1, <2>3, <3>2, <3>3, HolderFrame DEF TaskOK, Unlock, Ws, Holding
    <3>5. CloneBehind' /\ AgreedInHistory' /\ \A u \in Tasks : TaskOK(u)'
        BY <2>1, <3>2, <3>3, QuietStep DEF sync
    <3>6. TypeOK'
        BY <2>1, <3>2, <3>4 DEF IInv, TypeOK, OnlyMoves, sync, history
    <3> QED BY <3>4, <3>5, <3>6 DEF IInv
  <2> QED BY <1>2, <2>2, <2>3 DEF RestoreRead, Ent
<1>3. CASE RestoreWrite(t)
  <2>1. /\ task[t].pc = "write" /\ SetRow(w, e, task[t].copy) /\ Goto(t, "relock")
        /\ "relock" \in Phases /\ "relock" \notin Holding
        /\ UNCHANGED <<log, clone, sync, lock, ops, edits, merged, purgedAt>>
    BY <1>3 DEF RestoreWrite, Ws, Ent, Phases, Waiting, Holding
  <2>2. task[t].copy \in Copy
    BY <1>1, <2>1 DEF PhaseOK, Task, Maybe
  <2>3. db' \in [Workspaces -> Tree] /\ known' \in [Workspaces -> [Entities -> SUBSET Contents]]
    <3>1. task[t].copy.content \in Contents
        BY <2>2 DEF Copy
    <3> QED BY <1>1, <2>1, <2>2, <3>1 DEF SetRow, IInv, TypeOK, Tree, Maybe
  <2>4. PhaseOK(task[t])' /\ PushOK(task[t])'
    BY <1>1, <2>1, GotoFacts DEF PhaseOK, PushOK
  <2> QED BY <2>1, <2>3, <2>4, GotoOnlyInv
<1>4. CASE RestoreSettle(t)
  <2> DEFINE c == At(clone[w].origin)[e]
  <2>1. /\ task[t].pc = "settle" /\ task[t].pc \in Holding
        /\ SettleOn(w, e, c) /\ Seen(w, e, task[t].at) /\ Finish(t)
        /\ UNCHANGED <<log, db, clone, ops, edits, merged, purgedAt>>
    BY <1>4 DEF RestoreSettle, Ws, Ent, Holding
  <2>2. clone[w].origin \in 0 .. Len(log) /\ task[t].at \in Nat /\ task[t].at <= Len(log)
    BY <1>1, EntityFacts DEF Clone
  <2>3. c \in Maybe(Copy) /\ (c # None => InLog(e, c))
    <3>1. c \in Maybe(Copy)
        BY <1>1, <2>2, AtIsTree DEF IInv, Tree
    <3> DEFINE n == clone[w].origin
    <3>2. n \in 0 .. Len(log) /\ e \in Entities
        BY <1>1, <2>2
    <3> HIDE DEF n, w, e
    <3>3. At(n)[e] # None => InLog(e, At(n)[e])
      <4>1. CASE n = 0
        BY <4>1, <3>2 DEF At, EmptyTree
      <4>2. CASE n # 0
        BY <3>2, <4>2 DEF At, InLog
      <4> QED BY <4>1, <4>2
    <3> QED BY <3>1, <3>3 DEF n
  <2> HIDE DEF c
  <2>4. /\ agreed' \in [Workspaces -> Tree] /\ conflicts' \in [Workspaces -> SUBSET Entities]
        /\ AgreedInHistory'
    BY <1>1, <2>1, <2>3, SettleFacts
  <2>5. known' \in [Workspaces -> [Entities -> SUBSET Contents]]
    BY <1>1, <2>1, <2>2, SeenType
  <2>6. OnlyMoves(t) /\ TaskOK(t)' /\ OneHolder' /\ lock' \in [Workspaces -> Maybe(Tasks)]
    BY <2>1, FinishFacts DEF IInv, TypeOK
  <2>7. CloneBehind' /\ \A u \in Tasks : TaskOK(u)'
    <3>1. ASSUME NEW u \in Tasks, u # t PROVE TaskOK(u)'
      <4>1. TaskOK(u) /\ task'[u] = task[u]
        BY <2>6, <3>1 DEF IInv, OnlyMoves
      <4>2. UNCHANGED <<log, clone>>
        BY <2>1
      <4> QED BY <4>1, <4>2, TaskFrame
    <3> QED BY <2>1, <2>6, <3>1 DEF IInv, CloneBehind
  <2>8. TypeOK'
    BY <2>1, <2>4, <2>5, <2>6 DEF IInv, TypeOK, OnlyMoves
  <2> QED BY <2>4, <2>6, <2>7, <2>8 DEF IInv
<1> QED BY <1>2, <1>3, <1>4

\* The two ways a request is cut short.
LEMMA CutShortInv ==
    ASSUME IInv, NEW t \in Tasks, GitFails(t) \/ CloneKilled(t)
    PROVE  IInv'
<1>1. CASE GitFails(t)
    BY <1>1, FinishOnlyInv DEF GitFails
<1>2. CASE CloneKilled(t)
  <2> DEFINE w == task[t].ws
             c == [clone[w] EXCEPT !.stage = "attached"]
  <2>1. /\ task[t].pc \in Holding /\ Finish(t) /\ clone' = [clone EXCEPT ![w].stage = "attached"]
        /\ UNCHANGED <<log, db, agreed, conflicts, ops, edits, known, merged, purgedAt>>
    BY <1>2 DEF CloneKilled, Holding, Ws, sync, history
  <2>2. /\ w \in Workspaces /\ clone[w] \in Clone /\ log \in Seq(Tree)
        /\ clone[w].origin <= Len(log) /\ clone[w].base <= Len(log)
    BY <2>1, Facts DEF IInv, TypeOK, CloneBehind
  <2>3. c \in Clone /\ c.origin <= Len(log) /\ c.base <= Len(log) /\ clone' = [clone EXCEPT ![w] = c]
    BY <2>1, <2>2 DEF Clone
  <2> HIDE DEF c
  <2>4. OnlyMoves(t) /\ TaskOK(t)' /\ OneHolder' /\ lock' \in [Workspaces -> Maybe(Tasks)]
    BY <2>1, <2>2, FinishFacts
  <2>5. /\ Len(log) <= Len(log') /\ Len(log') \in Nat
        /\ c.origin <= Len(log') /\ c.base <= Len(log')
    BY <2>1, <2>2, <2>3
  <2>6. (\A n \in 0 .. Len(log) : At(n)' = At(n)) /\ \A e, d : InLog(e, d) => InLog(e, d)'
    BY <2>1 DEF At, InLog
  <2>7. clone' \in [Workspaces -> Clone] /\ CloneBehind' /\ \A u \in Tasks : TaskOK(u)'
    BY <2>1, <2>2, <2>3, <2>4, <2>5, <2>6, HolderStep
  <2>8. AgreedInHistory'
    BY <2>1 DEF IInv, AgreedInHistory
  <2>9. TypeOK'
    BY <2>1, <2>4, <2>7 DEF IInv, TypeOK, OnlyMoves
  <2> QED BY <2>4, <2>7, <2>8, <2>9 DEF IInv
<1> QED BY <1>1, <1>2

LEMMA CrashInv == ASSUME IInv, NEW w \in Workspaces, Crash(w) PROVE IInv'
<1>1. /\ task' = [t \in Tasks |-> IF task[t].ws = w THEN Idle ELSE task[t]]
      /\ lock' = [lock EXCEPT ![w] = None]
      /\ UNCHANGED <<log, db, clone, agreed, conflicts, ops, edits, known, merged, purgedAt>>
    BY DEF Crash, sync, history
<1>2. Idle \in Task /\ PhaseOK(Idle) /\ MergeOK(Idle)' /\ PushOK(Idle)'
    BY <1>1, IdleOK DEF IInv, Idle, Request, EmptyTree, MergeOK, PushOK
<1>3. task' \in [Tasks -> Task] /\ lock' \in [Workspaces -> Maybe(Tasks)]
    BY <1>1, <1>2 DEF IInv, TypeOK, Maybe
<1>4. ASSUME NEW t \in Tasks PROVE TaskOK(t)'
  <2>1. CASE task[t].ws = w
    <3>1. task'[t] = Idle
        BY <1>1, <2>1
    <3> QED BY <1>2, <3>1 DEF TaskOK, PhaseOK
  <2>2. CASE task[t].ws # w
    <3>1. task'[t] = task[t] /\ TaskOK(t)
        BY <1>1, <2>2 DEF IInv
    <3> QED BY <1>1, <3>1, TaskFrame
  <2> QED BY <2>1, <2>2
<1>5. OneHolder'
  <2> SUFFICES ASSUME NEW t \in Tasks, task'[t].pc \in Holding
               PROVE  lock'[task'[t].ws] = t
    BY DEF OneHolder, Ws
  <2>1. Idle.pc \notin Holding
    BY DEF Idle, Request, Holding
  <2>2. task[t].ws # w /\ task'[t] = task[t]
    BY <1>1, <2>1
  <2>3. lock[task[t].ws] = t /\ task[t].ws \in Workspaces
    BY <2>2, Facts
  <2> QED BY <1>1, <2>2, <2>3 DEF IInv, TypeOK
<1>6. CloneBehind' /\ AgreedInHistory'
    BY <1>1 DEF IInv, CloneBehind, AgreedInHistory
<1>7. TypeOK'
    BY <1>1, <1>3 DEF IInv, TypeOK
<1> QED BY <1>4, <1>5, <1>6, <1>7 DEF IInv

-----------------------------------------------------------------------------
(* The invariant is inductive.                                              *)

LEMMA InitInv == ASSUME Init PROVE IInv
<1>1. EmptyTree \in Tree /\ NoClone \in Clone
    BY DEF EmptyTree, Tree, Maybe, NoClone, Clone
<1>2. Idle \in Task
    BY DEF Idle, Request, Task, Maybe, Phases, EmptyTree
<1>3. log \in Seq(Tree) /\ Len(log) = 0
    BY DEF Init
<1>4. TypeOK
    BY <1>1, <1>2, <1>3 DEF Init, TypeOK, Maybe
<1>5. OneHolder
    BY DEF Init, OneHolder, Idle, Request, Holding
<1>6. CloneBehind /\ AgreedInHistory
    BY <1>3 DEF Init, CloneBehind, NoClone, AgreedInHistory, EmptyTree
<1>7. \A t \in Tasks : TaskOK(t)
    BY <1>4, IdleOK DEF Init, TaskOK
<1> QED BY <1>4, <1>5, <1>6, <1>7 DEF IInv

LEMMA StepInv == ASSUME IInv, NEW t \in Tasks, Step(t) PROVE IInv'
<1>1. CASE EnsureRepo(t)
    BY <1>1, EnsureRepoInv
<1>2. CASE Fetch(t)
    BY <1>2, FetchHeadInv, FetchNoHeadInv DEF Fetch
<1>3. CASE Merge(t)
    BY <1>3, MergeInv
<1>4. CASE Push(t)
    BY <1>4, PushInv
<1>5. CASE StoreMissing(t) \/ StoreNoChanges(t) \/ StoreCommit(t) \/ StoreAgree(t)
    BY <1>5, StoreInv
<1>6. CASE PurgeNoMarker(t) \/ PurgeMarker(t) \/ PurgeRow(t)
    BY <1>6, PurgeInv
<1>7. CASE (\E r \in 1 .. Len(log) : RestoreRead(t, r)) \/ RestoreWrite(t) \/ RestoreSettle(t)
    BY <1>7, RestoreInv
<1>8. CASE GitFails(t) \/ CloneKilled(t)
    BY <1>8, CutShortInv
<1> QED BY <1>1, <1>2, <1>3, <1>4, <1>5, <1>6, <1>7, <1>8 DEF Step

LEMMA NextInv == ASSUME IInv, [Next]_vars PROVE IInv'
<1>1. CASE UserEdit
    BY <1>1, UserEditInv
<1>2. ASSUME NEW t \in Tasks, NEW w \in Workspaces,
             NEW op \in {"sync", "store", "purge", "restore"}, NEW e \in Maybe(Entities),
             StartOp(t, w, op, e)
      PROVE  IInv'
    BY <1>2, StartOpInv
<1>3. ASSUME NEW t \in Tasks, Acquire(t) \/ Step(t) PROVE IInv'
    BY <1>3, AcquireInv, StepInv
<1>4. ASSUME NEW w \in Workspaces, Crash(w) PROVE IInv'
    BY <1>4, CrashInv
<1>5. CASE UNCHANGED vars
  <2>1. UNCHANGED <<log, db, clone, agreed, conflicts, lock, task, ops, edits, known, merged, purgedAt>>
    BY <1>5 DEF vars, sync, history
  <2>2. TypeOK'
    BY <2>1 DEF IInv, TypeOK
  <2>3. OneHolder' /\ CloneBehind' /\ AgreedInHistory'
    BY <2>1 DEF IInv, OneHolder, Ws, CloneBehind, AgreedInHistory
  <2>4. \A t \in Tasks : TaskOK(t)'
    BY <2>1, TaskFrame DEF IInv
  <2> QED BY <2>2, <2>3, <2>4 DEF IInv
<1> QED BY <1>1, <1>2, <1>3, <1>4, <1>5 DEF Next

\* The inductive invariant holds of every behaviour of every instance.
THEOREM Inductive == Spec => []IInv
<1>1. Init => IInv
    BY InitInv
<1>2. IInv /\ [Next]_vars => IInv'
    BY NextInv
<1> QED BY <1>1, <1>2, PTL DEF Spec

-----------------------------------------------------------------------------
(* The results.                                                             *)

\* Every variable keeps its type, whatever the interleaving of requests, edits,
\* failures and crashes (the state of gitsync.py, the rows, the remote).
THEOREM TypeCorrect == Spec => []TypeOK
<1>1. IInv => TypeOK
    BY DEF IInv
<1> QED BY <1>1, Inductive, PTL

\* Every await inside `async with _lock(workspace)` is safe: only the holder of the
\* workspace's lock is between its fetch and its last use of the clone.
THEOREM ClonePrivate == Spec => []OneHolder
<1>1. IInv => OneHolder
    BY DEF IInv
<1> QED BY <1>1, Inductive, PTL

\* _agree and _merge never record a copy that was not published: a failed, rejected
\* or lost push leaves the sync state describing the remote's history.
THEOREM AgreedWasPublished == Spec => []AgreedInHistory
<1>1. IInv => AgreedInHistory
    BY DEF IInv
<1> QED BY <1>1, Inductive, PTL

\* Only a push changes the remote.
LEMMA StepPushes ==
    ASSUME NEW t \in Tasks, Step(t)
    PROVE  UNCHANGED log \/ PushLands(t)
<1>1. CASE EnsureRepo(t) \/ Fetch(t) \/ CloneKilled(t) \/ GitFails(t)
    BY <1>1 DEF EnsureRepo, EnsureDone, CloneRemote, InitLocal, AttachRemote, Configure,
       UnchangedButClone, Fetch, FetchHead, FetchNoHead, CloneKilled, GitFails
<1>2. CASE Merge(t)
    BY <1>2 DEF Merge, MergeLocalChange, MergeSame, MergeDecide, MergeConflict, MergeImport,
       MergeFlip, MergeSave, UnchangedButTask
<1>3. CASE Push(t)
    BY <1>3 DEF Push, PushOk, PushLost, PushRejected
<1>4. CASE StoreMissing(t) \/ StoreNoChanges(t) \/ StoreCommit(t) \/ StoreAgree(t)
    BY <1>4 DEF StoreMissing, StoreNoChanges, StoreCommit, StoreAgree, UnchangedButClone
<1>5. CASE PurgeNoMarker(t) \/ PurgeMarker(t) \/ PurgeRow(t)
    BY <1>5 DEF PurgeNoMarker, PurgeMarker, PurgeRow
<1>6. CASE (\E r \in 1 .. Len(log) : RestoreRead(t, r)) \/ RestoreWrite(t) \/ RestoreSettle(t)
    BY <1>6 DEF RestoreRead, RestoreWrite, RestoreSettle
<1> QED BY <1>1, <1>2, <1>3, <1>4, <1>5, <1>6 DEF Step

LEMMA OnlyPushes ==
    ASSUME [Next]_vars
    PROVE  UNCHANGED log \/ \E t \in Tasks : PushLands(t)
<1>1. CASE UserEdit
    BY <1>1 DEF UserEdit, Save, SetDeleted, Rename, Edit
<1>2. CASE \E w \in Workspaces : Crash(w)
    BY <1>2 DEF Crash
<1>3. CASE UNCHANGED vars
    BY <1>3 DEF vars
<1>4. ASSUME NEW t \in Tasks, Acquire(t)
             \/ \E w \in Workspaces, op \in {"sync", "store", "purge", "restore"},
                   e \in Maybe(Entities) : StartOp(t, w, op, e)
      PROVE  UNCHANGED log
    BY <1>4 DEF Acquire, StartOp
<1> QED BY <1>1, <1>2, <1>3, <1>4, StepPushes DEF Next

\* What a push does to the remote.
LEMMA StepAppends ==
    ASSUME IInv, [Next]_vars
    PROVE  /\ Len(log') >= Len(log)
           /\ \A n \in 1 .. Len(log) : log'[n] = log[n]
<1>1. log \in Seq(Tree)
    BY DEF IInv, TypeOK
<1>2. CASE UNCHANGED log
    BY <1>1, <1>2
<1>3. ASSUME NEW t \in Tasks, PushLands(t)
      PROVE  /\ Len(log') >= Len(log)
             /\ \A n \in 1 .. Len(log) : log'[n] = log[n]
  <2>1. /\ clone[task[t].ws].ahead \in Seq(Tree)
        /\ log' = log \o clone[task[t].ws].ahead
    <3>1. task[t].pc \in Holding
        BY <1>3 DEF PushLands, Holding
    <3>2. task[t].ws \in Workspaces
        BY <3>1, Facts
    <3> QED BY <1>3, <3>2 DEF PushLands, Ws, IInv, TypeOK, Clone
  <2>2. /\ Len(log') = Len(log) + Len(clone[task[t].ws].ahead)
        /\ \A n \in 1 .. Len(log) : log'[n] = log[n]
    <3>1. TypeOK
        BY DEF IInv
    <3> QED BY <2>1, <3>1, LogGrows
  <2>3. Len(log) \in Nat /\ Len(clone[task[t].ws].ahead) \in Nat
    BY <1>1, <2>1
  <2> QED BY <2>2, <2>3
<1> QED BY <1>2, <1>3, OnlyPushes

\* "History is append-only": store and purge only ever extend the remote branch, for
\* any number of instances racing through fetch, reset, commit, push and retry.
THEOREM AppendOnly == Spec => HistoryAppendOnly
<1>1. IInv /\ [Next]_vars =>
        [/\ Len(log') >= Len(log)
         /\ \A n \in 1 .. Len(log) : log'[n] = log[n]]_vars
    BY StepAppends
<1> QED BY <1>1, Inductive, PTL DEF Spec, HistoryAppendOnly
=============================================================================
