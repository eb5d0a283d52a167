------------------------- MODULE GitSyncContent_proofs -------------------------
(* TLAPS proofs about what GitSync publishes, purges and agrees on: a commit   *)
(* is of one entity, what was purged stays purged, and nothing is overwritten, *)
(* agreed or passed over in silence that the workspace has not seen.           *)
EXTENDS GitSync_proofs, FiniteSetTheorems

-----------------------------------------------------------------------------
(* A step of one coroutine, and everyone else.                              *)

LogExtends == Len(log) <= Len(log') /\ \A n \in 0 .. Len(log) : At(n)' = At(n)

\* The step is t's: other workspaces and other coroutines are as they were.
Elsewhere(t) ==
    /\ \A w \in Workspaces \ {task[t].ws} :
          /\ clone'[w] = clone[w] /\ db'[w] = db[w]
          /\ agreed'[w] = agreed[w] /\ conflicts'[w] = conflicts[w]
          /\ known'[w] = known[w] /\ merged'[w] = merged[w] /\ purgedAt'[w] = purgedAt[w]
    /\ \A u \in Tasks \ {t} : task'[u] = task[u]

LEMMA NextExtends ==
    ASSUME IInv, [Next]_vars
    PROVE  LogExtends
<1>1. Len(log') >= Len(log) /\ (\A n \in 1 .. Len(log) : log'[n] = log[n])
    BY StepAppends
<1>2. Len(log) \in Nat /\ Len(log') \in Nat
  <2>1. IInv'
    BY NextInv
  <2> QED BY <2>1 DEF IInv, TypeOK
<1> QED BY <1>1, <1>2 DEF LogExtends, At

LEMMA StepElsewhere ==
    ASSUME IInv, NEW t \in Tasks, Step(t)
    PROVE  Elsewhere(t)
<1> USE DEF Elsewhere
<1>1. /\ clone \in [Workspaces -> Clone] /\ db \in [Workspaces -> Tree]
      /\ agreed \in [Workspaces -> Tree] /\ conflicts \in [Workspaces -> SUBSET Entities]
      /\ known \in [Workspaces -> [Entities -> SUBSET Contents]]
      /\ merged \in [Workspaces -> [Entities -> Nat]]
      /\ purgedAt \in [Workspaces -> [Entities -> Nat]]
      /\ task \in [Tasks -> Task]
    BY DEF IInv, TypeOK
<1>2. CASE EnsureRepo(t) \/ CloneKilled(t) \/ GitFails(t)
    BY <1>1, <1>2 DEF EnsureRepo, EnsureDone, CloneRemote, InitLocal, AttachRemote, Configure,
       CloneKilled, GitFails, UnchangedButClone, Finish, Goto, Ws, sync, history
<1>3. CASE Fetch(t)
  <2>1. CASE FetchHead(t)
    <3>1. UNCHANGED <<db, agreed, conflicts, known, merged, purgedAt>>
        BY <2>1 DEF FetchHead, UnchangedButClone, sync, history
    <3>2. \E c : clone' = [clone EXCEPT ![task[t].ws] = c]
        BY <2>1, Zenon DEF FetchHead, Ws
    <3>3. \E r : task' = [task EXCEPT ![t] = r]
        BY <2>1 DEF FetchHead
    <3> QED BY <1>1, <3>1, <3>2, <3>3
  <2>2. CASE FetchNoHead(t)
    BY <1>1, <2>2 DEF FetchNoHead, Finish, Goto, Leave, Ws, sync, history
  <2> QED BY <1>3, <2>1, <2>2 DEF Fetch
<1>4. CASE Merge(t)
  <2>1. CASE \E e \in Entities : MergeLocalChange(t, e) \/ MergeSame(t, e)
                                 \/ MergeDecide(t, e) \/ MergeConflict(t, e)
    BY <1>1, <2>1 DEF MergeLocalChange, MergeSame, MergeDecide, MergeConflict,
       UnchangedButTask, sync, history
  <2>2. CASE MergeImport(t)
    BY <1>1, <2>2 DEF MergeImport, SetRow, Merged, Ws, sync
  <2>3. CASE MergeFlip(t)
    BY <1>1, <2>3 DEF MergeFlip, Merged, Ws, sync, history
  <2>4. CASE MergeSave(t)
    BY <1>1, <2>4 DEF MergeSave, Finish, Goto, Ws
  <2> QED BY <1>4, <2>1, <2>2, <2>3, <2>4 DEF Merge
<1>5. CASE Push(t)
    BY <1>1, <1>5 DEF Push, PushOk, PushLost, PushRejected, PushLands, Seen, Finish, Leave, Goto,
       Ws, sync, history
<1>6. CASE StoreMissing(t) \/ StoreNoChanges(t) \/ StoreCommit(t) \/ StoreAgree(t)
    BY <1>1, <1>6 DEF StoreMissing, StoreNoChanges, StoreCommit, StoreAgree, SettleOn,
       UnchangedButClone, Finish, Ws, sync, history
<1>7. CASE PurgeNoMarker(t) \/ PurgeMarker(t) \/ PurgeRow(t)
    BY <1>1, <1>7 DEF PurgeNoMarker, PurgeMarker, PurgeRow, SettleOn, Seen, Leave, Goto,
       Ws, sync, history
<1>8. CASE (\E r \in 1 .. Len(log) : RestoreRead(t, r)) \/ RestoreWrite(t) \/ RestoreSettle(t)
    BY <1>1, <1>8 DEF RestoreRead, RestoreWrite, RestoreSettle, SettleOn, Seen, SetRow,
       Finish, Goto, Ws, sync, history
<1> QED BY <1>2, <1>3, <1>4, <1>5, <1>6, <1>7, <1>8 DEF Step

\* The steps that only move t: a request comes in, or gets the lock.
LEMMA ArrivalElsewhere ==
    ASSUME IInv, NEW t \in Tasks,
           \/ Acquire(t)
           \/ \E w \in Workspaces, op \in {"sync", "store", "purge", "restore"},
                 e \in Maybe(Entities) : StartOp(t, w, op, e)
    PROVE  /\ UNCHANGED <<log, db, clone, agreed, conflicts, known, merged, purgedAt>>
           /\ \A u \in Tasks \ {t} : task'[u] = task[u]
BY DEF Acquire, StartOp, Goto, sync, history, IInv, TypeOK

LEMMA EditElsewhere ==
    ASSUME UserEdit
    PROVE  UNCHANGED <<log, clone, agreed, conflicts, lock, task, merged, purgedAt>>
BY DEF UserEdit, Save, SetDeleted, Rename, Edit, sync

LEMMA CrashElsewhere ==
    ASSUME IInv, NEW w \in Workspaces, Crash(w)
    PROVE  /\ UNCHANGED <<log, db, clone, agreed, conflicts, known, merged, purgedAt>>
           /\ \A t \in Tasks : task'[t] = IF task[t].ws = w THEN Idle ELSE task[t]
BY DEF Crash, sync, history

-----------------------------------------------------------------------------
(* A commit is of one entity.                                               *)

OneFile(old, new) == \E e \in Entities : \A f \in Entities \ {e} : new[f] = old[f]

\* The unpushed commits of clone c: each of one file, the first on the pushed part.
CommitsFit(c) ==
    \A n \in 1 .. Len(c.ahead) :
        OneFile(IF n = 1 THEN At(c.base) ELSE c.ahead[n - 1], c.ahead[n])

CommitInv == OneEntityPerCommit /\ \A w \in Workspaces : CommitsFit(clone[w])

\* What a step makes of the commits of a clone.
CommitsChange(w) ==
    \/ clone'[w].ahead = clone[w].ahead /\ clone'[w].base = clone[w].base
    \/ clone'[w].ahead = <<>>
    \/ \E e \in Entities, copy \in Maybe(Copy) : clone'[w] = Commit(clone[w], e, copy)

LEMMA StepCommits ==
    ASSUME IInv, NEW t \in Tasks, Step(t), task[t].ws \in Workspaces
    PROVE  CommitsChange(task[t].ws)
<1> DEFINE w == task[t].ws
<1>1. clone \in [Workspaces -> Clone] /\ clone[w] \in Clone
    BY DEF IInv, TypeOK
<1>2. CASE EnsureRepo(t) \/ CloneKilled(t) \/ GitFails(t)
    BY <1>1, <1>2 DEF EnsureRepo, EnsureDone, CloneRemote, InitLocal, AttachRemote, Configure,
       CloneKilled, GitFails, Ws, CommitsChange, Clone
<1>3. CASE Fetch(t)
  <2>1. CASE FetchNoHead(t)
    BY <2>1 DEF FetchNoHead, CommitsChange
  <2>2. CASE FetchHead(t) /\ task[t].op \in Resets
    <3>1. clone'[w] = [clone[w] EXCEPT !.origin = Len(log), !.base = Len(log), !.ahead = <<>>]
        BY <1>1, <2>2 DEF FetchHead, Ws
    <3> QED BY <1>1, <3>1 DEF CommitsChange, Clone
  <2>3. CASE FetchHead(t) /\ task[t].op \notin Resets
    <3>1. clone'[w] = [clone[w] EXCEPT !.origin = Len(log)]
        BY <1>1, <2>3 DEF FetchHead, Ws
    <3> QED BY <1>1, <3>1 DEF CommitsChange, Clone
  <2> QED BY <1>3, <2>1, <2>2, <2>3 DEF Fetch
<1>4. CASE Merge(t)
    BY <1>4 DEF Merge, MergeLocalChange, MergeSame, MergeDecide, MergeConflict, MergeImport,
       MergeFlip, MergeSave, UnchangedButTask, CommitsChange
<1>5. CASE Push(t)
    BY <1>1, <1>5 DEF Push, PushOk, PushLost, PushRejected, Ws, CommitsChange, Clone
<1>6. CASE StoreMissing(t) \/ StoreNoChanges(t) \/ StoreAgree(t)
    BY <1>6 DEF StoreMissing, StoreNoChanges, StoreAgree, CommitsChange
<1>7. CASE StoreCommit(t)
  <2>1. task[t].ent \in Entities
    BY <1>7, EntityFacts DEF StoreCommit
  <2>2. db[w][task[t].ent] \in Maybe(Copy)
    BY <2>1 DEF IInv, TypeOK, Tree
  <2> QED BY <1>1, <1>7, <2>1, <2>2 DEF StoreCommit, Ws, Ent, Row, CommitsChange
<1>8. CASE PurgeNoMarker(t) \/ PurgeRow(t)
    BY <1>8 DEF PurgeNoMarker, PurgeRow, CommitsChange
<1>9. CASE PurgeMarker(t)
  <2>1. task[t].ent \in Entities /\ None \in Maybe(Copy)
    BY <1>9, EntityFacts DEF PurgeMarker, Maybe
  <2> QED BY <1>1, <1>9, <2>1 DEF PurgeMarker, Ws, Ent, CommitsChange
<1>10. CASE (\E r \in 1 .. Len(log) : RestoreRead(t, r)) \/ RestoreWrite(t) \/ RestoreSettle(t)
    BY <1>10 DEF RestoreRead, RestoreWrite, RestoreSettle, CommitsChange
<1> QED BY <1>2, <1>3, <1>4, <1>5, <1>6, <1>7, <1>8, <1>9, <1>10 DEF Step

LEMMA NextCommits ==
    ASSUME IInv, [Next]_vars, NEW w \in Workspaces
    PROVE  CommitsChange(w)
<1>1. ASSUME NEW t \in Tasks, Step(t) PROVE CommitsChange(w)
    BY <1>1, StepCommits, StepElsewhere DEF Elsewhere, CommitsChange
<1>2. ASSUME UNCHANGED clone PROVE CommitsChange(w)
    BY <1>2 DEF CommitsChange
<1> QED BY <1>1, <1>2, ArrivalElsewhere, EditElsewhere, CrashElsewhere DEF Next, vars

LEMMA CommitsStayFit ==
    ASSUME IInv, [Next]_vars, NEW w \in Workspaces, CommitsFit(clone[w])
    PROVE  CommitsFit(clone[w])'
<1>1. /\ clone[w] \in Clone /\ clone[w].ahead \in Seq(Tree)
      /\ clone[w].base \in 0 .. Len(log)
    BY DEF IInv, TypeOK, CloneBehind, Clone
<1>2. ASSUME clone'[w].base = clone[w].base
      PROVE  At(clone[w].base)' = At(clone[w].base)
  <2>1. PICK b \in 0 .. Len(log) : b = clone[w].base
    BY <1>1
  <2>2. At(b)' = At(b)
    BY NextExtends DEF LogExtends
  <2> QED BY <1>2, <2>1, <2>2 DEF At
<1>3. CASE clone'[w].ahead = clone[w].ahead /\ clone'[w].base = clone[w].base
    BY <1>2, <1>3 DEF CommitsFit, OneFile
<1>4. CASE clone'[w].ahead = <<>>
    BY <1>4 DEF CommitsFit
<1>5. ASSUME NEW e \in Entities, NEW copy \in Maybe(Copy), clone'[w] = Commit(clone[w], e, copy)
      PROVE  CommitsFit(clone[w])'
  <2> DEFINE old == HeadTree(clone[w])
             new == [old EXCEPT ![e] = copy]
             a == clone[w].ahead
  <2>1. old \in Tree /\ new \in Tree
    BY HeadIsTree DEF IInv, Tree
  <2>2. clone'[w].ahead = Append(a, new) /\ clone'[w].base = clone[w].base
    BY <1>1, <1>5 DEF Commit, Clone
  <2>3. At(clone[w].base)' = At(clone[w].base)
    BY <1>2, <2>2
  <2>4. OneFile(old, new)
    BY <2>1 DEF OneFile, Tree
  <2>5. old = IF Len(a) = 0 THEN At(clone[w].base) ELSE a[Len(a)]
    BY <1>1 DEF HeadTree
  <2> HIDE DEF old, new
  <2>6. ASSUME NEW n \in 1 .. Len(a) + 1
        PROVE  OneFile(IF n = 1 THEN At(clone[w].base) ELSE Append(a, new)[n - 1], Append(a, new)[n])
    <3>1. CASE n = Len(a) + 1
        BY <1>1, <2>1, <2>4, <2>5, <3>1
    <3>2. CASE n # Len(a) + 1
        BY <1>1, <2>1, <3>2 DEF CommitsFit
    <3> QED BY <3>1, <3>2
  <2>7. Len(Append(a, new)) = Len(a) + 1
    BY <1>1, <2>1
  <2> QED BY <2>2, <2>3, <2>6, <2>7 DEF CommitsFit, OneFile
<1> QED BY <1>3, <1>4, <1>5, NextCommits DEF CommitsChange

LEMMA PublishedStayFit ==
    ASSUME IInv, CommitInv, [Next]_vars
    PROVE  OneEntityPerCommit'
<1>1. \A n \in 1 .. Len(log) : OneFile(At(n - 1), log[n])
    BY DEF CommitInv, OneEntityPerCommit, OneFile
<1>2. SUFFICES ASSUME NEW n \in 1 .. Len(log') PROVE OneFile(At(n - 1)', log'[n])
    BY DEF OneEntityPerCommit, OneFile
<1>3. log \in Seq(Tree) /\ Len(log) \in Nat
    BY DEF IInv, TypeOK
<1>4. CASE UNCHANGED log
    BY <1>1, <1>2, <1>4 DEF At
<1>5. ASSUME NEW t \in Tasks, PushLands(t) PROVE OneFile(At(n - 1)', log'[n])
  <2> DEFINE c == clone[task[t].ws]
  <2>1. c \in Clone /\ c.ahead \in Seq(Tree) /\ task[t].ws \in Workspaces /\ c.base = Len(log)
        /\ log' = log \o c.ahead
    BY <1>5, EntityFacts DEF PushLands, Ws, Clone
  <2>2. CommitsFit(c)
    BY <2>1 DEF CommitInv
  <2> HIDE DEF c
  <2>3. /\ Len(log') = Len(log) + Len(c.ahead)
        /\ \A m \in 1 .. Len(log) : log'[m] = log[m]
        /\ \A m \in 1 .. Len(c.ahead) : log'[Len(log) + m] = c.ahead[m]
        /\ \A m \in 0 .. Len(log) : At(m)' = At(m)
    BY <2>1, LogGrows DEF IInv
  <2>4. CASE n <= Len(log)
    BY <1>1, <1>2, <1>3, <2>3, <2>4
  <2>5. CASE n > Len(log)
    <3> DEFINE m == n - Len(log)
    <3>1. m \in 1 .. Len(c.ahead) /\ n = Len(log) + m
        BY <1>2, <1>3, <2>1, <2>3, <2>5
    <3>2. log'[n] = c.ahead[m]
        BY <2>3, <3>1
    <3>3. At(n - 1)' = IF m = 1 THEN At(c.base) ELSE c.ahead[m - 1]
      <4>1. CASE m = 1
        BY <1>3, <2>1, <2>3, <3>1, <4>1
      <4>2. CASE m # 1
        <5>1. m - 1 \in 1 .. Len(c.ahead) /\ n - 1 = Len(log) + (m - 1) /\ n - 1 # 0
            BY <1>3, <2>1, <3>1, <4>2
        <5> QED BY <2>3, <4>2, <5>1 DEF At
      <4> QED BY <4>1, <4>2
    <3> QED BY <2>2, <3>1, <3>2, <3>3 DEF CommitsFit
  <2> QED BY <1>2, <1>3, <2>1, <2>4, <2>5
<1> QED BY <1>4, <1>5, OnlyPushes

\* "Each Commit makes exactly one commit touching one entity": whatever is pushed, by
\* store or purge, of a clone fresh or left over from a failed push, differs from the
\* commit before it in one file.
THEOREM CommitsAreSmall == Spec => []OneEntityPerCommit
<1>1. Init => CommitInv
    BY DEF Init, CommitInv, OneEntityPerCommit, CommitsFit, NoClone
<1>2. IInv /\ CommitInv /\ [Next]_vars => CommitInv'
    BY CommitsStayFit, PublishedStayFit DEF CommitInv
<1>3. CommitInv => OneEntityPerCommit
    BY DEF CommitInv
<1> QED BY <1>1, <1>2, <1>3, Inductive, PTL DEF Spec

-----------------------------------------------------------------------------
(* What was purged stays purged.                                            *)

\* Since commit p the remote has had a copy of e that is not the one before p.
Replaced(e, p) == \E n \in p .. Len(log) : log[n][e] \notin {None, At(p - 1)[e]}

\* If e was purged in commit p, then c is the copy that was purged, or another has come.
AsPurged(e, p, c) == p > 0 => c = At(p - 1)[e] \/ Replaced(e, p)

Merging == {"merge", "import", "flip"}

\* The workspace still agrees on what it purged, and its clone is past the purge.
Remembered(w) ==
    \A e \in Entities : /\ AsPurged(e, purgedAt[w][e], agreed[w][e])
                        /\ purgedAt[w][e] <= clone[w].origin

\* So does a merge of it under way, whose locals agree or will; a purge about to be
\* pushed is one commit away from the copy agreed on.
Remembers(t) ==
    LET r == task[t]  w == r.ws  e == r.ent IN
    /\ r.pc \in Merging =>
          \A f \in Entities : AsPurged(f, purgedAt[w][f], r.agr[f]) /\ purgedAt[w][f] <= r.at
    /\ r.pc = "import" => r.agr[r.cur] # At(r.at)[r.cur]
    /\ r.pc = "mark" => purgedAt[w][e] <= clone[w].base
    /\ r.pc = "push" /\ r.op = "purge" =>
          Len(clone[w].ahead) = 1 /\ agreed[w][e] = At(clone[w].base)[e]
    /\ r.pc = "agree" => purgedAt[w][e] <= clone[w].base /\ r.copy = At(clone[w].base)[e]

MemoryInv ==
    /\ \A w \in Workspaces : Remembered(w)
    /\ \A t \in Tasks : Remembers(t)

LEMMA AsPurgedStays ==
    ASSUME LogExtends, Len(log) \in Nat, Len(log') \in Nat, NEW e \in Entities,
           NEW p \in 0 .. Len(log), NEW c, AsPurged(e, p, c)
    PROVE  AsPurged(e, p, c)'
<1>1. CASE p = 0
    BY <1>1 DEF AsPurged
<1>2. CASE p # 0
  <2>1. At(p - 1)' = At(p - 1) /\ \A n \in p .. Len(log) : log'[n] = log[n]
    BY <1>2 DEF LogExtends, At
  <2>2. Replaced(e, p) => Replaced(e, p)'
    BY <2>1 DEF Replaced, LogExtends
  <2> QED BY <2>1, <2>2 DEF AsPurged
<1> QED BY <1>1, <1>2

\* A copy in the remote's history since p is the purged one, or is another.
LEMMA PublishedIsAsPurged ==
    ASSUME NEW e \in Entities, NEW n \in 0 .. Len(log), Len(log) \in Nat, NEW p \in 0 .. n,
           At(n)[e] # None
    PROVE  AsPurged(e, p, At(n)[e])
BY DEF AsPurged, Replaced, At

\* Numbers of commits.
LEMMA MemoryFacts ==
    ASSUME IInv, NEW w \in Workspaces
    PROVE  /\ Len(log) \in Nat /\ log \in Seq(Tree)
           /\ clone[w] \in Clone /\ clone[w].origin \in 0 .. Len(log)
           /\ clone[w].base \in 0 .. Len(log) /\ clone[w].ahead \in Seq(Tree)
           /\ agreed[w] \in Tree
           /\ \A e \in Entities : /\ purgedAt[w][e] \in Nat
                                  /\ Remembered(w) => purgedAt[w][e] \in 0 .. Len(log)
<1>1. /\ Len(log) \in Nat /\ log \in Seq(Tree) /\ clone[w] \in Clone
      /\ clone[w].origin \in 0 .. Len(log) /\ clone[w].base \in 0 .. Len(log)
      /\ clone[w].ahead \in Seq(Tree) /\ agreed[w] \in Tree
    BY DEF IInv, TypeOK, CloneBehind, Clone
<1>2. \A e \in Entities : purgedAt[w][e] \in Nat
    BY DEF IInv, TypeOK
<1> QED BY <1>1, <1>2 DEF Remembered

\* A workspace that agrees as before and whose clone has not gone back.
LEMMA StaysRemembered ==
    ASSUME IInv, IInv', LogExtends, NEW w \in Workspaces, Remembered(w),
           agreed'[w] = agreed[w], purgedAt'[w] = purgedAt[w],
           clone'[w].origin >= clone[w].origin
    PROVE  Remembered(w)'
<1>1. ASSUME NEW e \in Entities
      PROVE  (AsPurged(e, purgedAt[w][e], agreed[w][e]) /\ purgedAt[w][e] <= clone[w].origin)'
  <2>1. PICK p \in 0 .. Len(log) : p = purgedAt[w][e]
    BY MemoryFacts
  <2>2. PICK c : c = agreed[w][e]
    OBVIOUS
  <2>3. AsPurged(e, p, c) /\ p <= clone[w].origin
    BY <2>1, <2>2 DEF Remembered
  <2>4. Len(log) \in Nat /\ Len(log') \in Nat /\ clone[w].origin \in Nat /\ clone'[w].origin \in Nat
    BY DEF IInv, TypeOK, Clone
  <2>5. AsPurged(e, p, c)'
    BY <2>3, <2>4, AsPurgedStays
  <2>6. purgedAt'[w][e] = p /\ agreed'[w][e] = c
    BY <2>1, <2>2
  <2> QED BY <2>3, <2>4, <2>5, <2>6 DEF AsPurged, Replaced
<1> QED BY <1>1 DEF Remembered

\* A coroutine that stays where it is, on a workspace that is its own.
LEMMA StaysRemembering ==
    ASSUME IInv, IInv', MemoryInv, LogExtends, NEW u \in Tasks, task'[u] = task[u],
           task[u].pc \in Holding => /\ clone'[task[u].ws] = clone[task[u].ws]
                                     /\ agreed'[task[u].ws] = agreed[task[u].ws]
                                     /\ purgedAt'[task[u].ws] = purgedAt[task[u].ws]
    PROVE  Remembers(u)'
<1>1. CASE task[u].pc \notin Holding
    BY <1>1 DEF Remembers, Holding, Merging
<1>2. CASE task[u].pc \in Holding
  <2> PICK r : r = task[u]
    OBVIOUS
  <2> PICK w \in Workspaces : w = r.ws
    BY <1>2, Facts
  <2>1. /\ Remembers(u) /\ Remembered(w) /\ r \in Task /\ PhaseOK(r) /\ MergeOK(r)
        /\ r.pc \in Holding /\ r.pc # "idle"
    BY <1>2, Facts DEF MemoryInv
  <2>2. /\ Len(log) \in Nat /\ Len(log') \in Nat /\ clone[w].base \in 0 .. Len(log)
        /\ r.at \in 0 .. Len(log) /\ \A e \in Entities : purgedAt[w][e] \in 0 .. Len(log)
    <3>1. Len(log') \in Nat
        BY DEF IInv, TypeOK
    <3> QED BY <2>1, <3>1, MemoryFacts DEF MergeOK, Task
  <2>3. At(r.at)' = At(r.at)
    BY <2>2 DEF LogExtends
  <2>4. PICK b \in 0 .. Len(log) : b = clone[w].base
    BY <2>2
  <2>5. At(b)' = At(b)
    BY DEF LogExtends
  <2>6. r.pc \in Merging =>
          \A f \in Entities : (AsPurged(f, purgedAt[w][f], r.agr[f]) /\ purgedAt[w][f] <= r.at)'
    <3>1. SUFFICES ASSUME r.pc \in Merging, NEW f \in Entities
                   PROVE  (AsPurged(f, purgedAt[w][f], r.agr[f]) /\ purgedAt[w][f] <= r.at)'
        OBVIOUS
    <3>2. PICK p \in 0 .. Len(log) : p = purgedAt[w][f]
        BY <2>2
    <3>3. AsPurged(f, p, r.agr[f]) /\ p <= r.at
        BY <2>1, <3>1, <3>2 DEF Remembers
    <3>4. AsPurged(f, p, r.agr[f])'
        BY <2>2, <3>3, AsPurgedStays
    <3>5. purgedAt'[w][f] = p
        BY <1>2, <3>2
    <3> QED BY <3>3, <3>4, <3>5 DEF AsPurged, Replaced
  <2>7. clone'[w] = clone[w] /\ agreed'[w] = agreed[w] /\ purgedAt'[w] = purgedAt[w]
    BY <1>2
  <2>8. At(clone[w].base)' = At(clone[w].base)
    BY <2>4, <2>5, <2>7 DEF At
  <2> QED BY <2>1, <2>3, <2>6, <2>7, <2>8 DEF Remembers
<1> QED BY <1>1, <1>2

\* The phases in which nothing is said of a coroutine.
LEMMA NothingToRemember ==
    ASSUME NEW t \in Tasks, task'[t].pc \notin Merging \cup {"mark", "push", "agree"}
    PROVE  Remembers(t)'
BY DEF Remembers, Merging

\* A step of t: what is left to show is about t, and its workspace if it has changed.
LEMMA StepRemembers ==
    ASSUME IInv, IInv', MemoryInv, LogExtends, NEW t \in Tasks, Elsewhere(t),
           \/ task[t].pc \in Holding
           \/ UNCHANGED <<clone, agreed, purgedAt>>,
           \A w \in Workspaces : w = task[t].ws =>
              \/ Remembered(w)'
              \/ /\ agreed'[w] = agreed[w] /\ purgedAt'[w] = purgedAt[w]
                 /\ clone'[w].origin >= clone[w].origin,
           Remembers(t)'
    PROVE  MemoryInv'
<1>1. ASSUME NEW w \in Workspaces PROVE Remembered(w)'
  <2>1. Remembered(w) /\ clone[w].origin \in Nat
    BY MemoryFacts DEF MemoryInv
  <2>2. CASE w # task[t].ws
    BY <2>1, <2>2, StaysRemembered DEF Elsewhere
  <2>3. CASE w = task[t].ws
    BY <2>1, <2>3, StaysRemembered
  <2> QED BY <2>2, <2>3
<1>2. ASSUME NEW u \in Tasks, u # t PROVE Remembers(u)'
  <2>1. task'[u] = task[u]
    BY <1>2 DEF Elsewhere
  <2>2. ASSUME task[u].pc \in Holding
        PROVE  /\ clone'[task[u].ws] = clone[task[u].ws]
               /\ agreed'[task[u].ws] = agreed[task[u].ws]
               /\ purgedAt'[task[u].ws] = purgedAt[task[u].ws]
    <3>1. task[u].ws \in Workspaces /\ (task[t].pc \in Holding => task[u].ws # task[t].ws)
        BY <1>2, <2>2, Facts
    <3> QED BY <3>1 DEF Elsewhere
  <2> QED BY <2>1, <2>2, StaysRemembering
<1> QED BY <1>1, <1>2 DEF MemoryInv

\* Steps that neither agree nor purge, and end outside the phases above.
LEMMA PlainRemembers ==
    ASSUME IInv, IInv', MemoryInv, LogExtends, NEW t \in Tasks, Elsewhere(t),
           \/ task[t].pc \in Holding
           \/ UNCHANGED clone,
           UNCHANGED <<agreed, purgedAt>>,
           task[t].ws \in Workspaces => clone'[task[t].ws].origin >= clone[task[t].ws].origin,
           task'[t].pc \notin Merging \cup {"mark", "push", "agree"}
    PROVE  MemoryInv'
BY NothingToRemember, StepRemembers

LEMMA QuietPhases ==
    ASSUME IInv, NEW t \in Tasks
    PROVE  /\ Finish(t) => task'[t].pc = "idle"
           /\ \A pc \in Phases : Goto(t, pc) \/ Leave(t, pc) => task'[t].pc = pc
<1>1. Finish(t) => task'[t].pc = "idle"
    BY DEF IInv, TypeOK, Finish, Idle, Request
<1> QED BY <1>1, GotoFacts DEF Leave

LEMMA EnsureRemembers ==
    ASSUME IInv, IInv', MemoryInv, LogExtends, NEW t \in Tasks, Elsewhere(t),
           EnsureRepo(t) \/ CloneKilled(t) \/ GitFails(t)
    PROVE  MemoryInv'
<1> DEFINE w == task[t].ws
<1>1. task[t].pc \in Holding /\ UNCHANGED <<agreed, purgedAt>>
    BY DEF EnsureRepo, EnsureDone, CloneRemote, InitLocal, AttachRemote, Configure, CloneKilled,
       GitFails, UnchangedButClone, Holding, sync, history
<1>2. task'[t].pc \in {"idle", "attach", "config", "fetch"}
    BY QuietPhases DEF EnsureRepo, EnsureDone, CloneRemote, InitLocal, AttachRemote, Configure,
       CloneKilled, GitFails, Phases, Holding
<1>3. w \in Workspaces => clone'[w].origin >= clone[w].origin
  <2>1. SUFFICES ASSUME w \in Workspaces PROVE clone'[w].origin >= clone[w].origin
    OBVIOUS
  <2>2. clone[w] \in Clone /\ clone[w].origin \in 0 .. Len(log) /\ clone \in [Workspaces -> Clone]
        /\ Len(log) \in Nat
    BY <2>1, MemoryFacts DEF IInv, TypeOK
  <2> QED BY <2>1, <2>2 DEF EnsureRepo, EnsureDone, CloneRemote, InitLocal, AttachRemote,
        Configure, CloneKilled, GitFails, Ws, Clone
<1> QED BY <1>1, <1>2, <1>3, PlainRemembers DEF Merging

LEMMA FetchRemembers ==
    ASSUME IInv, IInv', MemoryInv, LogExtends, NEW t \in Tasks, Elsewhere(t), Fetch(t)
    PROVE  MemoryInv'
<1>1. task[t].pc = "fetch" /\ task[t].pc \in Holding /\ task[t].ws \in Workspaces
      /\ UNCHANGED <<log, agreed, purgedAt>>
    BY Facts DEF Fetch, FetchHead, FetchNoHead, UnchangedButClone, Holding, sync, history
<1> PICK w \in Workspaces : w = task[t].ws
    BY <1>1
<1>2. /\ clone[w] \in Clone /\ clone[w].origin \in 0 .. Len(log)
      /\ Len(log) \in Nat /\ Remembered(w)
      /\ \A e \in Entities : purgedAt[w][e] \in 0 .. Len(log)
    BY <1>1, MemoryFacts DEF MemoryInv
<1>3. CASE FetchNoHead(t)
  <2>1. task'[t].pc \in {"idle", "purgeRow", "load"}
    BY <1>3, QuietPhases DEF FetchNoHead, Phases, Holding
  <2> QED BY <1>1, <1>2, <1>3, <2>1, PlainRemembers DEF FetchNoHead, Merging
<1>4. CASE FetchHead(t)
  <2> DEFINE c == IF task[t].op \in Resets
                  THEN [clone[w] EXCEPT !.origin = Len(log), !.base = Len(log), !.ahead = <<>>]
                  ELSE [clone[w] EXCEPT !.origin = Len(log)]
  <2>1. clone'[w] = c
    BY <1>1, <1>4 DEF FetchHead, Ws, IInv, TypeOK
  <2>2. c.origin = Len(log) /\ (task[t].op \in Resets => c.base = Len(log))
    BY <1>2 DEF Clone
  <2> HIDE DEF c
  <2>3. /\ task'[t].pc = IF task[t].op = "purge" THEN "mark" ELSE "merge"
        /\ task'[t].op = task[t].op /\ task'[t].ws = w /\ task'[t].ent = task[t].ent
        /\ task'[t].at = Len(log) /\ task'[t].agr = agreed[w]
    <3> DEFINE pc == IF task[t].op = "purge" THEN "mark" ELSE "merge"
               todo == {e \in Entities : log[Len(log)][e] # None}
    <3>1. task' = [task EXCEPT ![t].pc = pc, ![t].at = Len(log), ![t].todo = todo,
                               ![t].agr = agreed[w], ![t].conf = {}]
        BY <1>4 DEF FetchHead, Ws
    <3>2. task \in [Tasks -> Task]
        BY DEF IInv, TypeOK
    <3> HIDE DEF pc, todo
    <3>3. task'[t].pc = pc /\ task'[t].op = task[t].op /\ task'[t].ws = task[t].ws
          /\ task'[t].ent = task[t].ent /\ task'[t].at = Len(log) /\ task'[t].agr = agreed[w]
        BY <3>1, <3>2 DEF Task
    <3> QED BY <3>3 DEF pc
  <2>4. \A e \in Entities : AsPurged(e, purgedAt[w][e], agreed[w][e])'
    BY <1>1, <1>2 DEF Remembered, AsPurged, Replaced, At
  <2>5. task[t].op = "purge" => task[t].ent \in Entities /\ task[t].op \in Resets
    BY Facts DEF PhaseOK, Resets
  <2>6. Remembers(t)'
    BY <1>1, <1>2, <2>1, <2>2, <2>3, <2>4, <2>5 DEF Remembers
  <2>7. clone'[w].origin >= clone[w].origin
    BY <1>2, <2>1, <2>2
  <2> QED BY <1>1, <2>6, <2>7, StepRemembers
<1> QED BY <1>3, <1>4 DEF Fetch

\* What a merge does to its own locals, entity by entity.
MergeMoves(t) ==
    /\ task[t].pc \in Merging /\ task'[t].pc \in Merging
    /\ task'[t].op = task[t].op /\ task'[t].ws = task[t].ws
    /\ task'[t].ent = task[t].ent /\ task'[t].at = task[t].at
    /\ \A e \in Entities :
          \/ task'[t].agr[e] = task[t].agr[e]
          \/ e \in task[t].todo /\ task'[t].agr[e] = RepoCopy(t, e)

LEMMA CompareMoves ==
    ASSUME IInv, NEW t \in Tasks, NEW e \in Entities,
           MergeLocalChange(t, e) \/ MergeSame(t, e) \/ MergeDecide(t, e) \/ MergeConflict(t, e)
    PROVE  /\ MergeMoves(t) /\ UNCHANGED <<log, db, clone, agreed, conflicts, known, merged, purgedAt>>
           /\ task'[t].pc # "merge" => /\ task'[t].cur = e /\ task'[t].agr = task[t].agr
                                       /\ task[t].agr[e] # RepoCopy(t, e)
<1>1. /\ task[t].pc = "merge" /\ e \in task[t].todo
      /\ UNCHANGED <<log, db, clone, agreed, conflicts, known, merged, purgedAt>>
    BY DEF MergeLocalChange, MergeSame, MergeDecide, MergeConflict, AtMerge, UnchangedButTask,
       sync, history
<1>2. /\ task \in [Tasks -> Task] /\ task[t] \in Task
      /\ task[t].agr \in [Entities -> Maybe(Copy)]
    BY DEF IInv, TypeOK, Task
<1>3. CASE MergeLocalChange(t, e)
    BY <1>1, <1>2, <1>3 DEF MergeLocalChange, MergeMoves, Merging, Task
<1>4. CASE MergeSame(t, e)
    BY <1>1, <1>2, <1>4 DEF MergeSame, MergeMoves, Merging, Task
<1>5. CASE MergeDecide(t, e)
  <2>1. PICK pc \in {"import", "flip"} : task' = [task EXCEPT ![t].pc = pc, ![t].cur = e]
    BY <1>5 DEF MergeDecide
  <2>2. task[t].agr[e] # RepoCopy(t, e)
    BY <1>5 DEF MergeDecide
  <2> QED BY <1>1, <1>2, <2>1, <2>2 DEF MergeMoves, Merging, Task
<1>6. CASE MergeConflict(t, e)
    BY <1>1, <1>2, <1>6 DEF MergeConflict, MergeMoves, Merging, Task
<1> QED BY <1>3, <1>4, <1>5, <1>6

LEMMA WriteMoves ==
    ASSUME IInv, NEW t \in Tasks, MergeImport(t) \/ MergeFlip(t)
    PROVE  /\ MergeMoves(t) /\ task'[t].pc = "merge"
           /\ UNCHANGED <<log, clone, agreed, conflicts, merged, purgedAt>>
<1>1. PICK agree \in BOOLEAN : Merged(t, agree)
    BY DEF MergeImport, MergeFlip, Row
<1>2. /\ task[t].pc \in {"import", "flip"}
      /\ UNCHANGED <<log, clone, agreed, conflicts, merged, purgedAt>>
    BY DEF MergeImport, MergeFlip, sync, history
<1> QED BY <1>1, <1>2, MergedFacts DEF MergeMoves, Merging

LEMMA MergeMovesRemember ==
    ASSUME IInv, IInv', MemoryInv, LogExtends, NEW t \in Tasks, Elsewhere(t), MergeMoves(t),
           UNCHANGED <<log, clone, agreed, purgedAt>>,
           task'[t].pc = "import" => task'[t].agr[task'[t].cur] # At(task[t].at)[task'[t].cur]
    PROVE  MemoryInv'
<1>1. /\ task[t].pc \in Holding /\ task[t].ws \in Workspaces /\ task[t].pc # "idle"
      /\ task[t].pc \in Merging /\ Remembers(t) /\ task[t] \in Task /\ MergeOK(task[t])
    BY Facts DEF MergeMoves, Merging, Holding, MemoryInv
<1> PICK w \in Workspaces : w = task[t].ws
    BY <1>1
<1>2. Remembered(w) /\ Len(log) \in Nat /\ task[t].at \in 0 .. Len(log)
      /\ \A e \in Entities : purgedAt[w][e] \in 0 .. Len(log)
    BY <1>1, MemoryFacts DEF MemoryInv, MergeOK, Task
<1>3. ASSUME NEW e \in Entities
      PROVE  (AsPurged(e, purgedAt[w][e], task[t].agr[e]) /\ purgedAt[w][e] <= task[t].at)'
  <2>1. AsPurged(e, purgedAt[w][e], task[t].agr[e]) /\ purgedAt[w][e] <= task[t].at
    BY <1>1 DEF Remembers
  <2>2. AsPurged(e, purgedAt[w][e], task'[t].agr[e])
    <3>1. CASE task'[t].agr[e] = task[t].agr[e]
        BY <2>1, <3>1
    <3>2. CASE e \in task[t].todo /\ task'[t].agr[e] = RepoCopy(t, e)
      <4>1. RepoCopy(t, e) = At(task[t].at)[e] /\ At(task[t].at)[e] # None
        BY <1>1, <3>2 DEF RepoCopy, MergeOK
      <4>2. PICK n \in 0 .. Len(log) : n = task[t].at
        BY <1>2
      <4>3. PICK p \in 0 .. n : p = purgedAt[w][e]
        BY <1>2, <2>1, <4>2
      <4> QED BY <1>2, <3>2, <4>1, <4>2, <4>3, PublishedIsAsPurged
    <3> QED BY <3>1, <3>2 DEF MergeMoves
  <2>3. task'[t].at = task[t].at
    BY DEF MergeMoves
  <2> QED BY <2>1, <2>2, <2>3 DEF AsPurged, Replaced, At
<1>4. Remembers(t)'
  <2>1. At(task[t].at)' = At(task[t].at)
    BY DEF MergeMoves, At
  <2> QED BY <1>3, <2>1 DEF Remembers, MergeMoves, Merging
<1> QED BY <1>1, <1>4, StepRemembers DEF IInv, TypeOK, Clone

LEMMA MergeRemembers ==
    ASSUME IInv, IInv', MemoryInv, LogExtends, NEW t \in Tasks, Elsewhere(t), Merge(t)
    PROVE  MemoryInv'
<1>1. ASSUME NEW e \in Entities,
             MergeLocalChange(t, e) \/ MergeSame(t, e) \/ MergeDecide(t, e) \/ MergeConflict(t, e)
      PROVE  MemoryInv'
    BY <1>1, CompareMoves, MergeMovesRemember DEF RepoCopy
<1>2. CASE MergeImport(t) \/ MergeFlip(t)
    BY <1>2, WriteMoves, MergeMovesRemember
<1>3. CASE MergeSave(t)
  <2>1. /\ task[t].pc = "merge" /\ task[t].pc \in Holding /\ task[t].ws \in Workspaces
        /\ UNCHANGED <<log, clone, purgedAt>>
    BY <1>3, Facts DEF MergeSave, Holding
  <2> PICK w \in Workspaces : w = task[t].ws
    BY <2>1
  <2>2. agreed'[w] = task[t].agr
    BY <1>3 DEF MergeSave, Ws, IInv, TypeOK
  <2>3. task'[t].pc \in {"idle", "load", "read"}
    BY <1>3, QuietPhases DEF MergeSave, Phases, Holding
  <2>4. Remembers(t) /\ Remembered(w)
    BY DEF MemoryInv
  <2>5. Remembered(w)'
    <3>1. \A f \in Entities : AsPurged(f, purgedAt[w][f], task[t].agr[f])
        BY <2>1, <2>4 DEF Remembers, Merging
    <3>2. \A f \in Entities : purgedAt[w][f] <= clone[w].origin
        BY <2>4 DEF Remembered
    <3>3. ASSUME NEW f \in Entities PROVE (AsPurged(f, purgedAt[w][f], agreed[w][f]))'
      <4>1. agreed'[w][f] = task[t].agr[f] /\ purgedAt'[w][f] = purgedAt[w][f] /\ log' = log
        BY <2>1, <2>2
      <4> QED BY <3>1, <4>1 DEF AsPurged, Replaced, At
    <3> QED BY <2>1, <3>2, <3>3 DEF Remembered
  <2>6. Remembers(t)'
    BY <2>3, NothingToRemember DEF Merging
  <2> QED BY <2>1, <2>5, <2>6, StepRemembers
<1> QED BY <1>1, <1>2, <1>3 DEF Merge

\* _agree: the copy that is recorded was published since the last purge.
LEMMA SettlesRemembered ==
    ASSUME IInv, NEW w \in Workspaces, NEW e \in Entities, NEW n \in 0 .. Len(log),
           Remembered(w), UNCHANGED <<log, purgedAt>>, clone'[w].origin >= clone[w].origin,
           clone'[w].origin \in Nat, SettleOn(w, e, At(n)[e]), purgedAt[w][e] <= n
    PROVE  Remembered(w)'
<1>1. /\ agreed \in [Workspaces -> Tree] /\ agreed[w] \in Tree
      /\ Len(log) \in Nat /\ clone[w].origin \in Nat
      /\ \A f \in Entities : purgedAt[w][f] \in 0 .. Len(log)
    BY MemoryFacts DEF IInv, TypeOK
<1>2. \A f \in Entities :
         \/ agreed'[w][f] = agreed[w][f]
         \/ f = e /\ At(n)[e] # None /\ agreed'[w][f] = At(n)[e]
    BY <1>1 DEF SettleOn, Tree
<1>3. ASSUME NEW f \in Entities PROVE AsPurged(f, purgedAt[w][f], agreed'[w][f])
  <2>1. CASE agreed'[w][f] = agreed[w][f]
    BY <2>1 DEF Remembered
  <2>2. CASE f = e /\ At(n)[e] # None /\ agreed'[w][f] = At(n)[e]
    <3>1. PICK p \in 0 .. n : p = purgedAt[w][e]
        BY <1>1
    <3> QED BY <1>1, <2>2, <3>1, PublishedIsAsPurged
  <2> QED BY <1>2, <2>1, <2>2
<1>4. \A f \in Entities : purgedAt'[w][f] <= clone'[w].origin
    BY <1>1 DEF Remembered
<1>5. \A f \in Entities : (AsPurged(f, purgedAt[w][f], agreed[w][f]))'
    BY <1>3 DEF AsPurged, Replaced, At
<1> QED BY <1>4, <1>5 DEF Remembered

LEMMA StoreRemembers ==
    ASSUME IInv, IInv', MemoryInv, LogExtends, NEW t \in Tasks, Elsewhere(t),
           StoreMissing(t) \/ StoreNoChanges(t) \/ StoreCommit(t) \/ StoreAgree(t)
    PROVE  MemoryInv'
<1>1. /\ task[t].pc \in {"load", "agree"} /\ task[t].pc \in Holding
      /\ task[t].op = "store" /\ task[t].ws \in Workspaces /\ task[t].ent \in Entities
      /\ PhaseOK(task[t]) /\ Remembers(t)
    BY Facts, EntityFacts DEF StoreMissing, StoreNoChanges, StoreCommit, StoreAgree, Holding, PhaseOK,
       MemoryInv
<1> PICK w \in Workspaces : w = task[t].ws
    BY <1>1
<1>2. /\ clone \in [Workspaces -> Clone] /\ clone[w] \in Clone /\ clone[w].origin \in Nat
      /\ clone[w].base \in 0 .. Len(log) /\ Remembered(w)
    BY MemoryFacts DEF MemoryInv, IInv, TypeOK
<1>3. CASE StoreMissing(t) \/ StoreNoChanges(t)
  <2>1. task'[t].pc = "idle" /\ UNCHANGED <<clone, agreed, purgedAt>>
    BY <1>3, QuietPhases DEF StoreMissing, StoreNoChanges, sync, history
  <2> QED BY <1>1, <1>2, <2>1, PlainRemembers DEF Merging
<1>4. CASE StoreCommit(t)
  <2>1. task'[t].pc = "push" /\ task'[t].op = "store" /\ UNCHANGED <<agreed, purgedAt>>
    BY <1>1, <1>4 DEF StoreCommit, UnchangedButClone, sync, history, IInv, TypeOK, Task
  <2>2. clone'[w].origin = clone[w].origin
    BY <1>2, <1>4 DEF StoreCommit, Ws, Commit, Clone
  <2>3. Remembers(t)'
    BY <2>1 DEF Remembers, Merging
  <2> QED BY <1>1, <1>2, <2>1, <2>2, <2>3, StepRemembers
<1>5. CASE StoreAgree(t)
  <2>1. /\ SettleOn(w, task[t].ent, task[t].copy) /\ task'[t].pc = "idle"
        /\ UNCHANGED <<log, clone, purgedAt>> /\ task[t].pc = "agree"
    BY <1>5, QuietPhases DEF StoreAgree, Ws, Ent, history
  <2>2. PICK n \in 0 .. Len(log) : n = clone[w].base
    BY <1>2
  <2>3. task[t].copy = At(n)[task[t].ent] /\ purgedAt[w][task[t].ent] <= n
    BY <1>1, <2>1, <2>2 DEF Remembers
  <2>4. Remembered(w)'
    BY <1>1, <1>2, <2>1, <2>3, SettlesRemembered
  <2>5. Remembers(t)'
    BY <2>1, NothingToRemember DEF Merging
  <2> QED BY <1>1, <2>4, <2>5, StepRemembers
<1> QED BY <1>3, <1>4, <1>5

LEMMA RestoreRemembers ==
    ASSUME IInv, IInv', MemoryInv, LogExtends, NEW t \in Tasks, Elsewhere(t),
           (\E r \in 1 .. Len(log) : RestoreRead(t, r)) \/ RestoreWrite(t) \/ RestoreSettle(t)
    PROVE  MemoryInv'
<1>1. /\ task[t].pc \in {"read", "write", "settle"}
      /\ task[t].ws \in Workspaces /\ task[t].ent \in Entities
    BY EntityFacts DEF RestoreRead, RestoreWrite, RestoreSettle
<1> PICK w \in Workspaces : w = task[t].ws
    BY <1>1
<1>2. clone[w] \in Clone /\ clone[w].origin \in 0 .. Len(log) /\ Remembered(w)
      /\ task \in [Tasks -> Task]
    BY MemoryFacts DEF MemoryInv, IInv, TypeOK
<1>3. CASE (\E r \in 1 .. Len(log) : RestoreRead(t, r)) \/ RestoreWrite(t)
  <2>1. UNCHANGED <<clone, agreed, purgedAt>>
    BY <1>3 DEF RestoreRead, RestoreWrite, sync, history
  <2>2. task'[t].pc \in {"idle", "write", "relock"}
    BY <1>2, <1>3, QuietPhases DEF RestoreRead, RestoreWrite, Phases, Waiting, Task
  <2> QED BY <1>2, <2>1, <2>2, PlainRemembers DEF Merging
<1>4. CASE RestoreSettle(t)
  <2>1. /\ SettleOn(w, task[t].ent, At(clone[w].origin)[task[t].ent]) /\ task'[t].pc = "idle"
        /\ UNCHANGED <<log, clone, purgedAt>> /\ task[t].pc \in Holding
    BY <1>4, QuietPhases DEF RestoreSettle, Ws, Ent, Holding
  <2>2. purgedAt[w][task[t].ent] <= clone[w].origin
    BY <1>1, <1>2 DEF Remembered
  <2>3. Remembered(w)'
    BY <1>1, <1>2, <2>1, <2>2, SettlesRemembered
  <2>4. Remembers(t)'
    BY <2>1, NothingToRemember DEF Merging
  <2> QED BY <2>1, <2>3, <2>4, StepRemembers
<1> QED BY <1>3, <1>4

\* What PushLands puts on the remote: the clone's commits, the last of them its head.
LEMMA LandedFacts ==
    ASSUME IInv, NEW t \in Tasks, PushLands(t)
    PROVE  /\ task[t].pc = "push" /\ task[t].pc \in Holding
           /\ task[t].ws \in Workspaces /\ task[t].ent \in Entities
           /\ Len(clone[task[t].ws].ahead) \in Nat \ {0}
           /\ clone[task[t].ws].base = Len(log) /\ Len(log) \in Nat
           /\ Len(log') = Len(log) + Len(clone[task[t].ws].ahead)
           /\ log'[Len(log')] = HeadTree(clone[task[t].ws])
<1>1. /\ task[t].pc = "push" /\ task[t].pc \in Holding
      /\ task[t].ws \in Workspaces /\ task[t].ent \in Entities
    BY Facts, EntityFacts DEF PushLands, Holding
<1> PICK c \in Clone : c = clone[task[t].ws]
    BY <1>1 DEF IInv, TypeOK
<1>2. /\ c.ahead \in Seq(Tree) /\ c.ahead # <<>> /\ c.base = Len(log) /\ log \in Seq(Tree)
      /\ log' = log \o c.ahead
    BY <1>1, Facts DEF PushLands, PushOK, Ws, Clone, IInv, TypeOK
<1>3. /\ Len(log') = Len(log) + Len(c.ahead)
      /\ \A n \in 1 .. Len(c.ahead) : log'[Len(log) + n] = c.ahead[n]
    BY <1>2, LogGrows DEF IInv
<1>4. Len(c.ahead) \in Nat \ {0} /\ Len(log) \in Nat
    BY <1>2
<1>5. log'[Len(log')] = HeadTree(c)
  <2>1. HeadTree(c) = c.ahead[Len(c.ahead)]
    BY <1>2 DEF HeadTree
  <2>2. Len(c.ahead) \in 1 .. Len(c.ahead)
    BY <1>4
  <2> QED BY <1>3, <2>1, <2>2
<1> QED BY <1>1, <1>2, <1>3, <1>4, <1>5

LEMMA PushRemembers ==
    ASSUME IInv, IInv', MemoryInv, LogExtends, NEW t \in Tasks, Elsewhere(t), Push(t)
    PROVE  MemoryInv'
<1>1. /\ task[t].pc = "push" /\ task[t].pc \in Holding
      /\ task[t].ws \in Workspaces /\ task[t].ent \in Entities
      /\ PhaseOK(task[t]) /\ PushOK(task[t]) /\ Remembers(t) /\ task \in [Tasks -> Task]
    BY Facts, EntityFacts DEF Push, PushOk, PushLost, PushRejected, PushLands, Holding, PhaseOK,
       MemoryInv, IInv, TypeOK
<1> PICK w \in Workspaces : w = task[t].ws
    BY <1>1
<1> PICK e \in Entities : e = task[t].ent
    BY <1>1
<1>2. /\ clone \in [Workspaces -> Clone] /\ clone[w] \in Clone /\ clone[w].origin \in 0 .. Len(log)
      /\ clone[w].base \in 0 .. Len(log) /\ Remembered(w) /\ Len(log) \in Nat
      /\ \A f \in Entities : purgedAt[w][f] \in 0 .. Len(log)
    BY MemoryFacts DEF MemoryInv, IInv, TypeOK
<1>3. CASE PushLost(t) \/ PushRejected(t)
  <2>1. UNCHANGED <<clone, agreed, purgedAt>>
    BY <1>3 DEF PushLost, PushRejected, sync, history
  <2>2. task'[t].pc \in {"idle", "ensure"}
    BY <1>1, <1>3, QuietPhases DEF PushLost, PushRejected, Task
  <2> QED BY <1>1, <1>2, <2>1, <2>2, PlainRemembers DEF Merging
<1>4. CASE PushOk(t)
  <2>1. PushLands(t) /\ agreed' = agreed
    BY <1>4 DEF PushOk, sync
  <2>2. /\ Len(log') = Len(log) + Len(clone[w].ahead) /\ Len(clone[w].ahead) \in Nat \ {0}
        /\ clone[w].base = Len(log) /\ log'[Len(log')] = HeadTree(clone[w])
    BY <2>1, LandedFacts
  <2>3. PICK m \in Nat : m = Len(log') /\ m > Len(log)
    BY <1>2, <2>2
  <2>4. clone'[w].origin = m /\ clone'[w].base = m
    BY <1>2, <1>4, <2>3 DEF PushOk, Ws, Clone
  <2>5. At(m)' = HeadTree(clone[w])
    BY <1>2, <2>2, <2>3 DEF At
  <2>6. CASE task[t].op = "store"
    <3>1. Goto(t, "agree") /\ purgedAt' = purgedAt /\ "agree" \in Phases
        BY <1>4, <2>6 DEF PushOk, Phases, Holding
    <3>2. task'[t].pc = "agree" /\ task'[t].ws = w /\ task'[t].ent = e /\ task'[t].copy = task[t].copy
        BY <3>1, GotoFacts
    <3>3. task[t].copy = HeadTree(clone[w])[e]
        BY <1>1, <2>6 DEF PushOK
    <3>4. (At(clone[w].base))' = At(m)'
        BY <2>4 DEF At
    <3>5. purgedAt'[w][e] <= clone'[w].base
        BY <1>2, <2>3, <2>4, <3>1
    <3>6. Remembers(t)'
        BY <2>5, <3>2, <3>3, <3>4, <3>5 DEF Remembers, Merging
    <3>7. clone'[w].origin >= clone[w].origin
        BY <1>2, <2>3, <2>4
    <3> QED BY <1>1, <2>1, <3>1, <3>6, <3>7, StepRemembers
  <2>7. CASE task[t].op = "purge"
    <3>1. /\ Leave(t, "purgeRow") /\ purgedAt' = [purgedAt EXCEPT ![w][e] = m]
          /\ "purgeRow" \in Phases
        BY <1>4, <2>3, <2>7 DEF PushOk, Phases, Ws, Ent
    <3>2. Remembers(t)'
        BY <3>1, QuietPhases, NothingToRemember DEF Merging
    <3>3. m = Len(log) + 1 /\ agreed[w][e] = At(Len(log))[e]
        BY <1>1, <1>2, <2>2, <2>3, <2>7 DEF Remembers
    <3>4. \A f \in Entities : purgedAt'[w][f] = IF f = e THEN m ELSE purgedAt[w][f]
        BY <3>1 DEF IInv, TypeOK
    <3>5. ASSUME NEW f \in Entities
          PROVE  (AsPurged(f, purgedAt[w][f], agreed[w][f]) /\ purgedAt[w][f] <= clone[w].origin)'
      <4>1. CASE f = e
        <5>1. At(m - 1)' = At(Len(log))
            BY <1>2, <3>3 DEF LogExtends
        <5>2. agreed'[w][f] = At(m - 1)'[f] /\ purgedAt'[w][f] = m
            BY <2>1, <3>3, <3>4, <4>1, <5>1
        <5> QED BY <2>3, <2>4, <5>2 DEF AsPurged, At
      <4>2. CASE f # e
        <5>1. PICK p \in 0 .. Len(log) : p = purgedAt[w][f]
            BY <1>2
        <5>2. PICK c : c = agreed[w][f]
            OBVIOUS
        <5>3. AsPurged(f, p, c)
            BY <1>2, <5>1, <5>2 DEF Remembered
        <5>4. AsPurged(f, p, c)'
            BY <1>2, <2>3, <5>3, AsPurgedStays
        <5>5. purgedAt'[w][f] = p /\ agreed'[w][f] = c /\ p <= clone'[w].origin
            BY <1>2, <2>1, <2>3, <2>4, <3>4, <4>2, <5>1, <5>2
        <5> QED BY <5>4, <5>5 DEF AsPurged, Replaced
      <4> QED BY <4>1, <4>2
    <3>6. Remembered(w)'
        BY <3>5 DEF Remembered
    <3> QED BY <1>1, <3>2, <3>6, StepRemembers
  <2> QED BY <1>1, <2>6, <2>7 DEF PhaseOK
<1> QED BY <1>3, <1>4 DEF Push

LEMMA PurgeRemembers ==
    ASSUME IInv, IInv', MemoryInv, LogExtends, NEW t \in Tasks, Elsewhere(t),
           PurgeNoMarker(t) \/ PurgeMarker(t) \/ PurgeRow(t)
    PROVE  MemoryInv'
<1>1. /\ task[t].pc \in {"mark", "purgeRow"} /\ task[t].op = "purge"
      /\ task[t].ws \in Workspaces /\ task[t].ent \in Entities
      /\ PushOK(task[t]) /\ Remembers(t) /\ task \in [Tasks -> Task]
    BY Facts, EntityFacts DEF PurgeNoMarker, PurgeMarker, PurgeRow, PhaseOK, MemoryInv, IInv, TypeOK
<1> PICK w \in Workspaces : w = task[t].ws
    BY <1>1
<1> PICK e \in Entities : e = task[t].ent
    BY <1>1
<1>2. /\ clone \in [Workspaces -> Clone] /\ clone[w] \in Clone /\ clone[w].origin \in 0 .. Len(log)
      /\ clone[w].base \in 0 .. Len(log) /\ Remembered(w) /\ agreed \in [Workspaces -> Tree]
      /\ Len(log) \in Nat
    BY MemoryFacts DEF MemoryInv, IInv, TypeOK
<1>3. CASE PurgeNoMarker(t) \/ PurgeRow(t)
  <2>1. UNCHANGED <<clone, agreed, purgedAt>>
    BY <1>3 DEF PurgeNoMarker, PurgeRow, sync, history
  <2>2. task'[t].pc \in {"purgeRow", "idle"}
    BY <1>1, <1>3, QuietPhases DEF PurgeNoMarker, PurgeRow, Phases, Idle, Request
  <2> QED BY <1>2, <2>1, <2>2, PlainRemembers DEF Merging
<1>4. CASE PurgeMarker(t)
  <2>1. /\ SettleOn(w, e, HeadTree(clone[w])[e]) /\ HeadTree(clone[w])[e] # None
        /\ clone' = [clone EXCEPT ![w] = Commit(@, e, None)] /\ Goto(t, "push")
        /\ task[t].pc = "mark" /\ UNCHANGED <<log, purgedAt>>
        /\ task[t].pc \in Holding /\ "push" \in Phases
    BY <1>4 DEF PurgeMarker, Ws, Ent, Holding, Phases
  <2>2. PICK n \in 0 .. Len(log) : n = clone[w].base
    BY <1>2
  <2>3. clone[w].ahead = <<>> /\ HeadTree(clone[w]) = At(n) /\ purgedAt[w][e] <= n
    BY <1>1, <2>1, <2>2 DEF PushOK, HeadTree, Remembers
  <2>4. clone'[w].origin = clone[w].origin /\ clone'[w].base = n /\ Len(clone'[w].ahead) = 1
    <3>1. PICK new : new = [HeadTree(clone[w]) EXCEPT ![e] = None]
        OBVIOUS
    <3>2. clone'[w] = [clone[w] EXCEPT !.ahead = Append(<<>>, new)]
        BY <1>2, <2>1, <2>3, <3>1 DEF Commit
    <3> QED BY <1>2, <2>2, <3>2 DEF Clone
  <2>5. Remembered(w)'
    <3>1. SettleOn(w, e, At(n)[e]) /\ clone'[w].origin >= clone[w].origin /\ clone'[w].origin \in Nat
        BY <1>2, <2>1, <2>3, <2>4
    <3> QED BY <1>2, <2>1, <2>3, <3>1, SettlesRemembered
  <2>6. task'[t].pc = "push" /\ task'[t].ws = w /\ task'[t].ent = e
    BY <2>1, GotoFacts
  <2>7. agreed'[w][e] = At(n)[e]
    BY <1>2, <2>1, <2>3 DEF SettleOn, Tree
  <2>8. At(clone[w].base)' = At(n)
    BY <2>1, <2>4 DEF At
  <2>9. Remembers(t)'
    BY <2>4, <2>6, <2>7, <2>8 DEF Remembers, Merging
  <2> QED BY <2>1, <2>5, <2>9, StepRemembers
<1> QED BY <1>3, <1>4

LEMMA InitMemory == ASSUME Init PROVE MemoryInv
<1>1. \A w \in Workspaces, e \in Entities : purgedAt[w][e] = 0 /\ clone[w] = NoClone
    BY DEF Init
<1>2. \A t \in Tasks : task[t].pc = "idle"
    BY DEF Init, Idle, Request
<1> QED BY <1>1, <1>2 DEF MemoryInv, Remembered, Remembers, AsPurged, NoClone, Merging

LEMMA NextMemory ==
    ASSUME IInv, IInv', MemoryInv, LogExtends, [Next]_vars
    PROVE  MemoryInv'
<1>1. ASSUME NEW t \in Tasks, Step(t) PROVE MemoryInv'
  <2>1. Elsewhere(t)
    BY <1>1, StepElsewhere
  <2> QED BY <1>1, <2>1, EnsureRemembers, FetchRemembers, MergeRemembers, PushRemembers,
        StoreRemembers, PurgeRemembers, RestoreRemembers DEF Step
<1>2. ASSUME NEW t \in Tasks,
             \/ Acquire(t)
             \/ \E w \in Workspaces, op \in {"sync", "store", "purge", "restore"},
                   e \in Maybe(Entities) : StartOp(t, w, op, e)
      PROVE  MemoryInv'
  <2>1. Elsewhere(t) /\ UNCHANGED <<clone, agreed, purgedAt>>
    BY <1>2, ArrivalElsewhere DEF Elsewhere
  <2>2. task'[t].pc \in {"lock", "ensure", "settle"}
    BY <1>2 DEF Acquire, StartOp, Goto, Request, IInv, TypeOK, Task
  <2>3. \A w \in Workspaces : clone'[w].origin >= clone[w].origin
    BY <2>1 DEF IInv, TypeOK, Clone
  <2> QED BY <2>1, <2>2, <2>3, PlainRemembers DEF Merging
<1>3. ASSUME UNCHANGED <<log, clone, agreed, purgedAt>>,
             \A t \in Tasks : task'[t] = task[t] \/ task'[t].pc = "idle"
      PROVE  MemoryInv'
  <2>1. ASSUME NEW w \in Workspaces PROVE Remembered(w)'
    BY <1>3 DEF MemoryInv, Remembered, AsPurged, Replaced, At
  <2>2. ASSUME NEW t \in Tasks PROVE Remembers(t)'
    <3>1. CASE task'[t] = task[t]
        BY <1>3, <3>1, StaysRemembering
    <3>2. CASE task'[t].pc = "idle"
        BY <3>2, NothingToRemember DEF Merging
    <3> QED BY <1>3, <3>1, <3>2
  <2> QED BY <2>1, <2>2 DEF MemoryInv
<1>4. CASE UserEdit \/ UNCHANGED vars
    BY <1>3, <1>4, EditElsewhere DEF vars, sync, history
<1>5. ASSUME NEW w \in Workspaces, Crash(w) PROVE MemoryInv'
    BY <1>3, <1>5, CrashElsewhere DEF Idle, Request
<1> QED BY <1>1, <1>2, <1>4, <1>5 DEF Next

\* Agreements, merges under way and clones keep up with what their workspace purged.
THEOREM MemoryInductive == Spec => []MemoryInv
<1>1. Init => MemoryInv
    BY InitMemory
<1>2. IInv /\ MemoryInv /\ [Next]_vars => MemoryInv'
    BY NextInv, NextExtends, NextMemory
<1> QED BY <1>1, <1>2, Inductive, PTL DEF Spec

\* A merge imports an entity only if it is not what its workspace has purged.
LEMMA ImportIsNew ==
    ASSUME IInv, MemoryInv, NEW t \in Tasks, NEW w \in Workspaces, NEW e \in Entities,
           purgedAt[w][e] > 0, task[t].ws = w, task[t].pc = "import", task[t].cur = e
    PROVE  Replaced(e, purgedAt[w][e])
<1> DEFINE p == purgedAt[w][e]
           n == task[t].at
<1>1. /\ n \in 0 .. Len(log) /\ Len(log) \in Nat /\ p \in Nat /\ At(n)[e] # None
    BY Facts, MemoryFacts DEF MergeOK, PhaseOK, Task
<1>2. AsPurged(e, p, task[t].agr[e]) /\ p <= n /\ task[t].agr[e] # At(n)[e]
    BY DEF MemoryInv, Remembers, Merging
<1>3. CASE At(n)[e] = At(p - 1)[e]
    BY <1>2, <1>3 DEF AsPurged
<1>4. CASE At(n)[e] # At(p - 1)[e]
    BY <1>1, <1>2, <1>4 DEF Replaced, At
<1> QED BY <1>3, <1>4

\* "Purge removes the marker before the row, so no instance imports it back": the purge
\* agrees on the marker before it pushes its removal, and no later merge, settlement or
\* commit of the workspace forgets it, however requests, crashes and failures interleave.
THEOREM PurgedStaysAway == Spec => NoResurrection
<1>1. IInv /\ MemoryInv /\ [Next]_vars =>
        [\A w \in Workspaces, e \in Queries, t \in Tasks :
            purgedAt[w][e] > 0 /\ Ws(t) = w /\ task[t].pc = "import" /\ task[t].cur = e
               /\ task'[t].pc = "merge" =>
               \E n \in purgedAt[w][e] .. Len(log) :
                   log[n][e] \notin {None, At(purgedAt[w][e] - 1)[e]}]_vars
    BY ImportIsNew DEF Replaced, Ws, Entities
<1> QED BY <1>1, Inductive, MemoryInductive, PTL DEF Spec, NoResurrection

-----------------------------------------------------------------------------
(* Nothing is agreed, overwritten or passed over that has not been seen.    *)

\* No restore has another request of its workspace beside it: it gives its lock up
\* between its write and its settlement, and then settles what it finds.
RestoresAlone ==
    \A t, u \in Tasks : t # u /\ task[t].op = "restore" => Ws(t) # Ws(u)

KnownTo(w, e, c) == c # None => c.content \in known[w][e]

RowsKnown == \A w \in Workspaces, e \in Entities : KnownTo(w, e, db[w][e])

\* What w has agreed on, and what its last merge or purge of e left.
Informed(w) ==
    \A e \in Entities :
        /\ KnownTo(w, e, agreed[w][e])
        /\ merged[w][e] <= Len(log)
        /\ KnownTo(w, e, At(merged[w][e])[e]) \/ e \in conflicts[w]

\* The phases of a restore after its merge.
Restoring == {"read", "write", "relock", "settle"}

\* What r has of its workspace: the version that its clone and its merge are of, the
\* entities still to be merged, and what it will agree on.
Knows(t) ==
    LET r == task[t]  w == r.ws  e == r.ent IN
    /\ r.pc \in Merging \cup Restoring \cup {"mark"} => clone[w].origin = r.at
    /\ r.op \in Resets /\ r.pc \in Merging \cup {"mark"} => clone[w].base = r.at
    /\ r.pc \in Merging =>
          \A f \in Entities : /\ KnownTo(w, f, r.agr[f])
                              /\ KnownTo(w, f, At(r.at)[f]) \/ f \in r.todo \cup r.conf
    /\ r.pc = "flip" => KnownTo(w, r.cur, At(r.at)[r.cur])
    /\ r.pc \in Restoring => merged[w][e] = r.at
    /\ r.pc \in {"load", "push"} => merged[w][e] = clone[w].base
    /\ r.pc = "push" =>
          KnownTo(w, e, IF r.op = "store" THEN r.copy ELSE At(clone[w].base)[e])
    /\ r.pc = "agree" => KnownTo(w, e, r.copy) /\ KnownTo(w, e, At(merged[w][e])[e])

KnownInv ==
    /\ RowsKnown
    /\ \A w \in Workspaces : Informed(w)
    /\ \A t \in Tasks : Knows(t)

KnownGrows == \A w \in Workspaces, e \in Entities : known[w][e] \subseteq known'[w][e]

LEMMA GrowsBySet ==
    ASSUME IInv, NEW w \in Workspaces, NEW e \in Entities, NEW row, SetRow(w, e, row)
    PROVE  KnownGrows /\ row.content \in known'[w][e]
BY DEF IInv, TypeOK, SetRow, KnownGrows

LEMMA GrowsBySeen ==
    ASSUME IInv, NEW w \in Workspaces, NEW e \in Entities, NEW n, Seen(w, e, n)
    PROVE  KnownGrows /\ (At(n)[e] # None => At(n)[e].content \in known'[w][e])
BY DEF IInv, TypeOK, Seen, KnownGrows

LEMMA StepGrows ==
    ASSUME IInv, NEW t \in Tasks, Step(t)
    PROVE  KnownGrows
<1>1. CASE UNCHANGED known
    BY <1>1 DEF KnownGrows
<1>2. CASE MergeImport(t)
  <2>1. task[t].cur \in Entities /\ task[t].ws \in Workspaces
    BY <1>2, Facts DEF MergeImport, PhaseOK, Task
  <2> QED BY <1>2, <2>1, GrowsBySet DEF MergeImport, Ws
<1>3. CASE PushLands(t) \/ PurgeMarker(t) \/ RestoreWrite(t) \/ RestoreSettle(t)
  <2>1. task[t].ent \in Entities /\ task[t].ws \in Workspaces
    BY <1>3, EntityFacts DEF PushLands, PurgeMarker, RestoreWrite, RestoreSettle
  <2> QED BY <1>3, <2>1, GrowsBySet, GrowsBySeen
      DEF PushLands, PurgeMarker, RestoreWrite, RestoreSettle, Ws, Ent
<1>4. CASE EnsureRepo(t) \/ Fetch(t) \/ CloneKilled(t) \/ GitFails(t)
    BY <1>1, <1>4 DEF EnsureRepo, EnsureDone, CloneRemote, InitLocal, AttachRemote, Configure,
       UnchangedButClone, Fetch, FetchHead, FetchNoHead, CloneKilled, GitFails, history
<1>5. CASE Merge(t)
    BY <1>1, <1>2, <1>5 DEF Merge, MergeLocalChange, MergeSame, MergeDecide, MergeConflict,
       MergeFlip, MergeSave, UnchangedButTask, history
<1>6. CASE Push(t)
    BY <1>1, <1>3, <1>6 DEF Push, PushOk, PushLost, PushRejected, history
<1>7. CASE StoreMissing(t) \/ StoreNoChanges(t) \/ StoreCommit(t) \/ StoreAgree(t)
    BY <1>1, <1>7 DEF StoreMissing, StoreNoChanges, StoreCommit, StoreAgree, UnchangedButClone,
       history
<1>8. CASE PurgeNoMarker(t) \/ PurgeRow(t)
    BY <1>1, <1>8 DEF PurgeNoMarker, PurgeRow, history
<1>9. CASE \E r \in 1 .. Len(log) : RestoreRead(t, r)
    BY <1>1, <1>9 DEF RestoreRead, history
<1> QED BY <1>3, <1>4, <1>5, <1>6, <1>7, <1>8, <1>9 DEF Step

LEMMA KnownStays ==
    ASSUME KnownGrows, NEW w \in Workspaces, NEW e \in Entities, NEW c, KnownTo(w, e, c)
    PROVE  KnownTo(w, e, c)'
BY DEF KnownGrows, KnownTo

\* Rows that stay, go, or are written and remembered.
LEMMA RowsStayKnown ==
    ASSUME RowsKnown, KnownGrows,
           \A w \in Workspaces, e \in Entities :
              \/ db'[w][e] = db[w][e]
              \/ db'[w][e] # None => db'[w][e].content \in known'[w][e]
    PROVE  RowsKnown'
BY DEF RowsKnown, KnownTo, KnownGrows

LEMMA EditKnows ==
    ASSUME IInv, RowsKnown, UserEdit
    PROVE  KnownGrows /\ RowsKnown'
<1>1. db \in [Workspaces -> Tree] /\ known \in [Workspaces -> [Entities -> SUBSET Contents]]
    BY DEF IInv, TypeOK
<1>2. ASSUME NEW w \in Workspaces, NEW e \in Entities, NEW row, SetRow(w, e, row)
      PROVE  KnownGrows /\ RowsKnown'
  <2>1. KnownGrows /\ row.content \in known'[w][e]
    BY <1>2, GrowsBySet
  <2>2. db' = [db EXCEPT ![w][e] = row]
    BY <1>2 DEF SetRow
  <2> QED BY <1>1, <2>1, <2>2, RowsStayKnown DEF Tree
<1>3. CASE \E w \in Workspaces, e \in Entities, c \in Contents : Save(w, e, c)
    BY <1>2, <1>3 DEF Save
<1>4. CASE \E w \in Workspaces, q \in Queries, d \in BOOLEAN : SetDeleted(w, q, d)
    BY <1>2, <1>4 DEF SetDeleted, Entities
<1>5. CASE \E w \in Workspaces, q, new \in Queries : Rename(w, q, new)
  <2>1. PICK w \in Workspaces, q \in Queries, new \in Queries : Rename(w, q, new)
    BY <1>5
  <2>2. /\ db' = [db EXCEPT ![w][new] = db[w][q], ![w][q] = None]
        /\ known' = [known EXCEPT ![w][new] = @ \cup {db[w][q].content}]
        /\ q \in Entities /\ new \in Entities
    BY <2>1 DEF Rename, Entities
  <2>3. KnownGrows /\ db[w][q].content \in known'[w][new]
    BY <1>1, <2>2 DEF KnownGrows
  <2>4. \A v \in Workspaces, e \in Entities :
           \/ db'[v][e] = db[v][e]
           \/ db'[v][e] = None
           \/ v = w /\ e = new /\ db'[v][e] = db[w][q]
    BY <1>1, <2>2 DEF Tree
  <2> QED BY <2>3, <2>4, RowsStayKnown
<1> QED BY <1>3, <1>4, <1>5 DEF UserEdit

\* A version that is known stays known, and stays the same version.
LEMMA KnownAtStays ==
    ASSUME KnownGrows, LogExtends, NEW w \in Workspaces, NEW e \in Entities,
           NEW n \in 0 .. Len(log), KnownTo(w, e, At(n)[e])
    PROVE  KnownTo(w, e, At(n)[e])'
<1>1. At(n)' = At(n)
    BY DEF LogExtends
<1> QED BY <1>1 DEF KnownGrows, KnownTo

\* A workspace that agrees as before, and has merged nothing else.
LEMMA StaysInformed ==
    ASSUME IInv, IInv', KnownGrows, LogExtends, NEW w \in Workspaces, Informed(w),
           agreed'[w] = agreed[w], conflicts'[w] = conflicts[w], merged'[w] = merged[w]
    PROVE  Informed(w)'
<1>1. SUFFICES ASSUME NEW e \in Entities
               PROVE  (/\ KnownTo(w, e, agreed[w][e])
                       /\ merged[w][e] <= Len(log)
                       /\ KnownTo(w, e, At(merged[w][e])[e]) \/ e \in conflicts[w])'
    BY DEF Informed
<1>2. /\ merged[w][e] \in Nat /\ Len(log) \in Nat /\ Len(log') \in Nat
      /\ merged[w][e] <= Len(log) /\ KnownTo(w, e, agreed[w][e])
      /\ KnownTo(w, e, At(merged[w][e])[e]) \/ e \in conflicts[w]
    BY DEF IInv, TypeOK, Informed
<1>3. PICK n \in 0 .. Len(log) : n = merged[w][e]
    BY <1>2
<1>4. PICK c : c = agreed[w][e]
    OBVIOUS
<1>5. KnownTo(w, e, c)' /\ (KnownTo(w, e, At(n)[e]) => KnownTo(w, e, At(n)[e])')
    BY <1>2, <1>4, KnownStays, KnownAtStays
<1>6. merged'[w][e] = n /\ agreed'[w][e] = c
    BY <1>3, <1>4
<1> QED BY <1>2, <1>3, <1>5, <1>6 DEF LogExtends, KnownTo, At

\* A coroutine that stays where it is, on a workspace that is its own.
LEMMA StaysKnowing ==
    ASSUME IInv, IInv', KnownInv, KnownGrows, LogExtends, NEW u \in Tasks, task'[u] = task[u],
           task[u].pc \in Holding \cup Restoring =>
              clone'[task[u].ws] = clone[task[u].ws] /\ merged'[task[u].ws] = merged[task[u].ws]
    PROVE  Knows(u)'
<1>1. CASE task[u].pc \notin Holding \cup Restoring
    BY <1>1 DEF Knows, Holding, Merging, Restoring
<1>2. CASE task[u].pc \in Holding \cup Restoring
  <2> PICK r : r = task[u]
    OBVIOUS
  <2> PICK w \in Workspaces : w = r.ws
    BY <1>2, Facts DEF Restoring, PhaseOK
  <2> PICK e : e = r.ent
    OBVIOUS
  <2>1. /\ Knows(u) /\ Informed(w) /\ r \in Task /\ PhaseOK(r) /\ MergeOK(r)
        /\ r.pc \in Holding \cup Restoring /\ r.at \in 0 .. Len(log)
        /\ clone[w].base \in 0 .. Len(log) /\ Len(log) \in Nat
    BY <1>2, Facts, MemoryFacts DEF KnownInv, MergeOK, Task
  <2>2. PICK b \in 0 .. Len(log) : b = clone[w].base
    BY <2>1
  <2>3. At(r.at)' = At(r.at) /\ At(b)' = At(b)
    BY <2>1 DEF LogExtends
  <2>4. clone'[w] = clone[w] /\ merged'[w] = merged[w]
    BY <1>2
  <2>5. r.pc \in Merging =>
          \A f \in Entities : (/\ KnownTo(w, f, r.agr[f])
                               /\ KnownTo(w, f, At(r.at)[f]) \/ f \in r.todo \cup r.conf)'
    BY <2>1, KnownStays, KnownAtStays DEF Knows
  <2>6. r.pc = "flip" => KnownTo(w, r.cur, At(r.at)[r.cur])'
    <3>1. r.pc = "flip" => r.cur \in Entities /\ KnownTo(w, r.cur, At(r.at)[r.cur])
        BY <2>1 DEF PhaseOK, Task, Knows
    <3> QED BY <2>1, <3>1, KnownAtStays
  <2>7. r.pc \in {"push", "agree"} \cup Restoring => e \in Entities
    BY <2>1 DEF PhaseOK, Restoring
  <2>8. r.pc = "push" => KnownTo(w, e, IF r.op = "store" THEN r.copy ELSE At(b)[e])'
    <3>1. r.pc = "push" => KnownTo(w, e, IF r.op = "store" THEN r.copy ELSE At(b)[e])
        BY <2>1, <2>2 DEF Knows
    <3> QED BY <2>7, <3>1, KnownStays, KnownAtStays
  <2>9. r.pc = "agree" => KnownTo(w, e, r.copy)' /\ KnownTo(w, e, At(merged[w][e])[e])'
    <3>1. SUFFICES ASSUME r.pc = "agree"
                   PROVE  KnownTo(w, e, r.copy)' /\ KnownTo(w, e, At(merged[w][e])[e])'
        OBVIOUS
    <3>2. e \in Entities /\ KnownTo(w, e, r.copy) /\ KnownTo(w, e, At(merged[w][e])[e])
        BY <2>1, <2>7, <3>1 DEF Knows
    <3>3. merged[w][e] \in 0 .. Len(log)
      <4>1. merged[w][e] \in Nat
        BY <3>2 DEF IInv, TypeOK
      <4>2. merged[w][e] <= Len(log)
        BY <2>1, <3>2 DEF Informed
      <4>3. Len(log) \in Nat
        BY DEF IInv, TypeOK
      <4> QED BY <4>1, <4>2, <4>3
    <3>4. PICK n \in 0 .. Len(log) : n = merged[w][e]
        BY <3>3
    <3>5. KnownTo(w, e, r.copy)' /\ KnownTo(w, e, At(n)[e])'
        BY <3>2, <3>4, KnownStays, KnownAtStays
    <3>6. merged'[w][e] = n
        BY <2>4, <3>4
    <3> QED BY <3>5, <3>6 DEF KnownTo, At
  <2>10. clone'[w].base = b
    BY <2>2, <2>4
  <2> HIDE DEF KnownInv
  <2>11. (r.pc = "push" => KnownTo(w, e, IF r.op = "store" THEN r.copy ELSE At(clone[w].base)[e]))'
    BY <2>8, <2>10 DEF KnownTo, At
  <2> QED BY <2>1, <2>4, <2>5, <2>6, <2>9, <2>11 DEF Knows
<1> QED BY <1>1, <1>2

\* A step of t: what is left to show is about t, the rows, and its workspace if that
\* has agreed, merged or settled something.
LEMMA StepKnows ==
    ASSUME IInv, IInv', KnownInv, RestoresAlone, KnownGrows, LogExtends, NEW t \in Tasks,
           Elsewhere(t), RowsKnown',
           \/ task[t].pc \in Holding
           \/ UNCHANGED <<clone, merged>>,
           \A w \in Workspaces : w = task[t].ws =>
              \/ Informed(w)'
              \/ /\ agreed'[w] = agreed[w] /\ conflicts'[w] = conflicts[w]
                 /\ merged'[w] = merged[w],
           Knows(t)'
    PROVE  KnownInv'
<1>1. ASSUME NEW w \in Workspaces PROVE Informed(w)'
  <2>1. Informed(w)
    BY DEF KnownInv
  <2>2. CASE w # task[t].ws
    BY <2>1, <2>2, StaysInformed DEF Elsewhere
  <2>3. CASE w = task[t].ws
    BY <2>1, <2>3, StaysInformed
  <2> QED BY <2>2, <2>3
<1>2. ASSUME NEW u \in Tasks, u # t PROVE Knows(u)'
  <2>1. task'[u] = task[u]
    BY <1>2 DEF Elsewhere
  <2>2. ASSUME task[u].pc \in Holding \cup Restoring
        PROVE  clone'[task[u].ws] = clone[task[u].ws] /\ merged'[task[u].ws] = merged[task[u].ws]
    <3>1. task[u].ws \in Workspaces
        BY <2>2, Facts DEF Restoring, PhaseOK
    <3>2. CASE UNCHANGED <<clone, merged>>
        BY <3>2
    <3>3. CASE task[t].pc \in Holding
      <4>1. task[u].pc \in Restoring => task[u].op = "restore"
        BY Facts DEF Restoring, PhaseOK
      <4>2. task[u].ws # task[t].ws
        BY <1>2, <2>2, <3>3, <4>1, Facts DEF RestoresAlone, Ws
      <4> QED BY <3>1, <4>2 DEF Elsewhere
    <3> QED BY <3>2, <3>3
  <2> QED BY <2>1, <2>2, StaysKnowing
<1> QED BY <1>1, <1>2 DEF KnownInv

\* The phases in which nothing is said of a coroutine.
LEMMA NothingToKnow ==
    ASSUME NEW t \in Tasks,
           task'[t].pc \notin Merging \cup Restoring \cup {"mark", "load", "push", "agree"}
    PROVE  Knows(t)'
BY DEF Knows, Merging, Restoring

\* Steps that touch no row, neither agree, merge nor settle, and end outside the phases above.
LEMMA PlainKnows ==
    ASSUME IInv, IInv', KnownInv, RestoresAlone, KnownGrows, LogExtends, NEW t \in Tasks,
           Elsewhere(t),
           \/ task[t].pc \in Holding
           \/ UNCHANGED clone,
           UNCHANGED <<db, agreed, conflicts, merged>>,
           task'[t].pc \notin Merging \cup Restoring \cup {"mark", "load", "push", "agree"}
    PROVE  KnownInv'
BY NothingToKnow, StepKnows, RowsStayKnown DEF KnownInv

LEMMA EnsureKnows ==
    ASSUME IInv, IInv', KnownInv, RestoresAlone, KnownGrows, LogExtends, NEW t \in Tasks,
           Elsewhere(t), EnsureRepo(t) \/ CloneKilled(t) \/ GitFails(t)
    PROVE  KnownInv'
<1>1. task[t].pc \in Holding /\ UNCHANGED <<db, agreed, conflicts, merged>>
    BY DEF EnsureRepo, EnsureDone, CloneRemote, InitLocal, AttachRemote, Configure, CloneKilled,
       GitFails, UnchangedButClone, Holding, sync, history
<1>2. task'[t].pc \in {"idle", "attach", "config", "fetch"}
    BY QuietPhases DEF EnsureRepo, EnsureDone, CloneRemote, InitLocal, AttachRemote, Configure,
       CloneKilled, GitFails, Phases, Holding
<1> QED BY <1>1, <1>2, PlainKnows DEF Merging, Restoring

LEMMA FetchKnows ==
    ASSUME IInv, IInv', KnownInv, RestoresAlone, KnownGrows, LogExtends, NEW t \in Tasks,
           Elsewhere(t), Fetch(t)
    PROVE  KnownInv'
<1>1. /\ task[t].pc = "fetch" /\ task[t].pc \in Holding /\ task[t].ws \in Workspaces
      /\ PhaseOK(task[t]) /\ UNCHANGED <<log, db, agreed, conflicts, known, merged>>
    BY Facts DEF Fetch, FetchHead, FetchNoHead, UnchangedButClone, Holding, sync, history
<1> PICK w \in Workspaces : w = task[t].ws
    BY <1>1
<1>2. /\ clone[w] \in Clone /\ clone[w].base \in 0 .. Len(log) /\ Len(log) \in Nat /\ Informed(w)
      /\ RowsKnown'
    BY <1>1, MemoryFacts, RowsStayKnown DEF KnownInv
<1>3. CASE FetchNoHead(t) /\ task[t].op # "store"
  <2>1. task'[t].pc \in {"idle", "purgeRow"}
    BY <1>3, QuietPhases DEF FetchNoHead, Phases, Holding
  <2> QED BY <1>1, <1>3, <2>1, PlainKnows DEF Merging, Restoring
<1>4. CASE FetchNoHead(t) /\ task[t].op = "store"
  <2>1. Goto(t, "load") /\ log = <<>> /\ UNCHANGED clone /\ "load" \in Phases
    BY <1>4 DEF FetchNoHead, Phases, Holding
  <2>2. task'[t].pc = "load" /\ task'[t].ws = w /\ task'[t].ent = task[t].ent
    BY <2>1, GotoFacts
  <2>3. task[t].ent \in Entities
    BY <1>1, <1>4 DEF PhaseOK
  <2>4. merged[w][task[t].ent] = 0 /\ clone[w].base = 0
    BY <1>2, <2>1, <2>3 DEF Informed, IInv, TypeOK
  <2>5. Knows(t)'
    BY <1>1, <2>1, <2>2, <2>4 DEF Knows, Merging, Restoring
  <2> QED BY <1>1, <1>2, <2>5, StepKnows
<1>5. CASE FetchHead(t)
  <2> DEFINE c == IF task[t].op \in Resets
                  THEN [clone[w] EXCEPT !.origin = Len(log), !.base = Len(log), !.ahead = <<>>]
                  ELSE [clone[w] EXCEPT !.origin = Len(log)]
  <2>1. clone'[w] = c
    BY <1>1, <1>5 DEF FetchHead, Ws, IInv, TypeOK
  <2>2. c.origin = Len(log) /\ (task[t].op \in Resets => c.base = Len(log))
    BY <1>2 DEF Clone
  <2> HIDE DEF c
  <2>3. /\ task'[t].pc = IF task[t].op = "purge" THEN "mark" ELSE "merge"
        /\ task'[t].op = task[t].op /\ task'[t].ws = w
        /\ task'[t].at = Len(log) /\ task'[t].agr = agreed[w]
        /\ task'[t].todo = {e \in Entities : log[Len(log)][e] # None}
    <3> DEFINE pc == IF task[t].op = "purge" THEN "mark" ELSE "merge"
               todo == {e \in Entities : log[Len(log)][e] # None}
    <3>1. task' = [task EXCEPT ![t].pc = pc, ![t].at = Len(log), ![t].todo = todo,
                               ![t].agr = agreed[w], ![t].conf = {}]
        BY <1>5 DEF FetchHead, Ws
    <3>2. task \in [Tasks -> Task]
        BY DEF IInv, TypeOK
    <3> HIDE DEF pc, todo
    <3>3. task'[t].pc = pc /\ task'[t].op = task[t].op /\ task'[t].ws = task[t].ws
          /\ task'[t].at = Len(log) /\ task'[t].agr = agreed[w] /\ task'[t].todo = todo
        BY <3>1, <3>2 DEF Task
    <3> QED BY <3>3 DEF pc, todo
  <2>4. \A e \in Entities : KnownTo(w, e, agreed[w][e])'
    BY <1>1, <1>2 DEF Informed, KnownTo
  <2>5. \A e \in Entities : KnownTo(w, e, At(Len(log))[e])' \/ e \in task'[t].todo
    <3>1. Len(log) # 0
      <4>1. log # <<>>
        BY <1>5 DEF FetchHead
      <4>2. log \in Seq(Tree)
        BY DEF IInv, TypeOK
      <4> QED BY <4>1, <4>2
    <3>2. \A e \in Entities : At(Len(log))[e] = None \/ e \in task'[t].todo
        BY <2>3, <3>1 DEF At
    <3>3. (At(Len(log)))' = At(Len(log))
        BY <1>1 DEF At
    <3> QED BY <3>2, <3>3 DEF KnownTo
  <2>6. agreed'[w] = agreed[w] /\ Len(log') = Len(log)
    BY <1>1
  <2>7. \A e \in Entities : /\ KnownTo(w, e, task[t].agr[e])'
                            /\ KnownTo(w, e, At(task[t].at)[e])' \/ e \in task'[t].todo
    BY <2>3, <2>4, <2>5, <2>6 DEF KnownTo, At
  <2>8. Knows(t)'
    BY <1>1, <2>1, <2>2, <2>3, <2>7 DEF Knows, Restoring
  <2> QED BY <1>1, <1>2, <2>8, StepKnows
<1> QED BY <1>3, <1>4, <1>5 DEF Fetch

\* _agree: what is recorded is known, and so is the version the conflict was about.
LEMMA SettlesInformed ==
    ASSUME IInv, IInv', NEW w \in Workspaces, NEW e \in Entities, NEW c,
           Informed(w), KnownGrows, LogExtends, SettleOn(w, e, c),
           KnownTo(w, e, c)', KnownTo(w, e, At(merged[w][e])[e])',
           \A f \in Entities \ {e} : merged'[w][f] = merged[w][f],
           merged'[w][e] <= Len(log')
    PROVE  Informed(w)'
<1>1. /\ agreed \in [Workspaces -> Tree] /\ conflicts \in [Workspaces -> SUBSET Entities]
      /\ Len(log) \in Nat /\ Len(log') \in Nat
    BY DEF IInv, TypeOK
<1>2. /\ \A f \in Entities \ {e} : agreed'[w][f] = agreed[w][f] /\ (f \in conflicts[w] => f \in conflicts'[w])
      /\ agreed'[w][e] = IF c = None THEN agreed[w][e] ELSE c
    BY <1>1 DEF SettleOn, Tree
<1>3. SUFFICES ASSUME NEW f \in Entities
               PROVE  (/\ KnownTo(w, f, agreed[w][f])
                       /\ merged[w][f] <= Len(log)
                       /\ KnownTo(w, f, At(merged[w][f])[f]) \/ f \in conflicts[w])'
    BY DEF Informed
<1>4. /\ merged[w][f] \in Nat /\ merged[w][f] <= Len(log) /\ KnownTo(w, f, agreed[w][f])
      /\ KnownTo(w, f, At(merged[w][f])[f]) \/ f \in conflicts[w]
    BY DEF IInv, TypeOK, Informed
<1>5. PICK a : a = agreed[w][f]
    OBVIOUS
<1>6. KnownTo(w, f, a)'
    BY <1>4, <1>5, KnownStays
<1>7. CASE f = e
  <2>1. agreed'[w][f] = a \/ agreed'[w][f] = c
    BY <1>2, <1>5, <1>7
  <2>2. KnownTo(w, f, agreed[w][f])'
    BY <1>6, <1>7, <2>1 DEF KnownTo
  <2> QED BY <1>7, <2>2
<1>8. CASE f # e
  <2>1. PICK n \in 0 .. Len(log) : n = merged[w][f]
    BY <1>1, <1>4
  <2>2. KnownTo(w, f, At(n)[f]) => KnownTo(w, f, At(n)[f])'
    BY KnownAtStays
  <2>3. merged'[w][f] = n /\ agreed'[w][f] = a /\ n <= Len(log')
    BY <1>1, <1>2, <1>5, <1>8, <2>1 DEF LogExtends
  <2>4. f \in conflicts[w] => f \in conflicts'[w]
    BY <1>2, <1>8
  <2> QED BY <1>4, <1>6, <2>1, <2>2, <2>3, <2>4 DEF KnownTo, At
<1> QED BY <1>7, <1>8

LEMMA StoreKnows ==
    ASSUME IInv, IInv', KnownInv, RestoresAlone, KnownGrows, LogExtends, NEW t \in Tasks,
           Elsewhere(t), StoreMissing(t) \/ StoreNoChanges(t) \/ StoreCommit(t) \/ StoreAgree(t)
    PROVE  KnownInv'
<1>1. /\ task[t].pc \in {"load", "agree"} /\ task[t].pc \in Holding /\ task \in [Tasks -> Task]
      /\ task[t].op = "store" /\ task[t].ws \in Workspaces /\ task[t].ent \in Entities
      /\ PhaseOK(task[t]) /\ Knows(t) /\ UNCHANGED <<log, db, known, merged>>
    BY Facts, EntityFacts DEF StoreMissing, StoreNoChanges, StoreCommit, StoreAgree, Holding, PhaseOK,
       KnownInv, UnchangedButClone, history, IInv, TypeOK
<1> PICK w \in Workspaces : w = task[t].ws
    BY <1>1
<1> PICK e \in Entities : e = task[t].ent
    BY <1>1
<1>2. /\ clone \in [Workspaces -> Clone] /\ clone[w] \in Clone /\ Informed(w) /\ RowsKnown
      /\ agreed \in [Workspaces -> Tree] /\ conflicts \in [Workspaces -> SUBSET Entities]
      /\ RowsKnown'
    BY <1>1, RowsStayKnown DEF KnownInv, IInv, TypeOK
<1>3. CASE StoreMissing(t) \/ StoreNoChanges(t)
  <2>1. task'[t].pc = "idle" /\ UNCHANGED <<agreed, conflicts>>
    BY <1>3, QuietPhases DEF StoreMissing, StoreNoChanges, sync
  <2> QED BY <1>1, <2>1, PlainKnows DEF Merging, Restoring
<1>4. CASE StoreCommit(t)
  <2>1. /\ task[t].pc = "load" /\ db[w][e] # None
        /\ task' = [task EXCEPT ![t].pc = "push", ![t].copy = db[w][e]]
        /\ clone' = [clone EXCEPT ![w] = Commit(@, e, db[w][e])]
        /\ UNCHANGED <<agreed, conflicts>>
    BY <1>4 DEF StoreCommit, Ws, Ent, Row, UnchangedButClone, sync
  <2>2. /\ task'[t].pc = "push" /\ task'[t].op = "store" /\ task'[t].ws = w /\ task'[t].ent = e
        /\ task'[t].copy = db[w][e]
    BY <1>1, <2>1 DEF Task
  <2>3. clone'[w].base = clone[w].base
    BY <1>2, <2>1 DEF Commit, Clone
  <2>4. merged[w][e] = clone[w].base
    BY <1>1, <2>1 DEF Knows
  <2>5. KnownTo(w, e, db[w][e])'
    BY <1>2 DEF RowsKnown
  <2>6. db' = db /\ merged' = merged
    BY <1>1
  <2>7. KnownTo(w, e, task[t].copy)'
    BY <2>2, <2>5, <2>6 DEF KnownTo
  <2>8. Knows(t)'
    BY <2>2, <2>3, <2>4, <2>6, <2>7 DEF Knows, Merging, Restoring
  <2> QED BY <1>1, <1>2, <2>1, <2>8, StepKnows
<1>5. CASE StoreAgree(t)
  <2>1. SettleOn(w, e, task[t].copy) /\ task'[t].pc = "idle" /\ UNCHANGED clone /\ task[t].pc = "agree"
    BY <1>5, QuietPhases DEF StoreAgree, Ws, Ent
  <2>2. KnownTo(w, e, task[t].copy) /\ KnownTo(w, e, At(merged[w][e])[e])
    BY <1>1, <2>1 DEF Knows
  <2>3. PICK c : c = task[t].copy
    OBVIOUS
  <2>4. KnownTo(w, e, c)' /\ KnownTo(w, e, At(merged[w][e])[e])'
    BY <1>1, <2>2, <2>3 DEF KnownTo, At
  <2>5. merged'[w][e] <= Len(log')
    BY <1>1, <1>2 DEF Informed
  <2>6. Informed(w)'
    BY <1>1, <1>2, <2>1, <2>3, <2>4, <2>5, SettlesInformed
  <2>7. Knows(t)'
    BY <2>1, NothingToKnow DEF Merging, Restoring
  <2> QED BY <1>1, <1>2, <2>6, <2>7, StepKnows
<1> QED BY <1>3, <1>4, <1>5

LEMMA PurgeKnows ==
    ASSUME IInv, IInv', KnownInv, RestoresAlone, KnownGrows, LogExtends, NEW t \in Tasks,
           Elsewhere(t), PurgeNoMarker(t) \/ PurgeMarker(t) \/ PurgeRow(t)
    PROVE  KnownInv'
<1>0. task[t].pc \in {"mark", "purgeRow"} /\ UNCHANGED log
    BY DEF PurgeNoMarker, PurgeMarker, PurgeRow
<1>1. /\ task[t].pc \in {"mark", "purgeRow"} /\ task[t].op = "purge" /\ task \in [Tasks -> Task]
      /\ task[t].ws \in Workspaces /\ task[t].ent \in Entities /\ task[t].at \in 0 .. Len(log)
      /\ PushOK(task[t]) /\ Knows(t) /\ UNCHANGED log
    BY <1>0, Facts, EntityFacts DEF PhaseOK, KnownInv, IInv, TypeOK
<1> PICK w \in Workspaces : w = task[t].ws
    BY <1>1
<1> PICK e \in Entities : e = task[t].ent
    BY <1>1
<1>2. /\ clone \in [Workspaces -> Clone] /\ clone[w] \in Clone /\ Informed(w) /\ RowsKnown
      /\ Len(log) \in Nat /\ db \in [Workspaces -> Tree]
      /\ merged \in [Workspaces -> [Entities -> Nat]]
    BY MemoryFacts DEF KnownInv, IInv, TypeOK
<1>3. CASE PurgeNoMarker(t)
  <2>1. task'[t].pc = "purgeRow" /\ UNCHANGED <<db, clone, agreed, conflicts, merged>>
    BY <1>3, QuietPhases DEF PurgeNoMarker, Phases, sync, history
  <2> QED BY <2>1, PlainKnows DEF Merging, Restoring
<1>4. CASE PurgeRow(t)
  <2>1. /\ UNCHANGED <<clone, agreed, conflicts, merged>>
        /\ db' = db \/ db' = [db EXCEPT ![w][e] = None]
    BY <1>4 DEF PurgeRow, Ws, Ent, sync, history
  <2>2. \A v \in Workspaces, f \in Entities : db'[v][f] = db[v][f] \/ db'[v][f] = None
    <3>1. CASE db' = db
        BY <3>1
    <3>2. CASE db' = [db EXCEPT ![w][e] = None]
        BY <1>2, <3>2 DEF Tree
    <3> QED BY <2>1, <3>1, <3>2
  <2>3. RowsKnown'
    BY <1>2, <2>2, RowsStayKnown
  <2>4. Knows(t)'
    BY <1>1, <1>4, NothingToKnow DEF PurgeRow, Idle, Request, Merging, Restoring
  <2> QED BY <2>1, <2>3, <2>4, StepKnows
<1>5. CASE PurgeMarker(t)
  <2>1. PICK n \in 0 .. Len(log) : n = task[t].at
    BY <1>1
  <2>2. /\ SettleOn(w, e, HeadTree(clone[w])[e]) /\ HeadTree(clone[w])[e] # None
        /\ Seen(w, e, n) /\ merged' = [merged EXCEPT ![w][e] = n]
        /\ clone' = [clone EXCEPT ![w] = Commit(@, e, None)] /\ Goto(t, "push")
        /\ task[t].pc = "mark" /\ task[t].pc \in Holding /\ "push" \in Phases /\ UNCHANGED db
    BY <1>5, <2>1 DEF PurgeMarker, Ws, Ent, Holding, Phases
  <2>3. clone[w].ahead = <<>> /\ HeadTree(clone[w]) = At(n) /\ clone[w].base = n
    BY <1>1, <2>1, <2>2 DEF PushOK, HeadTree, Knows, Resets
  <2>4. clone'[w].base = n /\ At(n)' = At(n)
    BY <1>2, <2>2, <2>3 DEF Commit, Clone, LogExtends
  <2>5. At(n)[e].content \in known'[w][e]
    BY <2>2, <2>3, GrowsBySeen
  <2>6. merged'[w][e] = n /\ (\A f \in Entities \ {e} : merged'[w][f] = merged[w][f])
    BY <1>2, <2>2
  <2>7. PICK c : c = At(n)[e]
    OBVIOUS
  <2>8. KnownTo(w, e, c)' /\ KnownTo(w, e, At(merged[w][e])[e])'
    <3>1. KnownTo(w, e, c)' /\ KnownTo(w, e, At(n)[e])'
        BY <2>4, <2>5, <2>7 DEF KnownTo
    <3> QED BY <2>6, <3>1 DEF KnownTo, At
  <2>9. Informed(w)'
    <3>1. SettleOn(w, e, c) /\ merged'[w][e] <= Len(log')
        BY <1>1, <1>2, <2>2, <2>3, <2>6, <2>7
    <3> QED BY <1>2, <2>6, <2>8, <3>1, SettlesInformed
  <2>10. task'[t].pc = "push" /\ task'[t].ws = w /\ task'[t].ent = e /\ task'[t].op = "purge"
    BY <1>1, <2>2, GotoFacts
  <2>11. (KnownTo(w, e, At(clone[w].base)[e]))'
    BY <2>4, <2>7, <2>8 DEF KnownTo, At
  <2>12. Knows(t)'
    BY <2>4, <2>6, <2>10, <2>11 DEF Knows, Merging, Restoring
  <2> QED BY <1>2, <2>2, <2>9, <2>12, StepKnows, RowsStayKnown
<1> QED BY <1>3, <1>4, <1>5

LEMMA RestoreKnows ==
    ASSUME IInv, IInv', KnownInv, RestoresAlone, KnownGrows, LogExtends, NEW t \in Tasks,
           Elsewhere(t),
           (\E r \in 1 .. Len(log) : RestoreRead(t, r)) \/ RestoreWrite(t) \/ RestoreSettle(t)
    PROVE  KnownInv'
<1>0. task[t].pc \in {"read", "write", "settle"} /\ UNCHANGED <<log, clone, merged>>
    BY DEF RestoreRead, RestoreWrite, RestoreSettle, history
<1>1. /\ task[t].pc \in {"read", "write", "settle"} /\ task \in [Tasks -> Task]
      /\ task[t].ws \in Workspaces /\ task[t].ent \in Entities /\ task[t].at \in 0 .. Len(log)
      /\ Knows(t) /\ UNCHANGED <<log, clone, merged>> /\ task[t] \in Task /\ PhaseOK(task[t])
    BY <1>0, Facts, EntityFacts DEF KnownInv, IInv, TypeOK
<1> PICK w \in Workspaces : w = task[t].ws
    BY <1>1
<1> PICK e \in Entities : e = task[t].ent
    BY <1>1
<1>2. /\ Informed(w) /\ RowsKnown /\ Len(log) \in Nat /\ db \in [Workspaces -> Tree]
      /\ clone[w].origin = task[t].at /\ merged[w][e] = task[t].at
      /\ task[t].op = "restore" /\ "relock" \in Phases
    BY <1>1, MemoryFacts DEF KnownInv, IInv, TypeOK, Knows, Restoring, PhaseOK, Phases, Waiting
<1>3. ASSUME task'[t].pc \in {"write", "relock"}, task'[t].ws = w, task'[t].ent = e,
             task'[t].at = task[t].at, task'[t].op = "restore"
      PROVE  Knows(t)'
    BY <1>1, <1>2, <1>3 DEF Knows, Merging, Resets
<1>4. ASSUME NEW r \in 1 .. Len(log), RestoreRead(t, r) PROVE KnownInv'
  <2>1. UNCHANGED <<db, agreed, conflicts>>
    BY <1>4 DEF RestoreRead, sync
  <2>2. task'[t].pc = "idle" \/ Knows(t)'
    BY <1>1, <1>2, <1>3, <1>4, QuietPhases DEF RestoreRead, Task
  <2>3. Knows(t)'
    BY <2>2, NothingToKnow DEF Merging, Restoring
  <2> QED BY <1>1, <1>2, <2>1, <2>3, StepKnows, RowsStayKnown
<1>5. CASE RestoreWrite(t)
  <2>1. /\ SetRow(w, e, task[t].copy) /\ Goto(t, "relock") /\ UNCHANGED <<agreed, conflicts>>
    BY <1>5 DEF RestoreWrite, Ws, Ent, sync
  <2>2. task[t].copy.content \in known'[w][e] /\ db' = [db EXCEPT ![w][e] = task[t].copy]
    BY <2>1, GrowsBySet DEF SetRow
  <2>3. RowsKnown'
    BY <1>2, <2>2, RowsStayKnown DEF Tree
  <2>4. Knows(t)'
    BY <1>2, <1>3, <2>1, GotoFacts
  <2> QED BY <1>1, <2>1, <2>3, <2>4, StepKnows
<1>6. CASE RestoreSettle(t)
  <2>1. PICK n \in 0 .. Len(log) : n = task[t].at
    BY <1>1
  <2>2. /\ SettleOn(w, e, At(n)[e]) /\ Seen(w, e, n) /\ task'[t].pc = "idle" /\ UNCHANGED db
    BY <1>2, <1>6, <2>1, QuietPhases DEF RestoreSettle, Ws, Ent
  <2>3. At(n)[e] # None => At(n)[e].content \in known'[w][e]
    BY <2>2, GrowsBySeen
  <2>4. At(n)' = At(n)
    BY DEF LogExtends
  <2>5. PICK c : c = At(n)[e]
    OBVIOUS
  <2>6. KnownTo(w, e, c)' /\ KnownTo(w, e, At(n)[e])'
    BY <2>3, <2>4, <2>5 DEF KnownTo
  <2>7. merged'[w][e] = n /\ (\A f \in Entities \ {e} : merged'[w][f] = merged[w][f])
    BY <1>1, <1>2, <2>1
  <2>8. KnownTo(w, e, At(merged[w][e])[e])'
    BY <2>6, <2>7 DEF KnownTo, At
  <2>9. Informed(w)'
    BY <1>1, <1>2, <2>2, <2>5, <2>6, <2>7, <2>8, SettlesInformed
  <2>10. Knows(t)'
    BY <2>2, NothingToKnow DEF Merging, Restoring
  <2> QED BY <1>1, <1>2, <2>2, <2>9, <2>10, StepKnows, RowsStayKnown
<1> QED BY <1>4, <1>5, <1>6

LEMMA PushKnows ==
    ASSUME IInv, IInv', KnownInv, RestoresAlone, KnownGrows, LogExtends, NEW t \in Tasks,
           Elsewhere(t), Push(t)
    PROVE  KnownInv'
<1>1. task[t].pc = "push" /\ task[t].pc \in Holding /\ UNCHANGED <<db, agreed, conflicts, merged>>
    BY DEF Push, PushOk, PushLost, PushRejected, PushLands, Holding, sync, history
<1>2. /\ task[t].ws \in Workspaces /\ task[t].ent \in Entities /\ task \in [Tasks -> Task]
      /\ PhaseOK(task[t]) /\ Knows(t) /\ RowsKnown' /\ Len(log) \in Nat
    BY <1>1, Facts, EntityFacts, RowsStayKnown DEF KnownInv, IInv, TypeOK
<1> PICK w \in Workspaces : w = task[t].ws
    BY <1>2
<1> PICK e \in Entities : e = task[t].ent
    BY <1>2
<1>3. CASE PushLost(t) \/ PushRejected(t)
  <2>1. task'[t].pc \in {"idle", "ensure"}
    BY <1>2, <1>3, QuietPhases DEF PushLost, PushRejected, Task
  <2> QED BY <1>1, <2>1, PlainKnows DEF Merging, Restoring
<1>4. CASE PushOk(t) /\ task[t].op = "purge"
  <2>1. task'[t].pc = "purgeRow"
    BY <1>4, QuietPhases DEF PushOk, Phases
  <2> QED BY <1>1, <2>1, PlainKnows DEF Merging, Restoring
<1>5. CASE PushOk(t) /\ task[t].op = "store"
  <2>1. Goto(t, "agree") /\ "agree" \in Phases /\ PushLands(t)
    BY <1>5 DEF PushOk, Phases, Holding
  <2>2. PICK n \in 0 .. Len(log) : n = Len(log)
    BY <1>2
  <2>3. Seen(w, e, n) /\ clone[w].base = n
    BY <2>1, <2>2 DEF PushLands, Ws, Ent
  <2>4. merged[w][e] = n /\ KnownTo(w, e, task[t].copy)
    BY <1>1, <1>2, <1>5, <2>3 DEF Knows
  <2>5. task'[t].pc = "agree" /\ task'[t].ws = w /\ task'[t].ent = e /\ task'[t].copy = task[t].copy
    BY <2>1, GotoFacts
  <2>6. PICK c : c = task[t].copy
    OBVIOUS
  <2>7. KnownTo(w, e, c)'
    BY <2>4, <2>6, KnownStays
  <2>8. KnownTo(w, e, At(n)[e])'
    <3>1. At(n)[e] # None => At(n)[e].content \in known'[w][e]
        BY <2>3, GrowsBySeen
    <3>2. At(n)' = At(n)
        BY DEF LogExtends
    <3> QED BY <3>1, <3>2 DEF KnownTo
  <2>9. merged'[w][e] = n
    BY <1>1, <2>4
  <2>10. KnownTo(w, e, task[t].copy)' /\ KnownTo(w, e, At(merged[w][e])[e])'
    BY <2>5, <2>6, <2>7, <2>8, <2>9 DEF KnownTo, At
  <2>11. Knows(t)'
    BY <2>5, <2>10 DEF Knows, Merging, Restoring
  <2> QED BY <1>1, <1>2, <2>11, StepKnows
<1> QED BY <1>2, <1>3, <1>4, <1>5 DEF Push, PhaseOK, PushOk

\* What a step of a merge has learnt of its entities: the repository's copy, or nothing
\* that it has not still to do or to report.
MergeLearns(t) ==
    LET r == task[t]  new == task'[t] IN
    /\ \A f \in Entities :
          \/ At(r.at)[f].content \in known'[r.ws][f]
          \/ new.agr[f] = r.agr[f] /\ (f \in r.todo \cup r.conf => f \in new.todo \cup new.conf)
    /\ new.pc = "flip" =>
          new.cur \in Entities /\ At(r.at)[new.cur].content \in known'[r.ws][new.cur]

LEMMA MergeMovesKnow ==
    ASSUME IInv, IInv', KnownInv, RestoresAlone, KnownGrows, LogExtends, NEW t \in Tasks,
           Elsewhere(t), MergeMoves(t), MergeLearns(t), RowsKnown',
           UNCHANGED <<log, clone, agreed, conflicts, merged>>
    PROVE  KnownInv'
<1>1. /\ task[t].pc \in Holding /\ task[t].pc \in Merging /\ task[t].ws \in Workspaces
      /\ Knows(t) /\ task[t] \in Task /\ MergeOK(task[t]) /\ Len(log) \in Nat
    BY Facts DEF MergeMoves, Merging, Holding, KnownInv, IInv, TypeOK
<1> PICK w \in Workspaces : w = task[t].ws
    BY <1>1
<1> PICK n \in 0 .. Len(log) : n = task[t].at
    BY <1>1 DEF MergeOK, Task
<1>2. At(n)' = At(n) /\ task'[t].at = n /\ task'[t].ws = w
    BY DEF LogExtends, MergeMoves
<1>3. ASSUME NEW f \in Entities
      PROVE  /\ KnownTo(w, f, task[t].agr[f])'
             /\ KnownTo(w, f, At(n)[f])' \/ f \in task'[t].todo \cup task'[t].conf
  <2>1. PICK old : old = task[t].agr[f]
    OBVIOUS
  <2>2. PICK new : new = task'[t].agr[f]
    OBVIOUS
  <2>3. KnownTo(w, f, old)' /\ (new = old \/ new = At(n)[f])
    <3>1. KnownTo(w, f, old)'
        BY <1>1, <2>1, KnownStays DEF Knows
    <3> QED BY <2>1, <2>2, <3>1 DEF MergeMoves, RepoCopy
  <2>4. KnownTo(w, f, At(n)[f]) \/ f \in task[t].todo \cup task[t].conf
    BY <1>1 DEF Knows
  <2>5. CASE At(n)[f].content \in known'[w][f]
    BY <1>2, <2>2, <2>3, <2>5 DEF KnownTo
  <2>6. CASE new = old /\ (f \in task[t].todo \cup task[t].conf => f \in task'[t].todo \cup task'[t].conf)
    BY <2>2, <2>3, <2>4, <2>6, KnownAtStays DEF KnownTo
  <2> QED BY <2>1, <2>2, <2>5, <2>6 DEF MergeLearns
<1>4. task'[t].pc = "flip" => /\ task'[t].cur \in Entities
                              /\ At(n)[task'[t].cur].content \in known'[w][task'[t].cur]
    BY DEF MergeLearns
<1>5. Knows(t)'
  <2>1. /\ task'[t].pc \in Merging => clone'[w].origin = n
        /\ task'[t].op \in Resets /\ task'[t].pc \in Merging => clone'[w].base = n
    BY <1>1 DEF Knows, MergeMoves
  <2>2. \A f \in Entities : /\ KnownTo(w, f, task[t].agr[f])'
                            /\ KnownTo(w, f, At(task[t].at)[f])' \/ f \in task'[t].todo \cup task'[t].conf
    BY <1>2, <1>3 DEF KnownTo, At
  <2>3. task'[t].pc = "flip" => KnownTo(w, task[t].cur, At(task[t].at)[task[t].cur])'
    BY <1>2, <1>4 DEF KnownTo, At
  <2>4. task'[t].pc \in Merging
    BY DEF MergeMoves
  <2> QED BY <1>2, <2>1, <2>2, <2>3, <2>4 DEF Knows, Merging, Restoring
<1> QED BY <1>1, <1>5, StepKnows

\* A comparison learns what the row, or an earlier agreement, already says; or it
\* lists the conflict.
LEMMA CompareLearns ==
    ASSUME IInv, KnownInv, KnownGrows, NEW t \in Tasks, NEW e \in Entities,
           MergeLocalChange(t, e) \/ MergeSame(t, e) \/ MergeDecide(t, e) \/ MergeConflict(t, e)
    PROVE  MergeLearns(t)
<1>1. /\ task[t].pc = "merge" /\ e \in task[t].todo /\ task[t].ws \in Workspaces
      /\ task \in [Tasks -> Task] /\ task[t] \in Task /\ Knows(t) /\ MergeOK(task[t]) /\ RowsKnown
      /\ task[t].agr \in [Entities -> Maybe(Copy)]
    BY Facts DEF MergeLocalChange, MergeSame, MergeDecide, MergeConflict, AtMerge, KnownInv,
       IInv, TypeOK, Task
<1> PICK w \in Workspaces : w = task[t].ws
    BY <1>1
<1> PICK c : c = At(task[t].at)[e]
    OBVIOUS
<1>2. /\ c # None /\ RepoCopy(t, e) = c /\ Row(t, e) = db[w][e]
      /\ KnownTo(w, e, task[t].agr[e]) /\ KnownTo(w, e, db[w][e])
    BY <1>1 DEF MergeOK, RepoCopy, Row, Ws, Knows, Merging, RowsKnown
<1>3. ASSUME c.content \in known[w][e],
             \A f \in Entities \ {e} :
                /\ task'[t].agr[f] = task[t].agr[f]
                /\ f \in task[t].todo \cup task[t].conf => f \in task'[t].todo \cup task'[t].conf,
             task'[t].pc = "flip" => task'[t].cur = e
      PROVE  MergeLearns(t)
  <2>1. At(task[t].at)[e].content \in known'[w][e]
    BY <1>3 DEF KnownGrows
  <2> QED BY <1>3, <2>1 DEF MergeLearns
<1>4. CASE MergeLocalChange(t, e)
  <2>1. c.content \in known[w][e]
    BY <1>2, <1>4 DEF MergeLocalChange, KnownTo
  <2> QED BY <1>1, <1>3, <1>4, <2>1 DEF MergeLocalChange, Task
<1>5. CASE MergeSame(t, e)
  <2>1. c.content \in known[w][e]
    BY <1>2, <1>5 DEF MergeSame, KnownTo
  <2> QED BY <1>1, <1>3, <1>5, <2>1 DEF MergeSame, Task
<1>6. CASE MergeDecide(t, e)
  <2>1. PICK pc \in {"import", "flip"} :
           /\ task' = [task EXCEPT ![t].pc = pc, ![t].cur = e]
           /\ pc = "flip" => SameContent(t, e)
    BY <1>6 DEF MergeDecide
  <2>2. /\ task'[t].pc = pc /\ task'[t].cur = e /\ task'[t].agr = task[t].agr
        /\ task'[t].todo = task[t].todo /\ task'[t].conf = task[t].conf
    BY <1>1, <2>1 DEF Task
  <2>3. pc = "flip" => c.content \in known[w][e]
    BY <1>2, <2>1 DEF SameContent, KnownTo
  <2> QED BY <1>3, <2>2, <2>3 DEF MergeLearns
<1>7. CASE MergeConflict(t, e)
  <2>1. task' = [task EXCEPT ![t].todo = @ \ {e}, ![t].conf = @ \cup {e}]
    BY <1>7 DEF MergeConflict
  <2>2. /\ task'[t].pc = "merge" /\ task'[t].agr = task[t].agr
        /\ task'[t].todo = task[t].todo \ {e} /\ task'[t].conf = task[t].conf \cup {e}
    BY <1>1, <2>1 DEF Task
  <2> QED BY <2>2 DEF MergeLearns
<1> QED BY <1>4, <1>5, <1>6, <1>7

\* What a write of the merge leaves of its locals.
LEMMA WriteLeaves ==
    ASSUME IInv, NEW t \in Tasks, NEW agree \in BOOLEAN, Merged(t, agree),
           task[t].pc \in {"import", "flip"}
    PROVE  \A f \in Entities \ {task[t].cur} :
              /\ task'[t].agr[f] = task[t].agr[f]
              /\ f \in task[t].todo \cup task[t].conf => f \in task'[t].todo \cup task'[t].conf
<1> DEFINE cur == task[t].cur
           new == IF agree THEN RepoCopy(t, cur) ELSE task[t].agr[cur]
<1>1. cur \in task[t].todo /\ task[t] \in Task /\ task \in [Tasks -> Task]
    BY Facts DEF PhaseOK, IInv, TypeOK
<1>2. task' = [task EXCEPT ![t].pc = "merge", ![t].cur = None, ![t].todo = @ \ {cur},
                           ![t].agr[cur] = new]
    BY <1>1 DEF Merged, Task
<1> HIDE DEF new
<1>3. /\ task'[t].agr = [task[t].agr EXCEPT ![cur] = new]
      /\ task'[t].todo = task[t].todo \ {cur} /\ task'[t].conf = task[t].conf
    BY <1>1, <1>2 DEF Task
<1> QED BY <1>1, <1>3 DEF Task

\* A write learns the copy that it writes, or that had the row's content when it was
\* read; the content of a row that is there stays.
LEMMA WriteLearns ==
    ASSUME IInv, KnownInv, KnownGrows, NEW t \in Tasks, MergeImport(t) \/ MergeFlip(t)
    PROVE  MergeLearns(t) /\ RowsKnown'
<1>1. /\ task[t].pc \in {"import", "flip"} /\ task[t].ws \in Workspaces
      /\ task[t].cur \in task[t].todo /\ task[t].cur \in Entities
      /\ Knows(t) /\ MergeOK(task[t]) /\ RowsKnown /\ db \in [Workspaces -> Tree]
  <2>1. task[t].pc \in {"import", "flip"}
    BY DEF MergeImport, MergeFlip
  <2> QED BY <2>1, Facts DEF PhaseOK, KnownInv, IInv, TypeOK, Task
<1> PICK w \in Workspaces : w = task[t].ws
    BY <1>1
<1> PICK e \in Entities : e = task[t].cur
    BY <1>1
<1> PICK c : c = At(task[t].at)[e]
    OBVIOUS
<1>2. c # None /\ RepoCopy(t, e) = c /\ Row(t, e) = db[w][e]
    BY <1>1 DEF MergeOK, RepoCopy, Row, Ws
<1>3. PICK agree \in BOOLEAN : Merged(t, agree)
    BY DEF MergeImport, MergeFlip, Row
<1>4. /\ task'[t].pc = "merge"
      /\ \A f \in Entities \ {e} :
            /\ task'[t].agr[f] = task[t].agr[f]
            /\ f \in task[t].todo \cup task[t].conf => f \in task'[t].todo \cup task'[t].conf
    BY <1>1, <1>3, MergedFacts, WriteLeaves
<1>5. ASSUME c.content \in known'[w][e] PROVE MergeLearns(t)
    BY <1>4, <1>5 DEF MergeLearns
<1>6. CASE MergeImport(t)
  <2>1. SetRow(w, e, c)
    BY <1>2, <1>6 DEF MergeImport, Ws
  <2>2. c.content \in known'[w][e] /\ db' = [db EXCEPT ![w][e] = c]
    BY <2>1, GrowsBySet DEF SetRow
  <2>3. RowsKnown'
    BY <1>1, <2>2, RowsStayKnown DEF Tree
  <2> QED BY <1>5, <2>2, <2>3
<1>7. CASE MergeFlip(t)
  <2>1. /\ task[t].pc = "flip"
        /\ db' = IF db[w][e] = None THEN db ELSE [db EXCEPT ![w][e].deleted = c.deleted]
    BY <1>2, <1>7 DEF MergeFlip, Ws
  <2>2. c.content \in known'[w][e]
    BY <1>1, <1>2, <2>1 DEF Knows, KnownTo, KnownGrows
  <2>3. ASSUME NEW v \in Workspaces, NEW f \in Entities, db'[v][f] # db[v][f], db'[v][f] # None
        PROVE  db'[v][f].content \in known'[v][f]
    <3>1. db[w][e] # None /\ v = w /\ f = e
        BY <1>1, <2>1, <2>3 DEF Tree
    <3>2. db[w][e] \in Copy
        BY <1>1, <3>1 DEF Tree, Maybe
    <3>3. db'[w][e] = [db[w][e] EXCEPT !.deleted = c.deleted]
        BY <1>1, <2>1, <3>1 DEF Tree
    <3>4. db'[w][e].content = db[w][e].content
        BY <3>2, <3>3 DEF Copy
    <3>5. db[w][e].content \in known[w][e]
        BY <1>1, <3>1 DEF RowsKnown, KnownTo
    <3> QED BY <3>1, <3>4, <3>5 DEF KnownGrows
  <2>4. RowsKnown'
    BY <1>1, <2>3, RowsStayKnown
  <2> QED BY <1>5, <2>2, <2>4
<1> QED BY <1>6, <1>7

LEMMA MergeKnows ==
    ASSUME IInv, IInv', KnownInv, RestoresAlone, KnownGrows, LogExtends, NEW t \in Tasks,
           Elsewhere(t), Merge(t)
    PROVE  KnownInv'
<1>1. ASSUME NEW e \in Entities,
             MergeLocalChange(t, e) \/ MergeSame(t, e) \/ MergeDecide(t, e) \/ MergeConflict(t, e)
      PROVE  KnownInv'
    BY <1>1, CompareMoves, CompareLearns, MergeMovesKnow, RowsStayKnown DEF KnownInv
<1>2. CASE MergeImport(t) \/ MergeFlip(t)
    BY <1>2, WriteMoves, WriteLearns, MergeMovesKnow
<1>3. CASE MergeSave(t)
  <2>1. /\ task[t].pc = "merge" /\ task[t].pc \in Holding /\ task[t].ws \in Workspaces
        /\ task[t].todo = {} /\ UNCHANGED <<log, db, clone, known>>
        /\ Knows(t) /\ task[t] \in Task /\ MergeOK(task[t]) /\ PhaseOK(task[t])
        /\ Len(log) \in Nat
    BY <1>3, Facts DEF MergeSave, Holding, KnownInv, IInv, TypeOK
  <2> PICK w \in Workspaces : w = task[t].ws
    BY <2>1
  <2> PICK n \in 0 .. Len(log) : n = task[t].at
    BY <2>1 DEF MergeOK, Task
  <2>2. /\ agreed'[w] = task[t].agr /\ conflicts'[w] = task[t].conf
        /\ \A f \in Entities : merged'[w][f] = n
    BY <1>3 DEF MergeSave, Ws, IInv, TypeOK
  <2>3. \A f \in Entities : /\ KnownTo(w, f, task[t].agr[f])
                            /\ KnownTo(w, f, At(n)[f]) \/ f \in task[t].conf
    BY <2>1 DEF Knows, Merging
  <2>4. Informed(w)'
    <3>1. \A f \in Entities : KnownTo(w, f, agreed[w][f])'
        BY <2>1, <2>2, <2>3 DEF KnownTo
    <3>2. \A f \in Entities : merged'[w][f] <= Len(log')
        BY <2>1, <2>2
    <3>3. \A f \in Entities : KnownTo(w, f, At(merged[w][f])[f])' \/ f \in conflicts'[w]
        BY <2>1, <2>2, <2>3 DEF KnownTo, At
    <3> QED BY <3>1, <3>2, <3>3 DEF Informed
  <2>5. RowsKnown'
    BY <2>1, RowsStayKnown DEF KnownInv
  <2>6. Knows(t)'
    <3>1. CASE task[t].op = "sync"
        BY <1>3, <3>1, QuietPhases, NothingToKnow DEF MergeSave, Merging, Restoring
    <3>2. CASE task[t].op = "store"
      <4>1. Goto(t, "load") /\ "load" \in Phases
        BY <1>3, <3>2 DEF MergeSave, Phases, Holding
      <4>2. task'[t].pc = "load" /\ task'[t].ws = w /\ task'[t].ent = task[t].ent
        BY <4>1, GotoFacts
      <4>3. task[t].ent \in Entities /\ clone[w].base = n
        BY <2>1, <3>2 DEF PhaseOK, Knows, Merging, Resets
      <4> QED BY <2>1, <2>2, <4>2, <4>3 DEF Knows, Merging, Restoring
    <3>3. CASE task[t].op = "restore"
      <4>1. Goto(t, "read") /\ "read" \in Phases
        BY <1>3, <3>3 DEF MergeSave, Phases, Holding
      <4>2. /\ task'[t].pc = "read" /\ task'[t].ws = w /\ task'[t].ent = task[t].ent
            /\ task'[t].at = n /\ task'[t].op = "restore"
        BY <3>3, <4>1, GotoFacts
      <4>3. task[t].ent \in Entities /\ clone[w].origin = n
        BY <2>1, <3>3 DEF PhaseOK, Knows, Merging
      <4> QED BY <2>1, <2>2, <4>2, <4>3 DEF Knows, Merging, Resets
    <3> QED BY <1>3, <3>1, <3>2, <3>3 DEF MergeSave
  <2> QED BY <2>1, <2>4, <2>5, <2>6, StepKnows
<1> QED BY <1>1, <1>2, <1>3 DEF Merge

LEMMA InitKnown == ASSUME Init PROVE KnownInv
<1>1. /\ \A w \in Workspaces, e \in Entities : /\ db[w][e] = None /\ agreed[w][e] = None
                                               /\ merged[w][e] = 0
      /\ \A t \in Tasks : task[t].pc = "idle"
      /\ log = <<>>
    BY DEF Init, Idle, Request, EmptyTree
<1>2. RowsKnown
    BY <1>1 DEF RowsKnown, KnownTo
<1>3. \A w \in Workspaces : Informed(w)
    BY <1>1 DEF Informed, KnownTo, At, EmptyTree
<1>4. \A t \in Tasks : Knows(t)
    BY <1>1 DEF Knows, Merging, Restoring
<1> QED BY <1>2, <1>3, <1>4 DEF KnownInv

LEMMA NextKnown ==
    ASSUME IInv, IInv', KnownInv, RestoresAlone, LogExtends, [Next]_vars
    PROVE  KnownInv'
<1>1. ASSUME NEW t \in Tasks, Step(t) PROVE KnownInv'
  <2>1. Elsewhere(t) /\ KnownGrows
    BY <1>1, StepElsewhere, StepGrows
  <2> QED BY <1>1, <2>1, EnsureKnows, FetchKnows, MergeKnows, PushKnows, StoreKnows, PurgeKnows,
        RestoreKnows DEF Step
<1>2. ASSUME NEW t \in Tasks,
             \/ Acquire(t)
             \/ \E w \in Workspaces, op \in {"sync", "store", "purge", "restore"},
                   e \in Maybe(Entities) : StartOp(t, w, op, e)
      PROVE  KnownInv'
  <2>1. /\ UNCHANGED <<log, db, clone, agreed, conflicts, known, merged, purgedAt>>
        /\ Elsewhere(t)
    BY <1>2, ArrivalElsewhere DEF Elsewhere
  <2>2. KnownGrows /\ RowsKnown'
    BY <2>1, RowsStayKnown DEF KnownGrows, KnownInv
  <2>3. Knows(t)'
    <3>1. CASE Acquire(t) /\ task[t].pc = "relock"
      <4>1. Goto(t, "settle") /\ "settle" \in Phases
        BY <3>1 DEF Acquire, Phases, Holding
      <4>2. /\ task'[t].pc = "settle" /\ task'[t].ws = task[t].ws /\ task'[t].ent = task[t].ent
            /\ task'[t].at = task[t].at
        BY <4>1, GotoFacts
      <4>3. Knows(t)
        BY DEF KnownInv
      <4> QED BY <2>1, <3>1, <4>2, <4>3 DEF Knows, Merging, Restoring
    <3>2. CASE ~(Acquire(t) /\ task[t].pc = "relock")
      <4>1. task'[t].pc \in {"lock", "ensure"}
        BY <1>2, <3>2 DEF Acquire, StartOp, Goto, Request, IInv, TypeOK, Task, Waiting
      <4> QED BY <4>1, NothingToKnow DEF Merging, Restoring
    <3> QED BY <3>1, <3>2
  <2> QED BY <2>1, <2>2, <2>3, StepKnows
<1>3. ASSUME UNCHANGED <<log, clone, agreed, conflicts, merged>>, KnownGrows, RowsKnown',
             \A t \in Tasks : task'[t] = task[t] \/ task'[t].pc = "idle"
      PROVE  KnownInv'
  <2>1. \A w \in Workspaces : Informed(w)'
    BY <1>3, StaysInformed DEF KnownInv
  <2>2. ASSUME NEW t \in Tasks PROVE Knows(t)'
    BY <1>3, StaysKnowing, NothingToKnow DEF Merging, Restoring
  <2> QED BY <1>3, <2>1, <2>2 DEF KnownInv
<1>4. CASE UserEdit
    BY <1>3, <1>4, EditElsewhere, EditKnows DEF KnownInv
<1>5. CASE UNCHANGED vars
  <2>1. KnownGrows /\ RowsKnown'
    BY <1>5, RowsStayKnown DEF vars, history, KnownGrows, KnownInv
  <2> QED BY <1>3, <1>5, <2>1 DEF vars, sync, history
<1>6. ASSUME NEW w \in Workspaces, Crash(w) PROVE KnownInv'
  <2>1. /\ UNCHANGED <<log, db, clone, agreed, conflicts, known, merged, purgedAt>>
        /\ \A t \in Tasks : task'[t] = task[t] \/ task'[t].pc = "idle"
    BY <1>6, CrashElsewhere DEF Idle, Request
  <2>2. KnownGrows /\ RowsKnown'
    BY <2>1, RowsStayKnown DEF KnownGrows, KnownInv
  <2> QED BY <1>3, <2>1, <2>2
<1> QED BY <1>1, <1>2, <1>4, <1>5, <1>6 DEF Next

\* Rows, agreements, merged versions and requests under way are all of contents their
\* workspace has had, has settled or lists as conflicts.
THEOREM KnownInductive == Spec /\ []RestoresAlone => []KnownInv
<1>1. Init => KnownInv
    BY InitKnown
<1>2. IInv /\ KnownInv /\ RestoresAlone /\ [Next]_vars => KnownInv'
    BY NextInv, NextExtends, NextKnown
<1> QED BY <1>1, <1>2, Inductive, PTL DEF Spec

\* "Last agreed" is never a content its workspace has not seen, through merges, pushes,
\* purges and settlements of any number of requests, as long as restores are alone.
THEOREM AgreedWasSeen == Spec /\ []RestoresAlone => []AgreedContentKnown
<1>1. IInv /\ KnownInv => AgreedContentKnown
    BY DEF KnownInv, Informed, KnownTo, AgreedContentKnown
<1> QED BY <1>1, Inductive, KnownInductive, PTL

\* What a workspace merged and has not seen is listed as a conflict until it commits,
\* restores or purges, under the same condition.
THEOREM UnseenIsReported == Spec /\ []RestoresAlone => []UnseenContentIsReported
<1>1. IInv /\ KnownInv => UnseenContentIsReported
    BY DEF KnownInv, Informed, KnownTo, UnseenContentIsReported
<1> QED BY <1>1, Inductive, KnownInductive, PTL

\* A push that lands is a step of the coroutine that waits for it.
LEMMA LandsByItself ==
    ASSUME IInv, [Next]_vars, NEW t \in Tasks, task[t].pc = "push", task'[t].pc # "push",
           log' # log
    PROVE  PushLands(t)
<1>1. ASSUME NEW u \in Tasks, Step(u) PROVE PushLands(t)
    BY <1>1, StepPushes, StepElsewhere DEF Elsewhere
<1> QED BY <1>1, ArrivalElsewhere, EditElsewhere, CrashElsewhere DEF Next, vars

\* No lost update: a push that replaces or drops a copy in the repository replaces what
\* its workspace has seen or lists as a conflict, after any retries, whatever was left in
\* its clone by earlier failures, as long as restores are alone.
THEOREM NothingOverwrittenUnseen == Spec /\ []RestoresAlone => OverwriteIsSeen
<1> DEFINE A == \A t \in Tasks : task[t].pc = "push" /\ task'[t].pc # "push" /\ log' # log =>
          LET w == Ws(t)  e == Ent(t)  old == At(Len(log))[e] IN
          \/ At(Len(log))[e] = log'[Len(log')][e]
          \/ old = None
          \/ old.content \in known[w][e]
          \/ e \in conflicts[w]
<1>1. IInv /\ KnownInv /\ [Next]_vars => A
  <2>1. SUFFICES ASSUME IInv, KnownInv, [Next]_vars, NEW t \in Tasks,
                        task[t].pc = "push", task'[t].pc # "push", log' # log
                 PROVE  KnownTo(Ws(t), Ent(t), At(Len(log))[Ent(t)]) \/ Ent(t) \in conflicts[Ws(t)]
    BY DEF KnownTo
  <2>2. PushLands(t)
    BY <2>1, LandsByItself
  <2>3. clone[Ws(t)].base = Len(log) /\ Ws(t) \in Workspaces /\ Ent(t) \in Entities
    BY <2>1, <2>2, LandedFacts DEF Ws, Ent
  <2>4. Knows(t) /\ Informed(Ws(t))
    BY <2>1, <2>3 DEF KnownInv
  <2>5. merged[Ws(t)][Ent(t)] = Len(log)
    BY <2>1, <2>3, <2>4 DEF Knows, Ws, Ent
  <2> QED BY <2>3, <2>4, <2>5 DEF Informed
<1>2. IInv /\ KnownInv /\ [Next]_vars => [A]_vars
    BY <1>1
<1> QED BY <1>2, Inductive, KnownInductive, PTL DEF Spec, OverwriteIsSeen

-----------------------------------------------------------------------------
(* Where every request has its workspace to itself, so has every restore.   *)

OneEach ==
    /\ \A t \in Tasks : task[t].op = "restore" => task[t].ws \in Workspaces
    /\ \A t, u \in Tasks : t # u /\ task[t].ws \in Workspaces => task[t].ws # task[u].ws

\* A step keeps what the request is for, or ends it.
LEMMA StepKeepsRequest ==
    ASSUME IInv, NEW t \in Tasks, Step(t)
    PROVE  task'[t] = Idle \/ (task'[t].op = task[t].op /\ task'[t].ws = task[t].ws)
<1> USE DEF Task
<1>1. task \in [Tasks -> Task] /\ task[t] \in Task
    BY DEF IInv, TypeOK
<1>2. ASSUME NEW pc, Goto(t, pc) PROVE task'[t].op = task[t].op /\ task'[t].ws = task[t].ws
    BY <1>1, <1>2 DEF Goto
<1>3. Finish(t) => task'[t] = Idle
    BY <1>1 DEF Finish
<1>4. CASE EnsureRepo(t) \/ CloneKilled(t) \/ GitFails(t)
    BY <1>2, <1>3, <1>4 DEF EnsureRepo, EnsureDone, CloneRemote, InitLocal, AttachRemote, Configure,
       CloneKilled, GitFails
<1>5. CASE Fetch(t)
  <2>1. CASE FetchHead(t)
    <3>1. PICK pc, at, todo, agr, conf :
             task' = [task EXCEPT ![t].pc = pc, ![t].at = at, ![t].todo = todo,
                                  ![t].agr = agr, ![t].conf = conf]
        BY <2>1, Zenon DEF FetchHead
    <3> QED BY <1>1, <3>1
  <2> QED BY <1>2, <1>3, <1>5, <2>1 DEF Fetch, FetchNoHead, Leave
<1>6. CASE Merge(t)
  <2>1. ASSUME NEW e \in Entities,
               MergeLocalChange(t, e) \/ MergeSame(t, e) \/ MergeDecide(t, e) \/ MergeConflict(t, e)
        PROVE  task'[t].op = task[t].op /\ task'[t].ws = task[t].ws
    BY <2>1, CompareMoves DEF MergeMoves
  <2> QED BY <1>2, <1>3, <1>6, <2>1, WriteMoves DEF Merge, MergeSave, MergeMoves
<1>7. CASE Push(t)
    BY <1>1, <1>2, <1>3, <1>7 DEF Push, PushOk, PushLost, PushRejected, Leave
<1>8. CASE StoreMissing(t) \/ StoreNoChanges(t) \/ StoreCommit(t) \/ StoreAgree(t)
    BY <1>1, <1>3, <1>8 DEF StoreMissing, StoreNoChanges, StoreCommit, StoreAgree
<1>9. CASE PurgeNoMarker(t) \/ PurgeMarker(t) \/ PurgeRow(t)
    BY <1>1, <1>2, <1>9 DEF PurgeNoMarker, PurgeMarker, PurgeRow, Leave
<1>10. CASE (\E r \in 1 .. Len(log) : RestoreRead(t, r)) \/ RestoreWrite(t) \/ RestoreSettle(t)
    BY <1>1, <1>2, <1>3, <1>10 DEF RestoreRead, RestoreWrite, RestoreSettle
<1> QED BY <1>4, <1>5, <1>6, <1>7, <1>8, <1>9, <1>10 DEF Step

LEMMA NextKeepsOneEach ==
    ASSUME IsFiniteSet(Tasks), MaxPerWs = 1, IInv, OneEach, [Next]_vars
    PROVE  OneEach'
<1>1. Idle.op = "none" /\ Idle.ws \notin Workspaces
    BY NoneIsNothing DEF Idle, Request
<1>2. ASSUME \A t \in Tasks : \/ task'[t] = Idle
                              \/ task'[t].op = task[t].op /\ task'[t].ws = task[t].ws
      PROVE  OneEach'
    BY <1>1, <1>2 DEF OneEach
<1>3. ASSUME NEW t \in Tasks, Step(t) PROVE OneEach'
    BY <1>2, <1>3, StepElsewhere, StepKeepsRequest DEF Elsewhere
<1>4. ASSUME NEW t \in Tasks, NEW w \in Workspaces, NEW op, NEW e, StartOp(t, w, op, e)
      PROVE  OneEach'
  <2>1. Active(w) = {}
    <3>1. IsFiniteSet(Active(w))
        BY FS_Subset DEF Active
    <3>2. Cardinality(Active(w)) < 1
        BY <1>4 DEF StartOp
    <3> QED BY <3>1, <3>2, FS_EmptySet, FS_CardinalityType
  <2>2. task' = [task EXCEPT ![t] = Request(op, w, e, "lock")] /\ task \in [Tasks -> Task]
    BY <1>4 DEF StartOp, IInv, TypeOK
  <2>3. task'[t].ws = w /\ \A u \in Tasks \ {t} : task'[u] = task[u] /\ task[u].ws # w
    BY <2>1, <2>2 DEF Request, Active
  <2> QED BY <2>3 DEF OneEach
<1>5. ASSUME NEW t \in Tasks, Acquire(t) PROVE OneEach'
  <2>1. task'[t].op = task[t].op /\ task'[t].ws = task[t].ws
    BY <1>5 DEF Acquire, Goto, IInv, TypeOK, Task
  <2> QED BY <1>2, <1>5, <2>1, ArrivalElsewhere
<1>6. CASE UserEdit \/ UNCHANGED vars
    BY <1>2, <1>6, EditElsewhere DEF vars
<1>7. ASSUME NEW w \in Workspaces, Crash(w) PROVE OneEach'
    BY <1>2, <1>7, CrashElsewhere
<1> QED BY <1>3, <1>4, <1>5, <1>6, <1>7 DEF Next

\* With at most one request of a workspace at a time, and any number of workspaces at
\* once on the one remote, no restore has company: what is overwritten, agreed and merged
\* was seen or is listed, of any number of contents, entities, edits and requests.
THEOREM OneAtATimeIsSafe ==
    ASSUME IsFiniteSet(Tasks), MaxPerWs = 1
    PROVE  Spec => []AgreedContentKnown /\ []UnseenContentIsReported /\ OverwriteIsSeen
<1>1. Init => OneEach
    BY NoneIsNothing DEF Init, OneEach, Idle, Request
<1>2. IInv /\ OneEach /\ [Next]_vars => OneEach'
    BY NextKeepsOneEach
<1>3. OneEach => RestoresAlone
    BY DEF OneEach, RestoresAlone, Ws
<1> QED BY <1>1, <1>2, <1>3, Inductive, AgreedWasSeen, UnseenIsReported, NothingOverwrittenUnseen,
        PTL DEF Spec

=============================================================================
