---------------------------- MODULE Library_proofs ----------------------------
(* TLAPS proofs about Library: the tables stay consistent, nothing is left     *)
(* behind by a workspace that goes, sessions follow, a clone is of its         *)
(* workspace's remote, and what a save answers for is there, for any number of *)
(* workspaces, rows, names, sessions and requests in flight.                   *)
EXTENDS Library, FiniteSetTheorems, WellFoundedInduction, TLAPS

-----------------------------------------------------------------------------
(* The inductive invariant.                                                 *)

Saves == {"save", "import", "push"}
RowOps == Saves \cup {"rename", "delete", "undelete", "purge"}

Resolved == {"find", "write", "ensure", "choose", "update", "after", "drop", "dropWrite", "forget"}

\* What a request in flight carries.
Shape(q) ==
    /\ q.pc \in {"find", "write", "choose"} => q.op \in RowOps
    /\ q.pc \in {"find", "write"} \/ q.op \in RowOps => q.key # None
    /\ q.op = "rename" => q.to \in Queries
    /\ q.op = "import" => q.to \in Dashboards
    /\ q.pc \in {"push", "choose"} => q.op = "push"
    /\ q.op = "push" => q.sid \in Sids
    /\ q.op \in {"git", "create", "patch", "drop"} => q.name # None
    /\ q.pc = "ensure" => q.op = "git"
    /\ q.pc = "create" <=> q.op = "create"
    /\ q.op = "create" => q.remote # Absent
    /\ q.pc \in {"update", "after"} => q.op = "patch"
    /\ q.op = "patch" => q.to \in Names /\ q.pc \in {"resolve", "update", "after"}
    /\ q.pc \in {"drop", "dropWrite", "forget"} => q.op = "drop"
    /\ q.pc = "session" <=> q.op = "session"
    /\ q.op = "session" => q.sid \in Sids /\ q.moveTo # None
    /\ q.pc \in Resolved => /\ q.id # None /\ q.ws # None
                            /\ q.name # None => q.ws.name = q.name
    /\ q.moveTo # None => q.pc \in {"session", "dropWrite"}
    /\ q.pc \notin {"write", "dropWrite", "forget"} => q.row = None
    /\ q.pc = "write" => q.row \in Maybe(Rows)
    /\ q.pc = "write" /\ q.row = None => q.op \in Saves
    /\ q.pc = "dropWrite" => q.row \in Ids /\ q.moveTo # None

\* The workspace that it has resolved is as it was, but for r's own change of it.
Fresh(q) ==
    /\ q.pc \in Resolved \ {"after", "forget"} => q.id \in stale \/ workspaces[q.id] = q.ws
    /\ q.pc = "after" => \/ q.id \in stale
                         \/ /\ workspaces[q.id] # None /\ workspaces[q.id].name = q.to
                            /\ clone[q.id] \in {None, q.ws.remote, workspaces[q.id].remote}

\* Where sessions are to go is there, and is not what is about to be deleted.
Moving(q) ==
    /\ q.moveTo # None => q.moveTo \in stale \/ \E k \in Named(q.moveTo) : k # q.row
    /\ q.pc = "dropWrite" => \/ q.row \in stale
                             \/ workspaces[q.row] # None /\ workspaces[q.row].name = q.name

\* The row that it has found is as it was found.
Found(q) ==
    q.pc = "write" /\ q.row # None =>
       /\ q.op = "purge" => ~q.live
       /\ ~q.touched => /\ rows[q.row] # None /\ rows[q.row].ws = q.id /\ rows[q.row].key = q.key
                        /\ rows[q.row].live = q.live

Good(q) == Shape(q) /\ Fresh(q) /\ Moving(q) /\ Found(q)

\* The types, and the unique constraints as they are used.
Tables ==
    /\ workspaces \in [Ids -> Maybe(Workspace)]
    /\ rows \in [Rows -> Maybe(Entity)]
    /\ sessionWs \in [Sids -> Names]
    /\ clone \in [Ids -> Maybe(Remotes)]
    /\ req \in [Reqs -> Maybe(Req)]
    /\ stale \subseteq Ids \cup Names

NamesApart == \A i, j \in Existing : workspaces[i].name = workspaces[j].name => i = j

KeysApart ==
    \A x, y \in Rows : rows[x] # None /\ rows[y] # None /\ rows[x].ws = rows[y].ws /\ rows[x].key = rows[y].key => x = y

IInv ==
    /\ Tables /\ NamesApart /\ KeysApart
    /\ \A r \in InFlight : Good(req[r])
    /\ NothingOrphaned /\ SessionsFollow /\ CloneIsOfRemote

-----------------------------------------------------------------------------
(* Sets: the highest of some ids, and sets with one element at most.        *)

LEMMA LowestOf ==
    ASSUME NEW T \in SUBSET Nat, T # {}
    PROVE  \E m \in T : \A k \in T : m <= k
<1>1. PICK m \in T : \A k \in T : <<k, m>> \notin OpToRel(<, Nat)
  BY WFMin, NatLessThanWellFounded, Zenon
<1>2. \A k \in T : ~(k < m)
  BY <1>1, Zenon DEF OpToRel
<1> QED BY <1>2

LEMMA HighestOf ==
    ASSUME NEW n \in Nat, NEW S \in SUBSET (0..n), S # {}
    PROVE  Max(S) \in S /\ \A k \in S : Max(S) >= k
<1> DEFINE T == {x \in 0..n : n - x \in S}
<1>1. T \in SUBSET Nat /\ T # {}
  <2>1. PICK k \in S : k \in 0..n
    OBVIOUS
  <2>2. n - (n - k) = k /\ n - k \in 0..n
    BY <2>1
  <2>3. n - k \in T
    BY <2>1, <2>2
  <2>4. T \subseteq 0..n /\ 0..n \subseteq Nat
    OBVIOUS
  <2> HIDE DEF T
  <2> QED BY <2>3, <2>4
<1>2. PICK m \in T : \A k \in T : m <= k
  BY <1>1, LowestOf
<1>3. ASSUME NEW k \in S
      PROVE  n - m >= k
  <2>1. n - (n - k) = k /\ n - k \in 0..n
    OBVIOUS
  <2>2. m <= n - k
    BY <1>2, <2>1
  <2> QED BY <2>2
<1>4. n - m \in S /\ \A k \in S : n - m >= k
  BY <1>3
<1> QED BY <1>4, Zenon DEF Max

\* An id after the highest is free.
LEMMA NextIdIsFree ==
    ASSUME NEW n \in Nat, NEW used \in SUBSET (1..n)
    PROVE  NextId(used) \notin used
<1>1. used \cup {0} \in SUBSET (0..n) /\ used \cup {0} # {}
  OBVIOUS
<1>2. Max(used \cup {0}) \in 0..n /\ \A k \in used : Max(used \cup {0}) >= k
  BY <1>1, HighestOf
<1> QED BY <1>2 DEF NextId

LEMMA AtMostOne ==
    ASSUME NEW S, \A x, y \in S : x = y
    PROVE  Cardinality(S) <= 1
<1>1. CASE S = {}
  BY <1>1, FS_EmptySet
<1>2. CASE S # {}
  <2>1. PICK x \in S : S = {x}
    BY <1>2
  <2> QED BY <2>1, FS_Singleton
<1> QED BY <1>1, <1>2

\* The unique constraints, as the tables have them.
LEMMA TypesFollow == ASSUME IInv PROVE TypeOK
<1>1. ASSUME NEW n \in Names
      PROVE  Cardinality(Named(n)) <= 1
  <2>1. \A i, j \in Named(n) : i = j
    BY DEF IInv, NamesApart, Named
  <2> QED BY <2>1, AtMostOne
<1>2. ASSUME NEW i \in Ids, NEW k \in Queries \cup Dashboards
      PROVE  Cardinality(HasKey(i, k)) <= 1
  <2>1. \A x, y \in HasKey(i, k) : x = y
    BY DEF IInv, KeysApart, HasKey
  <2> QED BY <2>1, AtMostOne
<1> QED BY <1>1, <1>2 DEF IInv, Tables, TypeOK

-----------------------------------------------------------------------------
(* Requests.                                                                *)

Done == {"ok", "failed"}

LEMMA InFlightIs ==
    ASSUME Tables, NEW r \in InFlight
    PROVE  r \in Reqs /\ req[r] \in Req /\ req[r].pc \notin Done /\ req[r].pc \in Phases /\ req[r].op \in Ops
BY DEF InFlight, Tables, Maybe, Done, Req

LEMMA MovedFacts ==
    ASSUME NEW q \in Req, NEW to \in Phases
    PROVE  /\ Moved(q, to) \in Req
           /\ Moved(q, to).pc = to
           /\ to \notin Done => Moved(q, to) = [q EXCEPT !.pc = to]
<1>1. CASE to \in Done
  <2>1. Moved(q, to) = [Blank EXCEPT !.pc = to]
    BY <1>1 DEF Moved, Done
  <2>2. Blank \in Req
    BY DEF Blank, Req, Ops, Phases, Maybe
  <2> QED BY <1>1, <2>1, <2>2 DEF Req, Blank, Done
<1>2. CASE to \notin Done
  <2>1. Moved(q, to) = [q EXCEPT !.pc = to]
    BY <1>2 DEF Moved, Done
  <2> QED BY <1>2, <2>1 DEF Req
<1> QED BY <1>1, <1>2

\* Who is in flight after a step of r.
LEMMA StepOf ==
    ASSUME Tables, NEW r \in Reqs, NEW q \in Req, req' = [req EXCEPT ![r] = q]
    PROVE  /\ req' \in [Reqs -> Maybe(Req)]
           /\ req'[r] = q /\ q # None
           /\ r \in InFlight' <=> q.pc \notin Done
           /\ \A o \in Reqs \ {r} : req'[o] = req[o] /\ (o \in InFlight' <=> o \in InFlight)
BY NoneAssumption DEF Tables, InFlight, Maybe, Done

\* A step that changes only where r is, and does not end an update or a deletion.
LEMMA RequestStep ==
    ASSUME IInv, NEW r \in Reqs, NEW q \in Req, req' = [req EXCEPT ![r] = q],
           UNCHANGED <<store, stale>>,
           r \in InFlight => req[r].pc \notin {"after", "forget"},
           q.pc \notin Done => Good(q)
    PROVE  IInv'
<1> USE DEF store
<1>0. Tables
  BY DEF IInv
<1>1. /\ req' \in [Reqs -> Maybe(Req)]
      /\ req'[r] = q /\ q # None
      /\ r \in InFlight' <=> q.pc \notin Done
      /\ \A o \in Reqs \ {r} : req'[o] = req[o] /\ (o \in InFlight' <=> o \in InFlight)
  BY <1>0, StepOf
<1>2. Tables' /\ NamesApart' /\ KeysApart'
  BY <1>0, <1>1 DEF IInv, Tables, NamesApart, KeysApart, Existing
<1>3. ASSUME NEW p
      PROVE  Good(p)' <=> Good(p)
  BY DEF Good, Shape, Fresh, Moving, Found, Named, Existing
<1>4. ASSUME NEW o \in InFlight'
      PROVE  Good(req[o])'
  <2>1. o \in Reqs
    BY DEF InFlight
  <2>2. Good(req'[o])
    BY <1>1, <1>4, <2>1 DEF IInv
  <2> QED BY <1>3, <2>2
<1>5. NothingOrphaned' /\ SessionsFollow'
  BY DEF IInv, NothingOrphaned, SessionsFollow, Named, Existing
<1>6. CloneIsOfRemote'
  <2>1. \A o \in InFlight : req[o].pc \in {"after", "forget"} => o \in InFlight' /\ req'[o] = req[o]
    BY <1>1 DEF InFlight
  <2> QED BY <2>1 DEF IInv, CloneIsOfRemote
<1> QED BY <1>2, <1>4, <1>5, <1>6 DEF IInv

\* A request that has just come in, or goes back to its beginning.
LEMMA FreshRequest ==
    ASSUME NEW q \in Req, Shape(q), q.pc \in {"session", "push", "resolve", "create"},
           q.moveTo # None => Named(q.moveTo) # {}
    PROVE  Good(q)
<1>1. Fresh(q) /\ Found(q)
  BY DEF Fresh, Found, Resolved
<1>2. \A k \in Ids : k # None
  BY NoneAssumption
<1>3. q.row = None
  BY DEF Shape
<1>4. Moving(q)
  BY <1>2, <1>3 DEF Moving, Named, Existing
<1> QED BY <1>1, <1>4 DEF Good

LEMMA BlankIs == Blank \in Req /\ Blank.pc = "resolve"
BY DEF Blank, Req, Ops, Phases, Maybe

\* What a request that can come in has.
Fits(q) ==
    /\ q.op \in RowOps => q.key # None
    /\ q.op \in {"git", "create", "patch", "drop"} => q.name # None
    /\ q.op = "rename" => q.to \in Queries
    /\ q.op = "import" => q.to \in Dashboards
    /\ q.op = "patch" => q.to \in Names
    /\ q.op = "create" => q.remote # Absent
    /\ q.op \in {"push", "session"} => q.sid \in Sids
    /\ q.op = "session" <=> q.moveTo # None
    /\ q.moveTo # None => Named(q.moveTo) # {}
    /\ q.pc = IF q.op \in {"push", "session", "create"} THEN q.op ELSE "resolve"
    /\ q.row = None

LEMMA ComingStep ==
    ASSUME IInv, NEW r \in Reqs, req[r] = None, UNCHANGED <<store, stale>>, NEW q \in Req, Fits(q), Comes(r, q)
    PROVE  IInv'
<1>1. Shape(q) /\ q.pc \in {"session", "push", "resolve", "create"} /\ (q.moveTo # None => Named(q.moveTo) # {})
  BY DEF Fits, Shape, Resolved, RowOps, Saves
<1>2. Good(q)
  BY <1>1, FreshRequest
<1>3. r \notin InFlight /\ req' = [req EXCEPT ![r] = q]
  BY DEF InFlight, Comes
<1> QED BY <1>2, <1>3, RequestStep

LEMMA ArriveStep == ASSUME IInv, NEW r \in Reqs, Arrive(r) PROVE IInv'
<1>1. req[r] = None /\ UNCHANGED <<store, stale>>
  BY DEF Arrive
<1>2. /\ None \notin Names \cup Queries \cup Dashboards
      /\ \A X : None \in Maybe(X) /\ \A x \in X : x \in Maybe(X)
      /\ \A m \in Maybe(Remotes) : m # Absent
  BY LibraryAssumption DEF Maybe
<1>3. ASSUME NEW n \in Maybe(Names), NEW k \in Queries \cup Dashboards,
             Comes(r, [Blank EXCEPT !.name = n, !.key = k])
      PROVE  IInv'
  <2> DEFINE q == [Blank EXCEPT !.name = n, !.key = k]
  <2>1. q \in Req
    BY <1>2 DEF Blank, Req, Ops, Phases
  <2>2. /\ q.op = "save" /\ q.pc = "resolve" /\ q.name = n /\ q.key = k /\ q.to = None
        /\ q.remote = None /\ q.sid = None /\ q.moveTo = None /\ q.row = None
    BY DEF Blank
  <2> HIDE DEF q
  <2>3. Fits(q)
    BY <1>2, <1>3, <2>2 DEF Fits, RowOps, Saves
  <2> QED BY <1>1, <1>3, <2>1, <2>3, ComingStep DEF q
<1>4. ASSUME NEW n \in Names, NEW k \in Queries, NEW op \in {"delete", "undelete", "purge"},
             Comes(r, [Blank EXCEPT !.op = op, !.name = n, !.key = k])
      PROVE  IInv'
  <2> DEFINE q == [Blank EXCEPT !.op = op, !.name = n, !.key = k]
  <2>1. q \in Req
    BY <1>2 DEF Blank, Req, Ops, Phases
  <2>2. /\ q.op = op /\ q.pc = "resolve" /\ q.name = n /\ q.key = k /\ q.to = None
        /\ q.remote = None /\ q.sid = None /\ q.moveTo = None /\ q.row = None
    BY DEF Blank
  <2> HIDE DEF q
  <2>3. Fits(q)
    BY <1>2, <1>4, <2>2 DEF Fits, RowOps, Saves
  <2> QED BY <1>1, <1>4, <2>1, <2>3, ComingStep DEF q
<1>5. ASSUME NEW n \in Names, NEW k \in Queries, NEW p \in Queries,
             Comes(r, [Blank EXCEPT !.op = "rename", !.name = n, !.key = k, !.to = p])
      PROVE  IInv'
  <2> DEFINE q == [Blank EXCEPT !.op = "rename", !.name = n, !.key = k, !.to = p]
  <2>1. q \in Req
    BY <1>2 DEF Blank, Req, Ops, Phases
  <2>2. /\ q.op = "rename" /\ q.pc = "resolve" /\ q.name = n /\ q.key = k /\ q.to = p
        /\ q.remote = None /\ q.sid = None /\ q.moveTo = None /\ q.row = None
    BY DEF Blank
  <2> HIDE DEF q
  <2>3. Fits(q)
    BY <1>2, <1>5, <2>2 DEF Fits, RowOps, Saves
  <2> QED BY <1>1, <1>5, <2>1, <2>3, ComingStep DEF q
<1>6. ASSUME NEW n \in Names, NEW k \in Queries, NEW d \in Dashboards,
             Comes(r, [Blank EXCEPT !.op = "import", !.name = n, !.key = k, !.to = d])
      PROVE  IInv'
  <2> DEFINE q == [Blank EXCEPT !.op = "import", !.name = n, !.key = k, !.to = d]
  <2>1. q \in Req
    BY <1>2 DEF Blank, Req, Ops, Phases
  <2>2. /\ q.op = "import" /\ q.pc = "resolve" /\ q.name = n /\ q.key = k /\ q.to = d
        /\ q.remote = None /\ q.sid = None /\ q.moveTo = None /\ q.row = None
    BY DEF Blank
  <2> HIDE DEF q
  <2>3. Fits(q)
    BY <1>2, <1>6, <2>2 DEF Fits, RowOps, Saves
  <2> QED BY <1>1, <1>6, <2>1, <2>3, ComingStep DEF q
<1>7. ASSUME NEW s \in Sids, NEW d \in Dashboards,
             Comes(r, [Blank EXCEPT !.op = "push", !.pc = "push", !.sid = s, !.key = d])
      PROVE  IInv'
  <2> DEFINE q == [Blank EXCEPT !.op = "push", !.pc = "push", !.sid = s, !.key = d]
  <2>1. q \in Req
    BY <1>2 DEF Blank, Req, Ops, Phases
  <2>2. /\ q.op = "push" /\ q.pc = "push" /\ q.name = None /\ q.key = d /\ q.to = None
        /\ q.remote = None /\ q.sid = s /\ q.moveTo = None /\ q.row = None
    BY DEF Blank
  <2> HIDE DEF q
  <2>3. Fits(q)
    BY <1>2, <1>7, <2>2 DEF Fits, RowOps, Saves
  <2> QED BY <1>1, <1>7, <2>1, <2>3, ComingStep DEF q
<1>8. ASSUME NEW s \in Sids, NEW n \in Names, Named(n) # {},
             Comes(r, [Blank EXCEPT !.op = "session", !.pc = "session", !.sid = s, !.moveTo = n])
      PROVE  IInv'
  <2> DEFINE q == [Blank EXCEPT !.op = "session", !.pc = "session", !.sid = s, !.moveTo = n]
  <2>1. q \in Req
    BY <1>2 DEF Blank, Req, Ops, Phases
  <2>2. /\ q.op = "session" /\ q.pc = "session" /\ q.name = None /\ q.key = None /\ q.to = None
        /\ q.remote = None /\ q.sid = s /\ q.moveTo = n /\ q.row = None
    BY DEF Blank
  <2> HIDE DEF q
  <2>3. Fits(q)
    BY <1>2, <1>8, <2>2 DEF Fits, RowOps, Saves
  <2> QED BY <1>1, <1>8, <2>1, <2>3, ComingStep DEF q
<1>9. ASSUME NEW n \in Names, NEW op \in {"git", "drop"},
             Comes(r, [Blank EXCEPT !.op = op, !.name = n])
      PROVE  IInv'
  <2> DEFINE q == [Blank EXCEPT !.op = op, !.name = n]
  <2>1. q \in Req
    BY <1>2 DEF Blank, Req, Ops, Phases
  <2>2. /\ q.op = op /\ q.pc = "resolve" /\ q.name = n /\ q.key = None /\ q.to = None
        /\ q.remote = None /\ q.sid = None /\ q.moveTo = None /\ q.row = None
    BY DEF Blank
  <2> HIDE DEF q
  <2>3. Fits(q)
    BY <1>2, <1>9, <2>2 DEF Fits, RowOps, Saves
  <2> QED BY <1>1, <1>9, <2>1, <2>3, ComingStep DEF q
<1>10. ASSUME NEW n \in Names, NEW m \in Maybe(Remotes), NEW a \in BOOLEAN,
             Comes(r, [Blank EXCEPT !.op = "create", !.pc = "create", !.name = n, !.remote = m, !.autosave = a])
      PROVE  IInv'
  <2> DEFINE q == [Blank EXCEPT !.op = "create", !.pc = "create", !.name = n, !.remote = m, !.autosave = a]
  <2>1. q \in Req
    BY <1>2 DEF Blank, Req, Ops, Phases
  <2>2. /\ q.op = "create" /\ q.pc = "create" /\ q.name = n /\ q.key = None /\ q.to = None
        /\ q.remote = m /\ q.sid = None /\ q.moveTo = None /\ q.row = None
    BY DEF Blank
  <2> HIDE DEF q
  <2>3. Fits(q)
    BY <1>2, <1>10, <2>2 DEF Fits, RowOps, Saves
  <2> QED BY <1>1, <1>10, <2>1, <2>3, ComingStep DEF q
<1>11. ASSUME NEW n \in Names, NEW p \in Names, NEW m \in Maybe(Remotes) \cup {Absent}, NEW a \in BOOLEAN,
             Comes(r, [Blank EXCEPT !.op = "patch", !.name = n, !.to = p, !.remote = m, !.autosave = a])
      PROVE  IInv'
  <2> DEFINE q == [Blank EXCEPT !.op = "patch", !.name = n, !.to = p, !.remote = m, !.autosave = a]
  <2>1. q \in Req
    BY <1>2 DEF Blank, Req, Ops, Phases
  <2>2. /\ q.op = "patch" /\ q.pc = "resolve" /\ q.name = n /\ q.key = None /\ q.to = p
        /\ q.remote = m /\ q.sid = None /\ q.moveTo = None /\ q.row = None
    BY DEF Blank
  <2> HIDE DEF q
  <2>3. Fits(q)
    BY <1>2, <1>11, <2>2 DEF Fits, RowOps, Saves
  <2> QED BY <1>1, <1>11, <2>1, <2>3, ComingStep DEF q
<1> HIDE DEF Blank
<1> QED BY Zenon, <1>3, <1>4, <1>5, <1>6, <1>7, <1>8, <1>9, <1>10, <1>11 DEF Arrive

\* A step that only fails, or answers, or goes on as it is.
LEMMA GotoStep ==
    ASSUME IInv, NEW r \in InFlight, NEW to \in Phases, Goto(r, to), UNCHANGED <<store, stale>>,
           req[r].pc \notin {"after", "forget"},
           to \notin Done => Good([req[r] EXCEPT !.pc = to])
    PROVE  IInv'
<1>1. r \in Reqs /\ req[r] \in Req /\ req \in [Reqs -> Maybe(Req)]
  BY InFlightIs DEF IInv, Tables
<1>2. Moved(req[r], to) \in Req /\ Moved(req[r], to).pc = to
      /\ (to \notin Done => Moved(req[r], to) = [req[r] EXCEPT !.pc = to])
  BY <1>1, MovedFacts
<1>3. req' = [req EXCEPT ![r] = Moved(req[r], to)]
  BY <1>1 DEF Goto
<1> QED BY <1>1, <1>2, <1>3, RequestStep

LEMMA WorkspaceFound ==
    ASSUME NEW q \in Req, NEW i \in Ids, NEW w \in Workspace
    PROVE  [q EXCEPT !.id = i, !.ws = w] \in Req
<1>1. i \in Maybe(Ids) /\ w \in Maybe(Workspace)
  BY DEF Maybe
<1> QED BY <1>1 DEF Req

LEMMA ResolveStep == ASSUME IInv, NEW r \in Reqs, Resolve(r) PROVE IInv'
<1> DEFINE n == req[r].name
           found == IF n # None THEN Named(n) ELSE {i \in Existing : \A j \in Existing : i <= j}
           to == CASE req[r].op = "git" -> "ensure"
                   [] req[r].op = "push" -> "choose"
                   [] req[r].op = "patch" -> "update"
                   [] req[r].op = "drop" -> "drop"
                   [] OTHER -> "find"
<1>1. /\ r \in InFlight /\ req[r] \in Req /\ req[r].pc = "resolve" /\ Good(req[r])
      /\ UNCHANGED <<store, stale>> /\ Tables
  BY InFlightIs DEF IInv, Resolve, At
<1>2. CASE found = {}
  <2>1. Goto(r, "failed")
    BY <1>2 DEF Resolve
  <2>2. "failed" \in Phases /\ "failed" \in Done
    BY DEF Phases, Done
  <2> QED BY <1>1, <2>1, <2>2, GotoStep
<1>3. ASSUME NEW i \in found, req' = [req EXCEPT ![r] = Moved([@ EXCEPT !.id = i, !.ws = workspaces[i]], to)]
      PROVE  IInv'
  <2> DEFINE p == [req[r] EXCEPT !.id = i, !.ws = workspaces[i]]
             q == [p EXCEPT !.pc = to]
  <2>1. i \in Ids /\ i # None /\ workspaces[i] \in Workspace /\ workspaces[i] # None /\ (n # None => workspaces[i].name = n)
    BY <1>1, NoneAssumption DEF Named, Existing, Tables, Maybe
  <2>2. p \in Req
    BY <1>1, <2>1, WorkspaceFound
  <2>3. to \in {"ensure", "choose", "update", "drop", "find"}
    OBVIOUS
  <2>4. to \in Phases /\ to \notin Done /\ to \notin {"write", "after", "dropWrite", "forget"}
    BY <2>3 DEF Phases, Done
  <2> HIDE DEF to
  <2>5. Moved(p, to) = q /\ Moved(p, to) \in Req
    BY <2>2, <2>4, MovedFacts
  <2>6. q \in Req
    BY <2>5
  <2>7. /\ q.pc = to /\ q.id = i /\ q.ws = workspaces[i] /\ q.name = n /\ q.op = req[r].op /\ q.key = req[r].key
        /\ q.to = req[r].to /\ q.remote = req[r].remote /\ q.sid = req[r].sid /\ q.row = req[r].row
        /\ q.moveTo = req[r].moveTo
    BY <1>1, <2>2 DEF Req
  <2>8. Shape(req[r])
    BY <1>1 DEF Good
  <2>9. Shape(q)
    <3>1. req[r].op \in {"git", "push", "patch", "drop"} \/ req[r].op \in RowOps
      BY <1>1, <2>8 DEF Shape, RowOps, Saves, Ops, Req
    <3> HIDE DEF q, p, found
    <3>2. ASSUME NEW op \in {"git", "push", "patch", "drop"}, req[r].op = op
          PROVE  Shape(q)
      <4>1. to = IF op = "git" THEN "ensure" ELSE IF op = "push" THEN "choose"
                 ELSE IF op = "patch" THEN "update" ELSE "drop"
        BY <3>2 DEF to
      <4>2. q.row = None /\ q.moveTo = None
        BY <1>1, <2>7, <2>8 DEF Shape
      <4>3. op = "push" => q.key # None /\ q.sid \in Sids
        BY <1>1, <2>7, <2>8, <3>2 DEF Shape, RowOps, Saves
      <4>4. op = "patch" => q.to \in Names
        BY <2>7, <2>8, <3>2 DEF Shape
      <4>5. op # "push" => n # None
        BY <2>8, <3>2 DEF Shape
      <4> HIDE DEF n
      <4> QED BY <2>1, <2>7, <3>2, <4>1, <4>2, <4>3, <4>4, <4>5 DEF Shape, RowOps, Saves, Resolved
    <3>3. CASE req[r].op \in RowOps \ {"push"}
      <4>1. to = "find"
        BY <3>3 DEF RowOps, Saves, to
      <4> QED BY <1>1, <2>1, <2>7, <2>8, <3>3, <4>1 DEF Shape, RowOps, Saves, Resolved
    <3> QED BY <3>1, <3>2, <3>3
  <2>10. Fresh(q) /\ Found(q)
    BY <2>4, <2>7 DEF Fresh, Found
  <2>11. Moving(q)
    BY <1>1, <2>4, <2>7, <2>8 DEF Moving, Shape
  <2>12. req' = [req EXCEPT ![r] = q]
    <3>1. req \in [Reqs -> Maybe(Req)] /\ r \in Reqs
      BY <1>1 DEF Tables
    <3>2. req' = [req EXCEPT ![r] = Moved(p, to)]
      BY <1>3, <3>1
    <3> HIDE DEF q, p
    <3> QED BY <2>5, <3>2, Zenon
  <2> HIDE DEF q, p, found, to
  <2> QED BY <1>1, <2>5, <2>9, <2>10, <2>11, <2>12, RequestStep DEF Good
<1> QED BY <1>2, <1>3 DEF Resolve

LEMMA PushStep == ASSUME IInv, NEW r \in Reqs, Push(r) PROVE IInv'
<1>1. /\ r \in InFlight /\ req[r] \in Req /\ req[r].pc = "push" /\ Good(req[r])
      /\ UNCHANGED <<store, stale>> /\ Tables
  BY InFlightIs DEF IInv, Push, At
<1>2. CASE Goto(r, "failed")
  <2>1. "failed" \in Phases /\ "failed" \in Done
    BY DEF Phases, Done
  <2> QED BY <1>1, <1>2, <2>1, GotoStep
<1>3. CASE req' = [req EXCEPT ![r] = Moved([@ EXCEPT !.name = sessionWs[req[r].sid]], "resolve")]
  <2> DEFINE n == sessionWs[req[r].sid]
             p == [req[r] EXCEPT !.name = n]
             q == [p EXCEPT !.pc = "resolve"]
  <2>1. n \in Names /\ Shape(req[r]) /\ req[r].op = "push"
    BY <1>1 DEF Good, Shape, Tables
  <2>2. p \in Req
    BY <1>1, <2>1 DEF Req, Maybe
  <2>0. "resolve" \in Phases /\ "resolve" \notin Done
    BY DEF Phases, Done
  <2>3. Moved(p, "resolve") = q /\ Moved(p, "resolve") \in Req
    BY <2>0, <2>2, MovedFacts
  <2>4. /\ q.pc = "resolve" /\ q.name = n /\ q.op = "push" /\ q.key = req[r].key /\ q.moveTo = req[r].moveTo
        /\ q.row = req[r].row /\ q.sid = req[r].sid
    BY <1>1, <2>1, <2>2 DEF Req
  <2>5. req' = [req EXCEPT ![r] = Moved(p, "resolve")]
    BY <1>1, <1>3 DEF Tables
  <2> HIDE DEF q, p
  <2>6. q \in Req /\ req' = [req EXCEPT ![r] = q]
    BY <2>3, <2>5, Zenon
  <2>7. Shape(q) /\ q.moveTo = None
    BY <1>1, <2>1, <2>4 DEF Shape, RowOps, Saves, Resolved
  <2>8. Good(q)
    BY <2>4, <2>6, <2>7, FreshRequest
  <2> QED BY <1>1, <2>6, <2>8, RequestStep
<1> QED BY <1>2, <1>3 DEF Push

LEMMA ChooseStep == ASSUME IInv, NEW r \in Reqs, Choose(r) PROVE IInv'
<1>1. /\ r \in InFlight /\ req[r] \in Req /\ req[r].pc = "choose" /\ Good(req[r])
      /\ UNCHANGED <<store, stale>> /\ Goto(r, IF req[r].ws.autosave THEN "find" ELSE "ok")
  BY InFlightIs DEF IInv, Choose, At
<1> DEFINE q == [req[r] EXCEPT !.pc = "find"]
<1>2. /\ q.pc = "find" /\ q.id = req[r].id /\ q.ws = req[r].ws /\ q.name = req[r].name /\ q.op = req[r].op
      /\ q.key = req[r].key /\ q.to = req[r].to /\ q.row = req[r].row /\ q.moveTo = req[r].moveTo /\ q.sid = req[r].sid
  BY <1>1 DEF Req
<1>3. Good(q)
  <2> HIDE DEF q
  <2>1. Shape(q)
    BY <1>1, <1>2 DEF Good, Shape, RowOps, Saves, Resolved
  <2>2. Fresh(q)
    BY <1>1, <1>2 DEF Good, Fresh, Resolved
  <2>3. Moving(q) /\ Found(q)
    BY <1>1, <1>2 DEF Good, Moving, Found, Shape
  <2> QED BY <2>1, <2>2, <2>3 DEF Good
<1> QED BY <1>1, <1>3, GotoStep DEF Phases, Done

LEMMA RowFound ==
    ASSUME NEW q \in Req, NEW x \in Rows, NEW l \in BOOLEAN
    PROVE  [q EXCEPT !.row = x, !.live = l] \in Req
<1>1. x \in Maybe(Rows \cup Ids)
  BY DEF Maybe
<1> QED BY <1>1 DEF Req

LEMMA WhereTo ==
    ASSUME NEW q \in Req, NEW i \in Ids, NEW n \in Names
    PROVE  [q EXCEPT !.row = i, !.moveTo = n] \in Req
<1>1. i \in Maybe(Rows \cup Ids) /\ n \in Maybe(Names)
  BY DEF Maybe
<1> QED BY <1>1 DEF Req

LEMMA FindStep == ASSUME IInv, NEW r \in Reqs, Find(r) PROVE IInv'
<1> DEFINE i == req[r].id
           found == HasKey(i, req[r].key)
           to == IF req[r].op = "rename" THEN HasKey(i, req[r].to) ELSE {}
<1>1. /\ r \in InFlight /\ req[r] \in Req /\ req[r].pc = "find" /\ Good(req[r])
      /\ UNCHANGED <<store, stale>> /\ Tables
  BY InFlightIs DEF IInv, Find, At
<1>2. CASE Refused(req[r].op, found, to)
  <2>1. Goto(r, "failed")
    BY <1>2 DEF Find
  <2>2. "failed" \in Phases /\ "failed" \in Done
    BY DEF Phases, Done
  <2> QED BY <1>1, <2>1, <2>2, GotoStep
<1>3. ASSUME ~Refused(req[r].op, found, to), NEW x \in found \cup {None}, NEW live \in BOOLEAN,
             x = None => found = {}, x # None => live = rows[x].live,
             NEW p \in Req, p = [req[r] EXCEPT !.row = x, !.live = live] \/ (x = None /\ p = [req[r] EXCEPT !.row = x]),
             req' = [req EXCEPT ![r] = Moved(p, "write")]
      PROVE  IInv'
  <2> DEFINE q == [p EXCEPT !.pc = "write"]
  <2>1. "write" \in Phases /\ "write" \notin Done
    BY DEF Phases, Done
  <2>2. Moved(p, "write") = q /\ Moved(p, "write") \in Req
    BY <2>1, MovedFacts
  <2>3. /\ q.pc = "write" /\ q.id = i /\ q.ws = req[r].ws /\ q.name = req[r].name /\ q.op = req[r].op
        /\ q.key = req[r].key /\ q.to = req[r].to /\ q.remote = req[r].remote /\ q.sid = req[r].sid
        /\ q.moveTo = req[r].moveTo /\ q.row = x /\ (x # None => q.live = live)
    BY <1>1, <1>3 DEF Req
  <2> HIDE DEF q
  <2>4. q \in Req /\ req' = [req EXCEPT ![r] = q]
    BY <1>3, <2>2, Zenon
  <2>5. /\ x # None => /\ x \in Rows /\ rows[x] # None /\ rows[x].ws = i /\ rows[x].key = q.key
                       /\ rows[x].live = q.live
        /\ x = None \/ x \in Rows
    BY <1>3, <2>3 DEF HasKey
  <2>6. req[r].op \in RowOps /\ Shape(req[r])
    BY <1>1 DEF Good, Shape
  <2>7. x = None => req[r].op \in Saves
    BY <1>3, <2>6 DEF Refused, RowOps, Saves
  <2>8. req[r].op = "purge" /\ x # None => ~q.live
    BY <1>3, <2>3, <2>6 DEF Refused, RowOps, Saves
  <2>9. Shape(q)
    BY <1>1, <2>3, <2>5, <2>6, <2>7 DEF Shape, RowOps, Saves, Resolved, Maybe
  <2>10. Fresh(q) /\ Moving(q)
    BY <1>1, <2>3, <2>6 DEF Good, Shape, Fresh, Moving, Resolved
  <2>11. Found(q)
    BY <2>3, <2>5, <2>8 DEF Found
  <2> QED BY <1>1, <2>3, <2>4, <2>9, <2>10, <2>11, RequestStep DEF Good
<1>4. CASE ~Refused(req[r].op, found, to) /\ found = {}
  <2> DEFINE p == [req[r] EXCEPT !.row = None]
  <2>1. p \in Req
    BY <1>1 DEF Req, Maybe
  <2>2. req' = [req EXCEPT ![r] = Moved(p, "write")]
    BY <1>1, <1>4 DEF Find, Tables
  <2> QED BY <1>3, <1>4, <2>1, <2>2
<1>5. ASSUME ~Refused(req[r].op, found, to), NEW x \in found,
             req' = [req EXCEPT ![r] = Moved([@ EXCEPT !.row = x, !.live = rows[x].live], "write")]
      PROVE  IInv'
  <2> DEFINE live == rows[x].live
             p == [req[r] EXCEPT !.row = x, !.live = live]
  <2>1. x \in Rows /\ x # None /\ live \in BOOLEAN
    BY <1>1, NoneAssumption DEF HasKey, Tables, Maybe, Entity
  <2>2. p \in Req
    <3> HIDE DEF live, found
    <3> QED BY <1>1, <2>1, RowFound
  <2>3. req' = [req EXCEPT ![r] = Moved(p, "write")]
    BY <1>1, <1>5 DEF Tables
  <2>4. p = [req[r] EXCEPT !.row = x, !.live = live] /\ live = rows[x].live
    OBVIOUS
  <2> HIDE DEF p, live, found, to
  <2> QED BY <1>3, <1>5, <2>1, <2>2, <2>3, <2>4
<1> QED BY <1>2, <1>4, <1>5 DEF Find

LEMMA LowestIs ==
    ASSUME NEW S \in SUBSET Nat, S # {}
    PROVE  Min(S) \in S
BY LowestOf, Zenon DEF Min

LEMMA DropReadStep == ASSUME IInv, NEW r \in Reqs, DropRead(r) PROVE IInv'
<1> DEFINE found == Named(req[r].name)
           others == Existing \ found
<1>1. /\ r \in InFlight /\ req[r] \in Req /\ req[r].pc = "drop" /\ Good(req[r])
      /\ UNCHANGED <<store, stale>> /\ Tables
  BY InFlightIs DEF IInv, DropRead, At
<1>2. CASE Goto(r, "failed")
  <2>1. "failed" \in Phases /\ "failed" \in Done
    BY DEF Phases, Done
  <2> QED BY <1>1, <1>2, <2>1, GotoStep
<1>3. ASSUME NEW i \in found, others # {},
             req' = [req EXCEPT ![r] = Moved([@ EXCEPT !.row = i, !.moveTo = workspaces[Min(others)].name], "dropWrite")]
      PROVE  IInv'
  <2> DEFINE k == Min(others)
             p == [req[r] EXCEPT !.row = i, !.moveTo = workspaces[k].name]
             q == [p EXCEPT !.pc = "dropWrite"]
  <2>1. "dropWrite" \in Phases /\ "dropWrite" \notin Done
    BY DEF Phases, Done
  <2>2. k \in others
    BY <1>3, LowestIs DEF Existing, Ids
  <2>3. /\ i \in Ids /\ k \in Ids /\ k # i /\ workspaces[i] # None /\ workspaces[k] # None
        /\ workspaces[i].name = req[r].name /\ workspaces[k].name \in Names /\ k \in Named(workspaces[k].name)
    <3> HIDE DEF k
    <3> QED BY <1>1, <2>2 DEF Named, Existing, Tables, Maybe, Workspace
  <2>4. None \notin Names
    BY LibraryAssumption
  <2> HIDE DEF k
  <2>5. p \in Req
    BY <1>1, <2>3, WhereTo
  <2>6. Moved(p, "dropWrite") = q /\ Moved(p, "dropWrite") \in Req
    BY <2>1, <2>5, MovedFacts
  <2>7. /\ q.pc = "dropWrite" /\ q.id = req[r].id /\ q.ws = req[r].ws /\ q.name = req[r].name /\ q.op = req[r].op
        /\ q.key = req[r].key /\ q.to = req[r].to /\ q.remote = req[r].remote /\ q.sid = req[r].sid
        /\ q.moveTo = workspaces[k].name /\ q.row = i
    BY <1>1, <2>5 DEF Req
  <2>8. req' = [req EXCEPT ![r] = Moved(p, "dropWrite")]
    BY <1>1, <1>3 DEF Tables, k
  <2> HIDE DEF q, p, found, others
  <2>9. q \in Req /\ req' = [req EXCEPT ![r] = q]
    BY <2>6, <2>8, Zenon
  <2>10. Shape(q)
    BY <1>1, <2>3, <2>4, <2>7 DEF Good, Shape, RowOps, Saves, Resolved
  <2>11. Fresh(q) /\ Found(q)
    BY <1>1, <2>7 DEF Good, Fresh, Found, Resolved
  <2>12. Moving(q)
    BY <2>3, <2>7 DEF Moving
  <2> QED BY <1>1, <2>7, <2>9, <2>10, <2>11, <2>12, RequestStep DEF Good
<1>4. \/ Goto(r, "failed")
      \/ /\ others # {}
         /\ \E i \in found :
               req' = [req EXCEPT ![r] = Moved([@ EXCEPT !.row = i, !.moveTo = workspaces[Min(others)].name], "dropWrite")]
  BY Zenon DEF DropRead
<1> QED BY <1>2, <1>3, <1>4

-----------------------------------------------------------------------------
(* Steps that write.                                                        *)

\* What is left to show of a step of r that leaves the rows of entities alone.
LEMMA StoreStep ==
    ASSUME IInv, NEW r \in Reqs, NEW q \in Req, req' = [req EXCEPT ![r] = q], UNCHANGED rows,
           workspaces' \in [Ids -> Maybe(Workspace)], sessionWs' \in [Sids -> Names],
           clone' \in [Ids -> Maybe(Remotes)], stale' \subseteq Ids \cup Names,
           NamesApart', NothingOrphaned', SessionsFollow', CloneIsOfRemote',
           \A p \in Req : q.pc \notin Done /\ p = q => Good(p)',
           \A o \in InFlight \ {r} : \A p \in Req : p = req[o] => Fresh(p)' /\ Moving(p)'
    PROVE  IInv'
<1>0. Tables
  BY DEF IInv
<1>1. /\ req' \in [Reqs -> Maybe(Req)]
      /\ req'[r] = q /\ q # None
      /\ r \in InFlight' <=> q.pc \notin Done
      /\ \A o \in Reqs \ {r} : req'[o] = req[o] /\ (o \in InFlight' <=> o \in InFlight)
  BY <1>0, StepOf
<1>2. Tables' /\ KeysApart'
  BY <1>0, <1>1 DEF IInv, Tables, KeysApart
<1>3. ASSUME NEW o \in InFlight', NEW p, p = req'[o]
      PROVE  Good(p)'
  <2>1. o \in Reqs
    BY DEF InFlight
  <2>2. CASE o = r
    BY <1>1, <1>3, <2>2
  <2>3. CASE o # r
    <3>1. o \in InFlight /\ p = req[o] /\ Good(p) /\ p \in Req
      BY <1>0, <1>1, <1>3, <2>1, <2>3, InFlightIs DEF IInv
    <3>2. Fresh(p)' /\ Moving(p)'
      BY <2>3, <3>1
    <3>3. Shape(p)' /\ Found(p)'
      BY <3>1 DEF Good, Shape, Found
    <3> QED BY <3>2, <3>3 DEF Good
  <2> QED BY <2>2, <2>3
<1>4. ASSUME NEW o \in InFlight'
      PROVE  Good(req[o])'
  BY <1>3
<1> QED BY <1>2, <1>4 DEF IInv

LEMMA PatchSessionStep == ASSUME IInv, NEW r \in Reqs, PatchSession(r) PROVE IInv'
<1> DEFINE s == req[r].sid
           n == req[r].moveTo
           q == Moved(req[r], "ok")
<1>1. /\ r \in InFlight /\ req[r] \in Req /\ req[r].pc = "session" /\ Good(req[r]) /\ Tables
      /\ sessionWs' = [sessionWs EXCEPT ![s] = n] /\ Goto(r, "ok")
      /\ UNCHANGED <<workspaces, rows, clone, stale>>
  BY InFlightIs DEF IInv, PatchSession, At
<1>2. "ok" \in Phases /\ "ok" \in Done
  BY DEF Phases, Done
<1>3. q \in Req /\ q.pc \in Done /\ req' = [req EXCEPT ![r] = q]
  BY <1>1, <1>2, MovedFacts DEF Goto, Tables
<1>4. s \in Sids /\ n \in Names /\ (n \in stale \/ Named(n) # {})
  BY <1>1 DEF Good, Shape, Moving, Req, Maybe
<1> HIDE DEF s, n, q
<1>5. sessionWs' \in [Sids -> Names]
  BY <1>1, <1>4 DEF Tables
<1>6. NamesApart' /\ NothingOrphaned'
  BY <1>1 DEF IInv, NamesApart, NothingOrphaned, Existing
<1>7. SessionsFollow'
  BY <1>1, <1>4 DEF IInv, SessionsFollow, Tables, Named, Existing
<1>8. CloneIsOfRemote'
  <2>1. \A o \in InFlight : req[o].pc \in {"after", "forget"} => o \in InFlight' /\ req'[o] = req[o]
    BY <1>1, <1>3, StepOf DEF InFlight
  <2> QED BY <1>1, <2>1 DEF IInv, CloneIsOfRemote
<1>9. ASSUME NEW o \in InFlight \ {r}, NEW p \in Req, p = req[o]
      PROVE  Fresh(p)' /\ Moving(p)'
  <2>1. Fresh(p) /\ Moving(p)
    BY <1>9 DEF IInv, Good
  <2> QED BY <1>1, <2>1 DEF Fresh, Moving, Named, Existing
<1>10. /\ workspaces' \in [Ids -> Maybe(Workspace)] /\ clone' \in [Ids -> Maybe(Remotes)] /\ stale' \subseteq Ids \cup Names
  BY <1>1 DEF Tables
<1> QED BY <1>1, <1>3, <1>5, <1>6, <1>7, <1>8, <1>9, <1>10, StoreStep

LEMMA EnsureRepoStep == ASSUME IInv, NEW r \in Reqs, EnsureRepo(r) PROVE IInv'
<1> DEFINE i == req[r].id
           m == req[r].ws.remote
           to == IF m = None THEN "failed" ELSE "ok"
           q == Moved(req[r], to)
<1>1. /\ r \in InFlight /\ req[r] \in Req /\ req[r].pc = "ensure" /\ Good(req[r]) /\ Tables
      /\ clone' = [clone EXCEPT ![i] = IF @ = None THEN m ELSE @] /\ Goto(r, to)
      /\ UNCHANGED <<workspaces, rows, sessionWs, stale>>
  BY InFlightIs DEF IInv, EnsureRepo, At
<1>2. to \in Phases /\ to \in Done
  BY DEF Phases, Done
<1> HIDE DEF to
<1>3. q \in Req /\ q.pc \in Done /\ req' = [req EXCEPT ![r] = q]
  BY <1>1, <1>2, MovedFacts DEF Goto, Tables
<1>4. /\ i \in Ids /\ m \in Maybe(Remotes) /\ (i \in stale \/ (workspaces[i] # None /\ workspaces[i].remote = m))
  <2>1. i # None /\ req[r].ws # None /\ Fresh(req[r])
    BY <1>1 DEF Good, Shape, Resolved
  <2>2. i \in Ids /\ req[r].ws \in Workspace
    BY <1>1, <2>1 DEF Req, Maybe
  <2>3. i \in stale \/ workspaces[i] = req[r].ws
    BY <1>1, <2>1 DEF Fresh, Resolved
  <2> QED BY <2>1, <2>2, <2>3 DEF Workspace
<1> HIDE DEF i, m, q
<1>5. /\ clone' \in [Ids -> Maybe(Remotes)]
      /\ clone'[i] = IF clone[i] = None THEN m ELSE clone[i]
      /\ \A j \in Ids \ {i} : clone'[j] = clone[j]
  BY <1>1, <1>4 DEF Tables
<1>6. NamesApart' /\ NothingOrphaned' /\ SessionsFollow'
  BY <1>1 DEF IInv, NamesApart, NothingOrphaned, SessionsFollow, Named, Existing
<1>7. CloneIsOfRemote'
  <2>1. \A o \in InFlight : req[o].pc \in {"after", "forget"} => o \in InFlight' /\ req'[o] = req[o]
    BY <1>1, <1>3, StepOf DEF InFlight
  <2> QED BY <1>1, <1>4, <1>5, <2>1 DEF IInv, CloneIsOfRemote
<1>8. ASSUME NEW o \in InFlight \ {r}, NEW p \in Req, p = req[o]
      PROVE  Fresh(p)' /\ Moving(p)'
  <2>1. Fresh(p) /\ Moving(p) /\ Shape(p)
    BY <1>8 DEF IInv, Good
  <2>2. Moving(p)'
    BY <1>1, <2>1 DEF Moving, Named, Existing
  <2>3. p.pc \in Resolved => p.id \in Ids
    BY <2>1 DEF Shape, Req, Maybe
  <2>4. Fresh(p)'
    BY <1>1, <1>4, <1>5, <2>1, <2>3 DEF Fresh, Resolved
  <2> QED BY <2>2, <2>4
<1>9. /\ workspaces' \in [Ids -> Maybe(Workspace)] /\ sessionWs' \in [Sids -> Names] /\ stale' \subseteq Ids \cup Names
  BY <1>1 DEF Tables
<1> QED BY <1>1, <1>3, <1>5, <1>6, <1>7, <1>8, <1>9, StoreStep

LEMMA ForgetStep == ASSUME IInv, NEW r \in Reqs, Forget(r) PROVE IInv'
<1> DEFINE i == req[r].id
           q == Moved(req[r], "ok")
<1>1. /\ r \in InFlight /\ req[r] \in Req /\ req[r].pc = "forget" /\ Good(req[r]) /\ Tables
      /\ clone' = [clone EXCEPT ![i] = None] /\ Goto(r, "ok")
      /\ UNCHANGED <<workspaces, rows, sessionWs, stale>>
  BY InFlightIs DEF IInv, Forget, At
<1>2. "ok" \in Phases /\ "ok" \in Done
  BY DEF Phases, Done
<1>3. q \in Req /\ q.pc \in Done /\ req' = [req EXCEPT ![r] = q]
  BY <1>1, <1>2, MovedFacts DEF Goto, Tables
<1>4. i \in Ids
  BY <1>1 DEF Good, Shape, Resolved, Req, Maybe
<1>5. /\ clone' \in [Ids -> Maybe(Remotes)]
      /\ clone'[i] = None
      /\ \A j \in Ids \ {i} : clone'[j] = clone[j]
  BY <1>1, <1>4 DEF Tables, Maybe
<1>6. NamesApart' /\ NothingOrphaned' /\ SessionsFollow'
  BY <1>1 DEF IInv, NamesApart, NothingOrphaned, SessionsFollow, Named, Existing
<1>7. CloneIsOfRemote'
  <2>1. \A o \in InFlight \ {r} : o \in InFlight' /\ req'[o] = req[o]
    BY <1>1, <1>3, StepOf DEF InFlight
  <2> HIDE DEF q
  <2> QED BY <1>1, <1>4, <1>5, <2>1 DEF IInv, CloneIsOfRemote
<1> HIDE DEF i, q
<1>8. ASSUME NEW o \in InFlight \ {r}, NEW p \in Req, p = req[o]
      PROVE  Fresh(p)' /\ Moving(p)'
  <2>1. Fresh(p) /\ Moving(p) /\ Shape(p)
    BY <1>8 DEF IInv, Good
  <2>2. Moving(p)'
    BY <1>1, <2>1 DEF Moving, Named, Existing
  <2>3. p.pc \in Resolved => p.id \in Ids
    BY <2>1 DEF Shape, Req, Maybe
  <2>4. Fresh(p)'
    BY <1>1, <1>4, <1>5, <2>1, <2>3 DEF Fresh, Resolved
  <2> QED BY <2>2, <2>4
<1>9. /\ workspaces' \in [Ids -> Maybe(Workspace)] /\ sessionWs' \in [Sids -> Names] /\ stale' \subseteq Ids \cup Names
  BY <1>1 DEF Tables
<1> QED BY <1>1, <1>3, <1>5, <1>6, <1>7, <1>8, <1>9, StoreStep

\* The git operation that follows a change of remote.
LEMMA SyncedIs ==
    ASSUME NEW n \in Names, NEW r
    PROVE  /\ Synced(r, n) \in Req /\ Shape(Synced(r, n))
           /\ Synced(r, n).pc = "resolve" /\ Synced(r, n).moveTo = None
<1>1. None \notin Names /\ \A X : None \in Maybe(X) /\ \A x \in X : x \in Maybe(X)
  BY LibraryAssumption DEF Maybe
<1> QED BY <1>1 DEF Synced, Blank, Req, Ops, Phases, Shape, Resolved, RowOps, Saves

LEMMA AfterUpdateStep == ASSUME IInv, NEW r \in Reqs, AfterUpdate(r) PROVE IInv'
<1> DEFINE i == req[r].id
           n == req[r].to
           m == req[r].ws.remote
<1>1. /\ r \in InFlight /\ req[r] \in Req /\ req[r].pc = "after" /\ Good(req[r]) /\ Tables
      /\ UNCHANGED <<workspaces, rows, sessionWs, stale>>
  BY InFlightIs DEF IInv, AfterUpdate, At
<1>2. /\ i \in Ids /\ n \in Names
      /\ \/ i \in stale
         \/ workspaces[i] # None /\ workspaces[i].name = n /\ clone[i] \in {None, m, workspaces[i].remote}
  BY <1>1 DEF Good, Shape, Fresh, Resolved, Req, Maybe
<1>3. PICK q \in Req, c \in Maybe(Remotes) :
         /\ req' = [req EXCEPT ![r] = q]
         /\ clone' = [clone EXCEPT ![i] = c]
         /\ c \in {None, clone[i]}
         /\ q.pc \in Done \/ q = Synced(r, n)
         /\ i \in stale \/ c = None \/ workspaces[i].remote = c
  <2>1. Moved(req[r], "ok") \in Req /\ Moved(req[r], "ok").pc \in Done
        /\ Moved(req[r], "failed") \in Req /\ Moved(req[r], "failed").pc \in Done
    BY <1>1, MovedFacts DEF Phases, Done
  <2>2. req \in [Reqs -> Maybe(Req)] /\ clone \in [Ids -> Maybe(Remotes)]
    BY <1>1 DEF Tables
  <2>3. CASE Named(n) = {}
    <3>1. i \in stale
      BY <1>2, <2>3 DEF Named, Existing
    <3>2. clone' = clone /\ Goto(r, "failed")
      BY <2>3 DEF AfterUpdate
    <3>3. clone' = [clone EXCEPT ![i] = clone[i]]
      BY <1>2, <2>2, <3>2
    <3>4. req' = [req EXCEPT ![r] = Moved(req[r], "failed")]
      BY <2>2, <3>2 DEF Goto
    <3> QED BY <1>2, <2>1, <2>2, <3>1, <3>3, <3>4
  <2>4. CASE Named(n) # {}
    <3>1. PICK j \in Named(n) :
             /\ clone' = [clone EXCEPT ![i] = IF Forgets(req[r].ws, workspaces[j]) THEN None ELSE @]
             /\ Comes(r, Synced(r, n)) \/ Goto(r, "ok")
      BY <2>4 DEF AfterUpdate
    <3> DEFINE c == IF Forgets(req[r].ws, workspaces[j]) THEN None ELSE clone[i]
    <3>2. clone' = [clone EXCEPT ![i] = c] /\ c \in Maybe(Remotes) /\ c \in {None, clone[i]}
      BY <1>2, <2>2, <3>1 DEF Maybe
    <3>3. i \notin stale => j = i
      BY <1>2, <3>1 DEF IInv, NamesApart, Named, Existing
    <3>4. i \in stale \/ c = None \/ workspaces[i].remote = c
      BY <1>2, <3>3 DEF Forgets
    <3> HIDE DEF c
    <3>5. PICK q \in Req : req' = [req EXCEPT ![r] = q] /\ (q.pc \in Done \/ q = Synced(r, n))
      <4>1. CASE Comes(r, Synced(r, n))
        BY <1>2, <4>1, SyncedIs DEF Comes
      <4>2. CASE Goto(r, "ok")
        <5>1. req' = [req EXCEPT ![r] = Moved(req[r], "ok")]
          BY <2>2, <4>2 DEF Goto
        <5> QED BY <2>1, <5>1
      <4> QED BY <3>1, <4>1, <4>2
    <3> QED BY <3>2, <3>4, <3>5
  <2> QED BY <2>3, <2>4
<1> HIDE DEF i, n, m
<1>4. /\ clone' \in [Ids -> Maybe(Remotes)]
      /\ clone'[i] = c
      /\ \A j \in Ids \ {i} : clone'[j] = clone[j]
  BY <1>1, <1>2, <1>3 DEF Tables
<1>5. NamesApart' /\ NothingOrphaned' /\ SessionsFollow'
  BY <1>1 DEF IInv, NamesApart, NothingOrphaned, SessionsFollow, Named, Existing
<1>6. CloneIsOfRemote'
  <2>1. \A o \in InFlight \ {r} : o \in InFlight' /\ req'[o] = req[o]
    BY <1>1, <1>3, StepOf DEF InFlight
  <2>2. ASSUME NEW j \in Ids, clone'[j] # None, j # i
        PROVE  \/ j \in stale'
               \/ \E o \in InFlight' : req'[o].id = j /\ req'[o].pc \in {"after", "forget"}
               \/ workspaces'[j] # None /\ workspaces'[j].remote = clone'[j]
    BY <1>1, <1>4, <2>1, <2>2 DEF IInv, CloneIsOfRemote, i
  <2>3. clone'[i] # None => \/ i \in stale'
                            \/ workspaces'[i] # None /\ workspaces'[i].remote = clone'[i]
    BY <1>1, <1>2, <1>3, <1>4
  <2> QED BY <2>2, <2>3 DEF CloneIsOfRemote
<1>7. ASSUME NEW o \in InFlight \ {r}, NEW p \in Req, p = req[o]
      PROVE  Fresh(p)' /\ Moving(p)'
  <2>1. Fresh(p) /\ Moving(p) /\ Shape(p)
    BY <1>7 DEF IInv, Good
  <2>2. Moving(p)'
    BY <1>1, <2>1 DEF Moving, Named, Existing
  <2>3. p.pc \in Resolved => p.id \in Ids
    BY <2>1 DEF Shape, Req, Maybe
  <2>4. Fresh(p)'
    BY <1>1, <1>3, <1>4, <2>1, <2>3 DEF Fresh, Resolved
  <2> QED BY <2>2, <2>4
<1>8. ASSUME q.pc \notin Done
      PROVE  Good(q)'
  <2>1. q.pc = "resolve" /\ Shape(q) /\ q.moveTo = None
    BY <1>2, <1>3, <1>8, SyncedIs
  <2>2. Good(q)' <=> Shape(q) /\ Fresh(q)' /\ Moving(q)' /\ Found(q)'
    BY DEF Good, Shape
  <2> QED BY <2>1, <2>2 DEF Fresh, Moving, Found, Resolved
<1>9. /\ workspaces' \in [Ids -> Maybe(Workspace)] /\ sessionWs' \in [Sids -> Names] /\ stale' \subseteq Ids \cup Names
  BY <1>1 DEF Tables
<1> QED BY <1>1, <1>3, <1>4, <1>5, <1>6, <1>7, <1>8, <1>9, StoreStep

LEMMA CreateWorkspaceStep == ASSUME IInv, NEW r \in Reqs, CreateWorkspace(r) PROVE IInv'
<1> DEFINE n == req[r].name
           m == req[r].remote
           i == NextId(Existing)
           w == [name |-> n, remote |-> m, autosave |-> req[r].autosave]
<1>1. /\ r \in InFlight /\ req[r] \in Req /\ req[r].pc = "create" /\ Good(req[r]) /\ Tables
      /\ UNCHANGED <<rows, sessionWs, clone, stale>>
  BY InFlightIs DEF IInv, CreateWorkspace, At
<1>2. CASE Goto(r, "failed") /\ UNCHANGED workspaces
  <2>1. "failed" \in Phases /\ "failed" \in Done /\ UNCHANGED <<store, stale>>
    BY <1>1, <1>2 DEF Phases, Done, store
  <2> QED BY <1>1, <1>2, <2>1, GotoStep
<1>3. ASSUME Named(n) = {}, i \in Ids, workspaces' = [workspaces EXCEPT ![i] = w],
             Goto(r, "ok") \/ Comes(r, Synced(r, n))
      PROVE  IInv'
  <2>1. n \in Names /\ w \in Workspace
    BY <1>1 DEF Good, Shape, Req, Maybe, Workspace
  <2>2. w # None /\ w.name = n
    BY <2>1, NoneAssumption
  <2>3. workspaces[i] = None
    <3>1. Existing \in SUBSET (1..MaxWorkspaces) /\ MaxWorkspaces \in Nat
      BY LibraryAssumption DEF Existing, Ids
    <3>2. i \notin Existing
      BY <3>1, NextIdIsFree
    <3> QED BY <1>3, <3>2 DEF Existing
  <2>4. PICK q \in Req : req' = [req EXCEPT ![r] = q] /\ (q.pc \in Done \/ q = Synced(r, n))
    <3>1. CASE Comes(r, Synced(r, n))
      BY <2>1, <3>1, SyncedIs DEF Comes
    <3>2. CASE Goto(r, "ok")
      <4>1. Moved(req[r], "ok") \in Req /\ Moved(req[r], "ok").pc \in Done
        BY <1>1, MovedFacts DEF Phases, Done
      <4>2. req' = [req EXCEPT ![r] = Moved(req[r], "ok")]
        BY <1>1, <3>2 DEF Goto, Tables
      <4> QED BY <4>1, <4>2
    <3> QED BY <1>3, <3>1, <3>2
  <2> HIDE DEF i, w, n
  <2>5. /\ workspaces' \in [Ids -> Maybe(Workspace)]
        /\ workspaces'[i] = w
        /\ \A j \in Ids \ {i} : workspaces'[j] = workspaces[j]
    BY <1>1, <1>3, <2>1 DEF Tables, Maybe
  <2>6. Existing' = Existing \cup {i} /\ i \notin Existing
    BY <1>3, <2>2, <2>3, <2>5 DEF Existing
  <2>7. \A a \in Names : Named(a) \subseteq Named(a)'
    BY <2>5, <2>6 DEF Named, Existing
  <2>8. NamesApart'
    BY <1>3, <2>2, <2>5, <2>6 DEF IInv, NamesApart, Named, Existing
  <2>9. NothingOrphaned' /\ SessionsFollow'
    BY <1>1, <2>6, <2>7 DEF IInv, NothingOrphaned, SessionsFollow, Tables
  <2>10. CloneIsOfRemote'
    <3>1. \A o \in InFlight \ {r} : o \in InFlight' /\ req'[o] = req[o]
      BY <1>1, <2>4, StepOf DEF InFlight
    <3> QED BY <1>1, <2>3, <2>5, <3>1 DEF IInv, CloneIsOfRemote
  <2>11. ASSUME NEW o \in InFlight \ {r}, NEW p \in Req, p = req[o]
         PROVE  Fresh(p)' /\ Moving(p)'
    <3>1. Fresh(p) /\ Moving(p) /\ Shape(p)
      BY <2>11 DEF IInv, Good
    <3>2. /\ p.pc \in Resolved => p.id \in Ids /\ p.ws # None
          /\ p.moveTo # None => p.moveTo \in Names
          /\ p.pc = "dropWrite" => p.row \in Ids
      BY <3>1 DEF Shape, Req, Maybe
    <3>3. Moving(p)'
      <4>1. p.moveTo # None => p.moveTo \in stale' \/ \E k \in Named(p.moveTo)' : k # p.row
        BY <1>1, <2>7, <3>1, <3>2 DEF Moving
      <4>2. p.pc = "dropWrite" => \/ p.row \in stale'
                                  \/ workspaces'[p.row] # None /\ workspaces'[p.row].name = p.name
        BY <1>1, <2>3, <2>5, <3>1, <3>2 DEF Moving
      <4> QED BY <4>1, <4>2 DEF Moving
    <3>4. Fresh(p)'
      BY <1>1, <2>3, <2>5, <3>1, <3>2 DEF Fresh, Resolved
    <3> QED BY <3>3, <3>4
  <2>12. ASSUME q.pc \notin Done
         PROVE  Good(q)'
    <3>1. q.pc = "resolve" /\ Shape(q) /\ q.moveTo = None
      BY <2>1, <2>4, <2>12, SyncedIs
    <3>2. Good(q)' <=> Shape(q) /\ Fresh(q)' /\ Moving(q)' /\ Found(q)'
      BY DEF Good, Shape
    <3> QED BY <3>1, <3>2 DEF Fresh, Moving, Found, Resolved
  <2>13. /\ clone' \in [Ids -> Maybe(Remotes)] /\ sessionWs' \in [Sids -> Names] /\ stale' \subseteq Ids \cup Names
    BY <1>1 DEF Tables
  <2> QED BY <1>1, <2>4, <2>5, <2>8, <2>9, <2>10, <2>11, <2>12, <2>13, StoreStep
<1>4. \/ Goto(r, "failed") /\ UNCHANGED workspaces
      \/ /\ Named(n) = {} /\ i \in Ids /\ workspaces' = [workspaces EXCEPT ![i] = w]
         /\ Goto(r, "ok") \/ Comes(r, Synced(r, n))
  BY DEF CreateWorkspace
<1> QED BY <1>2, <1>3, <1>4

\* What a change of a workspace leaves true of those in flight beside r.
LEMMA ChangeOthers ==
    ASSUME IInv, NEW r \in InFlight, NEW i \in Existing, NEW ws \in Maybe(Workspace), NEW n, NEW m, Change(r, i, ws, n, m),
           UNCHANGED clone,
           NEW o \in InFlight \ {r}, NEW p \in Req, NEW t \in BOOLEAN, p = req[o] \/ p = [req[o] EXCEPT !.touched = t]
    PROVE  Fresh(p)' /\ Moving(p)'
<1> DEFINE old == workspaces[i].name
           changed == {i} \cup (IF ws # None /\ ws.name = old THEN {} ELSE {old})
<1>1. /\ Tables /\ req[o] \in Req /\ Fresh(req[o]) /\ Moving(req[o]) /\ Shape(req[o]) /\ i \in Ids
      /\ workspaces[i] # None
  BY InFlightIs DEF IInv, Good, Existing
<1>2. /\ p.pc = req[o].pc /\ p.id = req[o].id /\ p.ws = req[o].ws /\ p.moveTo = req[o].moveTo /\ p.row = req[o].row
      /\ p.name = req[o].name /\ p.to = req[o].to
  BY <1>1 DEF Req
<1>3. Fresh(p) /\ Moving(p)
  BY <1>1, <1>2 DEF Fresh, Moving
<1>4. /\ p.pc \in Resolved => p.id \in Ids
      /\ p.moveTo # None => p.moveTo \in Names
      /\ p.pc = "dropWrite" => p.row \in Ids
  BY <1>1, <1>2 DEF Shape, Req, Maybe
<1>5. /\ workspaces' = [workspaces EXCEPT ![i] = ws]
      /\ stale' = stale \cup (changed \cap UNION {Held(x) : x \in InFlight \ {r}})
                        \cup (IF i \in stale \/ i # req[r].id THEN changed ELSE {})
  BY DEF Change
<1>6. /\ stale \subseteq stale'
      /\ \A x \in Held(o) : x \in changed => x \in stale'
  BY <1>5
<1>7. p.id \in Held(o) /\ p.moveTo \in Held(o) /\ (p.pc = "dropWrite" => p.row \in Held(o))
  BY <1>2 DEF Held
<1>8. /\ workspaces'[i] = ws
      /\ \A j \in Ids \ {i} : workspaces'[j] = workspaces[j]
  BY <1>1, <1>5 DEF Tables
<1>9. i \in changed /\ (old \in changed \/ (ws # None /\ ws.name = old))
  OBVIOUS
<1> HIDE DEF old, changed
<1>10. Fresh(p)'
  BY <1>3, <1>4, <1>6, <1>7, <1>8, <1>9 DEF Fresh, Resolved
<1>11. ASSUME p.moveTo # None
       PROVE  p.moveTo \in stale' \/ \E k \in Named(p.moveTo)' : k # p.row
  <2>1. CASE p.moveTo \in stale
    BY <1>6, <2>1
  <2>2. ASSUME NEW k \in Named(p.moveTo), k # p.row
        PROVE  p.moveTo \in stale' \/ k \in Named(p.moveTo)'
    <3>1. k \in Ids /\ workspaces[k] # None /\ workspaces[k].name = p.moveTo
      BY DEF Named, Existing
    <3>2. CASE k # i
      BY <1>8, <3>1, <3>2 DEF Named, Existing
    <3>3. CASE k = i
      <4>1. p.moveTo = old
        BY <3>1, <3>3 DEF old
      <4> QED BY <1>6, <1>7, <1>8, <1>9, <3>1, <3>3, <4>1 DEF Named, Existing
    <3> QED BY <3>2, <3>3
  <2> QED BY <1>3, <1>11, <2>1, <2>2 DEF Moving
<1>12. p.pc = "dropWrite" => \/ p.row \in stale'
                             \/ workspaces'[p.row] # None /\ workspaces'[p.row].name = p.name
  BY <1>3, <1>4, <1>6, <1>7, <1>8, <1>9 DEF Moving
<1>13. Moving(p)'
  BY <1>11, <1>12 DEF Moving
<1> QED BY <1>10, <1>13

LEMMA UpdateWorkspaceStep == ASSUME IInv, NEW r \in Reqs, UpdateWorkspace(r) PROVE IInv'
<1> DEFINE n == req[r].name
           t == req[r].to
           Remote(i) == IF req[r].remote = Absent THEN workspaces[i].remote ELSE req[r].remote
           W(i) == [name |-> t, remote |-> Remote(i), autosave |-> workspaces[i].autosave \/ req[r].autosave]
<1>1. /\ r \in InFlight /\ req[r] \in Req /\ req[r].pc = "update" /\ Good(req[r]) /\ Tables
      /\ UNCHANGED <<rows, clone>>
  BY InFlightIs DEF IInv, UpdateWorkspace, At
<1>2. CASE Goto(r, "failed") /\ UNCHANGED <<workspaces, sessionWs, stale>>
  <2>1. "failed" \in Phases /\ "failed" \in Done /\ UNCHANGED <<store, stale>>
    BY <1>1, <1>2 DEF Phases, Done, store
  <2> QED BY <1>1, <1>2, <2>1, GotoStep
<1>3. ASSUME NEW i \in Named(n), t = n \/ Named(t) = {}, Change(r, i, W(i), n, t), Goto(r, "after")
      PROVE  IInv'
  <2> DEFINE w == W(i)
  <2>1. i \in Ids /\ i \in Existing /\ workspaces[i] # None /\ workspaces[i].name = n /\ workspaces[i] \in Workspace
    BY <1>1 DEF Named, Existing, Tables, Maybe
  <2>2. n \in Names /\ t \in Names /\ w \in Workspace
    <3>1. n \in Names /\ t \in Names
      BY <1>1, <2>1 DEF Good, Shape, Workspace
    <3>2. Remote(i) \in Maybe(Remotes)
      BY <1>1, <2>1 DEF Req, Workspace, Maybe
    <3>3. (workspaces[i].autosave \/ req[r].autosave) \in BOOLEAN
      OBVIOUS
    <3> HIDE DEF Remote
    <3> QED BY <3>1, <3>2, <3>3 DEF Workspace
  <2>3. w # None /\ w \in Maybe(Workspace) /\ w.name = t
    BY <2>2, NoneAssumption DEF Maybe
  <2> HIDE DEF w, W, Remote
  <2>4. /\ workspaces' = [workspaces EXCEPT ![i] = w]
        /\ sessionWs' = [s \in Sids |-> IF sessionWs[s] = n THEN t ELSE sessionWs[s]]
        /\ stale \subseteq stale'
        /\ i # req[r].id => i \in stale'
        /\ \A o \in InFlight \ {r} : i \in Held(o) => i \in stale'
        /\ stale' \subseteq Ids \cup Names
    BY <1>1, <1>3, <2>1 DEF Change, w, Tables, Workspace
  <2>5. /\ workspaces' \in [Ids -> Maybe(Workspace)]
        /\ workspaces'[i] = w
        /\ \A j \in Ids \ {i} : workspaces'[j] = workspaces[j]
        /\ sessionWs' \in [Sids -> Names]
    BY <1>1, <2>1, <2>2, <2>3, <2>4 DEF Tables
  <2>6. PICK q \in Req : q = [req[r] EXCEPT !.pc = "after"] /\ q.pc = "after" /\ req' = [req EXCEPT ![r] = q]
    <3>1. "after" \in Phases /\ "after" \notin Done
      BY DEF Phases, Done
    <3>2. Moved(req[r], "after") \in Req /\ Moved(req[r], "after").pc = "after"
          /\ Moved(req[r], "after") = [req[r] EXCEPT !.pc = "after"]
      BY <1>1, <3>1, MovedFacts
    <3>3. req' = [req EXCEPT ![r] = Moved(req[r], "after")]
      BY <1>1, <1>3 DEF Goto, Tables
    <3> QED BY <3>2, <3>3
  <2>7. Existing' = Existing
    BY <2>1, <2>3, <2>5 DEF Existing
  <2>8. NamesApart'
    BY <1>3, <2>1, <2>3, <2>5, <2>7 DEF IInv, NamesApart, Named, Existing
  <2>9. NothingOrphaned'
    BY <1>1, <2>4, <2>7 DEF IInv, NothingOrphaned
  <2>10. SessionsFollow'
    <3>1. ASSUME NEW s \in Sids
          PROVE  Named(sessionWs[s])' # {} \/ sessionWs'[s] \in stale'
      <4>1. CASE sessionWs[s] = n
        <5>1. sessionWs'[s] = t /\ i \in Existing' /\ workspaces'[i].name = t
          BY <2>1, <2>3, <2>4, <2>5, <2>7, <4>1
        <5> QED BY <5>1 DEF Named
      <4>2. CASE sessionWs[s] # n /\ sessionWs[s] \in stale
        BY <2>4, <4>2
      <4>3. CASE sessionWs[s] # n /\ sessionWs[s] \notin stale
        <5>1. PICK k \in Existing : workspaces[k].name = sessionWs[s]
          BY <4>3 DEF IInv, SessionsFollow, Named
        <5>2. k # i /\ k \in Ids
          BY <2>1, <4>3, <5>1 DEF Existing
        <5>3. sessionWs'[s] = sessionWs[s] /\ k \in Existing' /\ workspaces'[k].name = sessionWs[s]
          BY <2>4, <2>5, <2>7, <4>3, <5>1, <5>2
        <5> QED BY <5>3 DEF Named
      <4> QED BY <4>1, <4>2, <4>3
    <3> QED BY <3>1 DEF SessionsFollow
  <2>11. q.id = req[r].id /\ q.ws = req[r].ws /\ q.to = t /\ q.name = n /\ q.op = req[r].op /\ q.key = req[r].key
         /\ q.remote = req[r].remote /\ q.sid = req[r].sid /\ q.row = req[r].row /\ q.moveTo = req[r].moveTo
    BY <1>1, <2>6 DEF Req
  <2>12. req[r].id \in Ids /\ req[r].ws # None /\ req[r].ws.name = n
         /\ (req[r].id \in stale \/ workspaces[req[r].id] = req[r].ws)
    <3>1. req[r].id # None /\ req[r].ws # None /\ n # None /\ req[r].ws.name = n
      BY <1>1 DEF Good, Shape, Resolved
    <3> QED BY <1>1, <3>1 DEF Good, Fresh, Resolved, Req, Maybe
  <2>13. /\ r \in InFlight' /\ req'[r] = q
         /\ \A o \in InFlight \ {r} : o \in InFlight' /\ req'[o] = req[o]
    <3>1. req' = [req EXCEPT ![r] = q] /\ q.pc \notin Done
      BY <2>6 DEF Done
    <3>2. /\ req'[r] = q /\ r \in InFlight'
          /\ \A o \in Reqs \ {r} : req'[o] = req[o] /\ (o \in InFlight' <=> o \in InFlight)
      BY <1>1, <3>1, StepOf
    <3> QED BY <3>2 DEF InFlight
  <2>14. CloneIsOfRemote'
    <3>1. ASSUME NEW j \in Ids, clone[j] # None
          PROVE  \/ j \in stale'
                 \/ \E o \in InFlight' : req'[o].id = j /\ req'[o].pc \in {"after", "forget"}
                 \/ workspaces'[j] # None /\ workspaces'[j].remote = clone'[j]
      <4>1. CASE j = i
        <5>1. i \in stale' \/ (req'[r].id = i /\ req'[r].pc = "after")
          BY <2>4, <2>6, <2>11, <2>13
        <5> QED BY <2>13, <4>1, <5>1
      <4>2. CASE j # i
        BY <1>1, <2>4, <2>5, <2>13, <3>1, <4>2 DEF IInv, CloneIsOfRemote
      <4> QED BY <4>1, <4>2
    <3> QED BY <1>1, <3>1 DEF CloneIsOfRemote
  <2>15. ASSUME NEW o \in InFlight \ {r}, NEW p \in Req, p = req[o]
         PROVE  Fresh(p)' /\ Moving(p)'
    <3>1. Change(r, i, w, n, t)
      BY <1>3 DEF w
    <3>2. TRUE \in BOOLEAN /\ UNCHANGED clone
      BY <1>1
    <3> HIDE DEF n, t
    <3> QED BY <1>1, <2>1, <2>3, <2>15, <3>1, <3>2, ChangeOthers
  <2>16. Good(q)'
    <3>1. Good(q)' <=> Shape(q) /\ Fresh(q)' /\ Moving(q)' /\ Found(q)'
      BY DEF Good, Shape
    <3>2. Shape(q)
      BY <1>1, <2>6, <2>11 DEF Good, Shape, RowOps, Saves, Resolved
    <3>3. Found(q)'
      BY <2>6 DEF Found
    <3>4. Moving(q)'
      BY <1>1, <2>6, <2>11 DEF Good, Shape, Moving
    <3>5. q.id \in stale' \/ /\ workspaces'[q.id] # None /\ workspaces'[q.id].name = q.to
                             /\ clone'[q.id] \in {None, q.ws.remote, workspaces'[q.id].remote}
      <4>1. CASE i # req[r].id \/ req[r].id \in stale
        <5>1. i # req[r].id /\ req[r].id \notin stale => req[r].id \in Existing /\ workspaces[req[r].id].name = workspaces[i].name
          BY <2>1, <2>12 DEF Existing
        <5>2. req[r].id \in stale
          BY <2>1, <4>1, <5>1 DEF IInv, NamesApart
        <5> QED BY <2>4, <2>11, <5>2
      <4>2. CASE i = req[r].id /\ req[r].id \notin stale
        <5>1. clone[i] = None \/ i \in stale' \/ clone[i] = workspaces[i].remote
          <6>1. ASSUME NEW o \in InFlight, req[o].id = i, req[o].pc \in {"after", "forget"}
                PROVE  i \in stale'
            <7>1. o # r /\ i \in Held(o)
              BY <1>1, <6>1 DEF Held
            <7> QED BY <2>4, <7>1
          <6> QED BY <2>1, <4>2, <6>1 DEF IInv, CloneIsOfRemote
        <5>2. workspaces[i] = req[r].ws
          BY <2>12, <4>2
        <5> QED BY <1>1, <2>3, <2>5, <2>11, <4>2, <5>1, <5>2
      <4> QED BY <4>1, <4>2
    <3>6. Fresh(q)'
      BY <2>6, <3>5 DEF Fresh, Resolved
    <3> QED BY <3>1, <3>2, <3>3, <3>4, <3>6
  <2>17. clone' \in [Ids -> Maybe(Remotes)] /\ stale' \subseteq Ids \cup Names
    BY <1>1, <2>4 DEF Tables
  <2> QED BY <1>1, <2>5, <2>6, <2>8, <2>9, <2>10, <2>14, <2>15, <2>16, <2>17, StoreStep
<1>4. \/ Goto(r, "failed") /\ UNCHANGED <<workspaces, sessionWs, stale>>
      \/ /\ t = n \/ Named(t) = {}
         /\ Goto(r, "after")
         /\ \E i \in Named(n) : Change(r, i, W(i), n, t)
  <2> HIDE DEF n, t
  <2> QED BY Zenon DEF UpdateWorkspace, n, t
<1> HIDE DEF n, t, W
<1> QED BY <1>2, <1>3, <1>4

-----------------------------------------------------------------------------
(* Steps that change rows of entities.                                      *)

\* The request p as it was, or told that the row that it found was changed.
Touched(p, old) == p = old \/ (old.pc = "write" /\ p = [old EXCEPT !.touched = TRUE])

LEMMA TouchedIs ==
    ASSUME NEW old \in Req, NEW p, Touched(p, old)
    PROVE  /\ p \in Req
           /\ p.op = old.op /\ p.name = old.name /\ p.key = old.key /\ p.to = old.to /\ p.remote = old.remote /\ p.sid = old.sid
           /\ p.pc = old.pc /\ p.id = old.id /\ p.ws = old.ws /\ p.row = old.row /\ p.live = old.live /\ p.moveTo = old.moveTo
           /\ old.pc \in {"after", "forget"} => p = old
<1>1. CASE p = old
  BY <1>1
<1>2. CASE old.pc = "write" /\ p = [old EXCEPT !.touched = TRUE]
  <2>1. p \in Req
    BY <1>2 DEF Req
  <2>2. old.pc \notin {"after", "forget"}
    BY <1>2
  <2> QED BY <1>2, <2>1, <2>2 DEF Req
<1> QED BY <1>1, <1>2 DEF Touched

\* What is left to show of a step of r that tells those who had found a row that it changes.
LEMMA RowsStep ==
    ASSUME IInv, NEW r \in InFlight, NEW q \in Req,
           req' \in [Reqs -> Maybe(Req)], req'[r] = q,
           \A o \in Reqs \ {r} : req'[o] = req[o] \/ (o \in InFlight /\ Touched(req'[o], req[o])),
           \A o \in InFlight \ {r} : /\ req[o].pc = "write" /\ req[o].row # None /\ ~req'[o].touched
                                     => rows'[req[o].row] = rows[req[o].row],
           workspaces' \in [Ids -> Maybe(Workspace)], rows' \in [Rows -> Maybe(Entity)], sessionWs' \in [Sids -> Names],
           clone' \in [Ids -> Maybe(Remotes)], stale' \subseteq Ids \cup Names,
           NamesApart', KeysApart', NothingOrphaned', SessionsFollow', CloneIsOfRemote',
           \A p \in Req : q.pc \notin Done /\ p = q => Good(p)',
           \A o \in InFlight \ {r} : \A p \in Req : p = req'[o] => Fresh(p)' /\ Moving(p)'
    PROVE  IInv'
<1>1. Tables'
  BY DEF Tables
<1>2. ASSUME NEW o \in InFlight', NEW p \in Req, p = req'[o], p.pc \notin Done
      PROVE  Good(p)'
  <2>1. o \in Reqs
    BY DEF InFlight
  <2>2. CASE o = r
    BY <1>2, <2>2
  <2>3. CASE o # r
    <3>1. o \in InFlight
      BY <1>2, <2>1, <2>3 DEF InFlight
    <3>2. req[o] \in Req /\ Shape(req[o]) /\ Found(req[o])
      BY <3>1, InFlightIs DEF IInv, Good
    <3>3. Touched(p, req[o])
      BY <1>2, <2>1, <2>3 DEF Touched
    <3>4. Shape(p)'
      <4>1. Shape(p)
        BY <3>2, <3>3, TouchedIs DEF Shape
      <4> QED BY <4>1 DEF Shape
    <3>5. Found(p)'
      <4> SUFFICES ASSUME p.pc = "write", p.row # None
                   PROVE  Found(p)'
        BY DEF Found
      <4>1. /\ req[o].pc = "write" /\ p.op = req[o].op /\ p.row = req[o].row /\ p.id = req[o].id /\ p.key = req[o].key
            /\ p.live = req[o].live
        BY <3>2, <3>3, TouchedIs
      <4>2. p.op = "purge" => ~p.live
        BY <3>2, <4>1 DEF Found
      <4>3. ~p.touched => rows'[p.row] = rows[p.row] /\ ~req[o].touched
        <5>1. ~p.touched => p = req[o]
          BY <3>2, <3>3 DEF Touched, Req
        <5> QED BY <1>2, <2>3, <3>1, <4>1, <5>1
      <4> QED BY <3>2, <4>1, <4>2, <4>3 DEF Found
    <3> QED BY <1>2, <2>3, <3>1, <3>4, <3>5 DEF Good
  <2> QED BY <2>2, <2>3
<1>3. ASSUME NEW o \in InFlight'
      PROVE  Good(req[o])'
  <2>1. o \in Reqs /\ req'[o] # None /\ req'[o].pc \notin Done
    BY DEF InFlight, Done
  <2>2. req'[o] \in Req
    BY <2>1 DEF Maybe
  <2> QED BY <1>2, <2>1, <2>2
<1> QED BY <1>1, <1>3 DEF IInv

\* Where a request goes when it has written.
LEMMA AfterIs ==
    ASSUME IInv, NEW r \in InFlight, req[r].pc = "write"
    PROVE  /\ After(r) \in Req
           /\ After(r).pc \in {"ok", "find"}
           /\ After(r).pc = "find" =>
                 /\ Shape(After(r)) /\ After(r).moveTo = None
                 /\ After(r).id = req[r].id /\ After(r).ws = req[r].ws
<1>1. req[r] \in Req /\ Shape(req[r])
  BY InFlightIs DEF IInv, Good
<1>2. CASE req[r].op # "import"
  <2>1. After(r) = Moved(req[r], "ok") /\ "ok" \in Phases
    BY <1>2 DEF After, Phases
  <2> QED BY <1>1, <2>1, MovedFacts
<1>3. CASE req[r].op = "import"
  <2> DEFINE p == req[r]
             q == [p EXCEPT !.op = "save", !.key = p.to, !.to = None, !.pc = "find", !.row = None,
                            !.live = FALSE, !.touched = FALSE]
  <2>1. After(r) = q
    BY <1>3 DEF After
  <2>2. p \in Req /\ Shape(p) /\ p.pc = "write" /\ p.op = "import" /\ p.to \in Dashboards
    BY <1>1, <1>3 DEF Shape
  <2>3. /\ "save" \in Ops /\ "find" \in Phases /\ p.to \in Maybe(Queries \cup Dashboards)
        /\ \A X : None \in Maybe(X)
    BY <2>2 DEF Ops, Phases, Maybe
  <2> HIDE DEF p
  <2>4. q \in Req
    BY <2>2, <2>3 DEF Req
  <2>5. /\ q.op = "save" /\ q.key = p.to /\ q.to = None /\ q.pc = "find" /\ q.row = None /\ q.moveTo = p.moveTo
        /\ q.id = p.id /\ q.ws = p.ws /\ q.name = p.name /\ q.sid = p.sid
    BY <2>2 DEF Req
  <2> HIDE DEF q
  <2>6. None \notin Dashboards
    BY LibraryAssumption
  <2>7. Shape(q) /\ q.moveTo = None
    BY <2>2, <2>5, <2>6 DEF Shape, RowOps, Saves, Resolved
  <2> QED BY <2>1, <2>4, <2>5, <2>7 DEF p
<1> QED BY <1>2, <1>3

\* A step of r that makes row x the entity e, or removes it.
LEMMA WroteStep ==
    ASSUME IInv, NEW r \in InFlight, req[r].pc = "write", NEW x \in Rows, NEW e \in Maybe(Entity),
           rows' = [rows EXCEPT ![x] = e], Wrote(r, x, After(r)), UNCHANGED <<workspaces, sessionWs, clone, stale>>,
           e # None => e.ws \in Existing \cup stale,
           e # None => \A y \in Rows \ {x} : ~(rows[y] # None /\ rows[y].ws = e.ws /\ rows[y].key = e.key)
    PROVE  IInv'
<1>1. Tables /\ r \in Reqs /\ x # None
  BY InFlightIs, NoneAssumption DEF IInv
<1>2. PICK q \in Req : q = After(r)
  BY AfterIs
<1>3. \A o \in Reqs : req'[o] = CASE o = r -> q
                                  [] At(o, "write") /\ o # r /\ req[o].row = x -> [req[o] EXCEPT !.touched = TRUE]
                                  [] OTHER -> req[o]
  BY <1>2 DEF Wrote
<1>4. /\ req'[r] = q
      /\ \A o \in Reqs \ {r} : IF At(o, "write") /\ req[o].row = x THEN req'[o] = [req[o] EXCEPT !.touched = TRUE]
                                                                   ELSE req'[o] = req[o]
  BY <1>1, <1>3
<1>5. \A o \in Reqs \ {r} : req'[o] = req[o] \/ (o \in InFlight /\ Touched(req'[o], req[o]))
  BY <1>4 DEF At, Touched
<1>6. req' \in [Reqs -> Maybe(Req)]
  <2>1. \A o \in Reqs \ {r} : req'[o] \in Maybe(Req)
    BY <1>1, <1>5, InFlightIs, TouchedIs DEF Tables, Maybe
  <2>2. req' = [o \in Reqs |-> req'[o]]
    BY DEF Wrote
  <2>3. \A o \in Reqs : req'[o] \in Maybe(Req)
    BY <1>4, <2>1 DEF Maybe
  <2> QED BY <2>2, <2>3
<1>7. \A o \in InFlight \ {r} : /\ o \in Reqs /\ o \in InFlight' /\ req[o] \in Req /\ Touched(req'[o], req[o])
                                /\ req'[o].id = req[o].id /\ req'[o].pc = req[o].pc
  <2> TAKE o \in InFlight \ {r}
  <2>1. o \in Reqs /\ req[o] \in Req /\ Touched(req'[o], req[o]) /\ req[o].pc \notin Done
    BY <1>1, <1>5, InFlightIs DEF Touched
  <2>2. req'[o] \in Req /\ req'[o].id = req[o].id /\ req'[o].pc = req[o].pc
    BY <2>1, TouchedIs
  <2> QED BY <2>1, <2>2, NoneAssumption DEF InFlight, Done
<1>8. \A o \in InFlight \ {r} : /\ req[o].pc = "write" /\ req[o].row # None /\ ~req'[o].touched
                                => rows'[req[o].row] = rows[req[o].row]
  <2> TAKE o \in InFlight \ {r}
  <2>1. HAVE req[o].pc = "write" /\ req[o].row # None /\ ~req'[o].touched
  <2>2. req[o] \in Req /\ req[o].row \in Rows
    BY <1>7, <2>1 DEF IInv, Good, Shape, Maybe
  <2>3. CASE req[o].row = x
    <3>1. req'[o] = [req[o] EXCEPT !.touched = TRUE]
      BY <1>4, <1>7, <2>1, <2>3 DEF At
    <3> QED BY <2>1, <2>2, <3>1 DEF Req
  <2>4. CASE req[o].row # x
    BY <1>1, <2>2, <2>4 DEF Tables
  <2> QED BY <2>3, <2>4
<1>9. rows' \in [Rows -> Maybe(Entity)] /\ rows'[x] = e /\ \A y \in Rows \ {x} : rows'[y] = rows[y]
  BY <1>1 DEF Tables
<1>10. /\ workspaces' \in [Ids -> Maybe(Workspace)] /\ sessionWs' \in [Sids -> Names]
       /\ clone' \in [Ids -> Maybe(Remotes)] /\ stale' \subseteq Ids \cup Names
  BY <1>1 DEF Tables
<1>11. NamesApart' /\ SessionsFollow'
  BY DEF IInv, NamesApart, SessionsFollow, Named, Existing
<1>12. KeysApart'
  BY <1>9 DEF IInv, KeysApart
<1>13. NothingOrphaned'
  BY <1>9 DEF IInv, NothingOrphaned, Existing
<1>14. CloneIsOfRemote'
  <2>1. \A o \in InFlight : req[o].pc \in {"after", "forget"} =>
           o \in InFlight' /\ req'[o].id = req[o].id /\ req'[o].pc = req[o].pc
    BY <1>7
  <2> QED BY <2>1 DEF IInv, CloneIsOfRemote
<1>15. ASSUME NEW o \in InFlight \ {r}, NEW p \in Req, p = req'[o]
       PROVE  Fresh(p)' /\ Moving(p)'
  <2>1. Fresh(req[o]) /\ Moving(req[o]) /\ Touched(p, req[o]) /\ req[o] \in Req
    BY <1>7, <1>15 DEF IInv, Good
  <2>2. Fresh(p) /\ Moving(p)
    BY <2>1, TouchedIs DEF Fresh, Moving
  <2> QED BY <2>2 DEF Fresh, Moving, Named, Existing
<1>16. ASSUME q.pc \notin Done
       PROVE  Good(q)'
  <2>1. q.pc = "find" /\ Shape(q) /\ q.moveTo = None /\ q.id = req[r].id /\ q.ws = req[r].ws
    BY <1>2, <1>16, AfterIs DEF Done
  <2>2. Good(q)' <=> Shape(q) /\ Fresh(q)' /\ Moving(q)' /\ Found(q)'
    BY DEF Good, Shape
  <2>3. Fresh(q)'
    BY <2>1 DEF IInv, Good, Fresh, Resolved
  <2> QED BY <2>1, <2>2, <2>3 DEF Moving, Found
<1> QED BY <1>4, <1>5, <1>6, <1>8, <1>9, <1>10, <1>11, <1>12, <1>13, <1>14, <1>15, <1>16, RowsStep

LEMMA InsertStep == ASSUME IInv, NEW r \in Reqs, Insert(r) PROVE IInv'
<1> DEFINE i == req[r].id
           x == NextId({y \in Rows : rows[y] # None})
           e == [ws |-> i, key |-> req[r].key, by |-> r, live |-> TRUE]
<1>1. /\ r \in InFlight /\ req[r] \in Req /\ req[r].pc = "write" /\ Good(req[r]) /\ Tables
      /\ UNCHANGED <<workspaces, sessionWs, clone, stale>>
  BY InFlightIs DEF IInv, Insert, At
<1>2. CASE Goto(r, "failed") /\ UNCHANGED rows
  <2>1. "failed" \in Phases /\ "failed" \in Done /\ UNCHANGED <<store, stale>>
    BY <1>1, <1>2 DEF Phases, Done, store
  <2> QED BY <1>1, <1>2, <2>1, GotoStep
<1>3. CASE HasKey(i, req[r].key) = {} /\ x \in Rows /\ rows' = [rows EXCEPT ![x] = e] /\ Wrote(r, x, After(r))
  <2>1. i \in Ids /\ (i \in stale \/ i \in Existing) /\ req[r].key \in Queries \cup Dashboards
    <3>1. i # None /\ req[r].ws # None /\ req[r].key # None /\ Fresh(req[r])
      BY <1>1 DEF Good, Shape, Resolved
    <3>2. i \in Ids /\ req[r].key \in Queries \cup Dashboards
      BY <1>1, <3>1 DEF Req, Maybe
    <3>3. i \in stale \/ workspaces[i] = req[r].ws
      BY <1>1, <3>1 DEF Fresh, Resolved
    <3> QED BY <3>1, <3>2, <3>3 DEF Existing
  <2>2. e \in Maybe(Entity) /\ e.ws = i /\ e.key = req[r].key
    BY <2>1 DEF Entity, Maybe
  <2>3. \A y \in Rows : ~(rows[y] # None /\ rows[y].ws = i /\ rows[y].key = req[r].key)
    BY <1>3 DEF HasKey
  <2> HIDE DEF x, e, i
  <2> QED BY <1>1, <1>3, <2>1, <2>2, <2>3, WroteStep
<1> QED BY <1>2, <1>3 DEF Insert

LEMMA UpdateStep == ASSUME IInv, NEW r \in Reqs, Update(r) PROVE IInv'
<1> DEFINE x == req[r].row
           e == Updated(r, x)
<1>1. /\ r \in InFlight /\ req[r] \in Req /\ req[r].pc = "write" /\ Good(req[r]) /\ Tables
      /\ UNCHANGED <<workspaces, sessionWs, clone, stale>> /\ x # None
  BY InFlightIs DEF IInv, Update, At
<1>2. CASE Goto(r, "failed") /\ UNCHANGED rows
  <2>1. "failed" \in Phases /\ "failed" \in Done /\ UNCHANGED <<store, stale>>
    BY <1>1, <1>2 DEF Phases, Done, store
  <2> QED BY <1>1, <1>2, <2>1, GotoStep
<1>3. CASE /\ ~(rows[x] = None /\ req[r].op # "purge")
           /\ ~(req[r].op = "rename" /\ HasKey(rows[x].ws, req[r].to) # {})
           /\ rows' = [rows EXCEPT ![x] = e] /\ Wrote(r, x, After(r))
  <2>1. x \in Rows /\ req[r].op \in RowOps
    BY <1>1 DEF Good, Shape, Maybe
  <2>2. CASE req[r].op = "purge"
    <3>1. e = None /\ e \in Maybe(Entity)
      BY <2>2 DEF Updated, Maybe
    <3> HIDE DEF x, e
    <3> QED BY <1>1, <1>3, <2>1, <3>1, WroteStep
  <2>3. CASE req[r].op # "purge"
    <3>1. rows[x] # None /\ rows[x] \in Entity /\ rows[x].ws \in Existing \cup stale
      BY <1>1, <1>3, <2>1, <2>3 DEF Tables, Maybe, IInv, NothingOrphaned
    <3>2. CASE req[r].op = "rename"
      <4>1. e = [rows[x] EXCEPT !.key = req[r].to] /\ req[r].to \in Queries
        BY <1>1, <3>2 DEF Updated, Good, Shape
      <4>2. e \in Entity /\ e.ws = rows[x].ws /\ e.key = req[r].to
        BY <3>1, <4>1 DEF Entity
      <4>3. \A y \in Rows : ~(rows[y] # None /\ rows[y].ws = e.ws /\ rows[y].key = e.key)
        BY <1>3, <3>2, <4>2 DEF HasKey
      <4> HIDE DEF x, e
      <4>4. e \in Maybe(Entity)
        BY <4>2 DEF Maybe
      <4> QED BY <1>1, <1>3, <2>1, <3>1, <4>2, <4>3, <4>4, WroteStep
    <3>3. CASE req[r].op # "rename"
      <4>1. e \in {[rows[x] EXCEPT !.by = r, !.live = IF req[r].live THEN @ ELSE TRUE],
                   [rows[x] EXCEPT !.live = FALSE], [rows[x] EXCEPT !.live = TRUE]}
        BY <2>1, <2>3, <3>3 DEF Updated, RowOps, Saves
      <4>2. e \in Entity /\ e.ws = rows[x].ws /\ e.key = rows[x].key
        BY <3>1, <4>1 DEF Entity, Maybe
      <4>3. \A y \in Rows \ {x} : ~(rows[y] # None /\ rows[y].ws = e.ws /\ rows[y].key = e.key)
        BY <2>1, <3>1, <4>2 DEF IInv, KeysApart
      <4> HIDE DEF x, e
      <4>4. e \in Maybe(Entity)
        BY <4>2 DEF Maybe
      <4> QED BY <1>1, <1>3, <2>1, <3>1, <4>2, <4>3, <4>4, WroteStep
    <3> QED BY <3>2, <3>3
  <2> QED BY <2>2, <2>3
<1>4. \/ Goto(r, "failed") /\ UNCHANGED rows
      \/ /\ ~(rows[x] = None /\ req[r].op # "purge")
         /\ ~(req[r].op = "rename" /\ HasKey(rows[x].ws, req[r].to) # {})
         /\ rows' = [rows EXCEPT ![x] = e] /\ Wrote(r, x, After(r))
  BY Zenon DEF Update
<1> QED BY <1>2, <1>3, <1>4

LEMMA DropWriteStep == ASSUME IInv, NEW r \in Reqs, DropWrite(r) PROVE IInv'
<1> DEFINE i == req[r].row
           n == req[r].name
           m == req[r].moveTo
           p0 == [req[r] EXCEPT !.moveTo = None]
           Told(o) == At(o, "write") /\ req[o].row # None /\ rows'[req[o].row] # rows[req[o].row]
<1>1. /\ r \in InFlight /\ req[r] \in Req /\ req[r].pc = "dropWrite" /\ Good(req[r]) /\ Tables
      /\ UNCHANGED clone
  BY InFlightIs DEF IInv, DropWrite, At
<1>2. CASE Goto(r, "failed") /\ UNCHANGED <<workspaces, rows, sessionWs, stale>>
  <2>1. "failed" \in Phases /\ "failed" \in Done /\ UNCHANGED <<store, stale>>
    BY <1>1, <1>2 DEF Phases, Done, store
  <2> QED BY <1>1, <1>2, <2>1, GotoStep
<1>3. CASE /\ StillEmpty(i) /\ Change(r, i, None, n, m) /\ rows' = Purged(i)
           /\ req' = [o \in Reqs |-> CASE o = r -> Moved(p0, "forget")
                                       [] Told(o) -> [req[o] EXCEPT !.touched = TRUE]
                                       [] OTHER -> req[o]]
  <2>1. /\ i \in Ids /\ i \in Existing /\ workspaces[i] # None /\ workspaces[i] \in Workspace /\ Owned(i) = {}
        /\ m \in Names /\ req[r].id \in Ids /\ req[r].ws # None /\ n \in Names
        /\ req[r].op = "drop" /\ (n # None => req[r].ws.name = n) /\ n # None
    <3>1. i \in Ids /\ m # None /\ req[r].id # None /\ req[r].ws # None /\ n # None /\ req[r].op = "drop"
      BY <1>1 DEF Good, Shape, Resolved
    <3> QED BY <1>1, <1>3, <3>1 DEF StillEmpty, Existing, Tables, Req, Maybe, Good, Shape, Resolved
  <2>2. /\ m \in stale \/ \E k \in Named(m) : k # i
        /\ i \in stale \/ workspaces[i].name = n
    BY <1>1, <2>1, LibraryAssumption DEF Good, Moving
  <2>3. PICK q \in Req : /\ q = Moved(p0, "forget") /\ q.pc = "forget" /\ q.moveTo = None /\ q.id = req[r].id /\ q.ws = req[r].ws
                         /\ q.name = n /\ q.op = "drop" /\ q.row = i
    <3>1. p0 \in Req
      BY <1>1 DEF Req, Maybe
    <3>2. "forget" \in Phases /\ "forget" \notin Done
      BY DEF Phases, Done
    <3>3. Moved(p0, "forget") = [p0 EXCEPT !.pc = "forget"] /\ Moved(p0, "forget") \in Req
      BY <3>1, <3>2, MovedFacts
    <3>4. [p0 EXCEPT !.pc = "forget"].row = i /\ [p0 EXCEPT !.pc = "forget"].moveTo = None
          /\ [p0 EXCEPT !.pc = "forget"].id = req[r].id /\ [p0 EXCEPT !.pc = "forget"].ws = req[r].ws
          /\ [p0 EXCEPT !.pc = "forget"].name = n /\ [p0 EXCEPT !.pc = "forget"].op = "drop"
          /\ [p0 EXCEPT !.pc = "forget"].pc = "forget"
      BY <1>1, <2>1 DEF Req
    <3> HIDE DEF p0
    <3> QED BY <3>3, <3>4
  <2> HIDE DEF p0
  <2>4. ~Told(r)
    BY <1>1 DEF At
  <2>5. /\ req'[r] = q
        /\ \A o \in Reqs \ {r} : req'[o] = IF Told(o) THEN [req[o] EXCEPT !.touched = TRUE] ELSE req[o]
    <3> HIDE DEF Told
    <3> QED BY <1>3, <2>3, <2>4, InFlightIs DEF IInv, InFlight
  <2>6. \A o \in Reqs \ {r} : req'[o] = req[o] \/ (o \in InFlight /\ Touched(req'[o], req[o]))
    BY <2>5 DEF At, Touched
  <2>7. req' \in [Reqs -> Maybe(Req)]
    <3>1. \A o \in Reqs : req'[o] \in Maybe(Req)
      BY <1>1, <2>3, <2>5, <2>6, InFlightIs, TouchedIs DEF Tables, Maybe
    <3>2. req' = [o \in Reqs |-> req'[o]]
      BY <1>3
    <3> QED BY <3>1, <3>2
  <2>8. r \in Reqs /\ r \in InFlight' /\ \A o \in InFlight \ {r} :
           /\ o \in Reqs /\ o \in InFlight' /\ req[o] \in Req /\ Touched(req'[o], req[o])
           /\ req'[o].id = req[o].id /\ req'[o].pc = req[o].pc
    <3>1. r \in Reqs /\ r \in InFlight'
      BY <2>3, <2>5, NoneAssumption DEF InFlight
    <3>2. ASSUME NEW o \in InFlight \ {r}
          PROVE  /\ o \in Reqs /\ o \in InFlight' /\ req[o] \in Req /\ Touched(req'[o], req[o])
                 /\ req'[o].id = req[o].id /\ req'[o].pc = req[o].pc
      <4>1. o \in Reqs /\ req[o] \in Req /\ Touched(req'[o], req[o]) /\ req[o].pc \notin Done
        BY <1>1, <2>6, InFlightIs DEF Touched
      <4>2. req'[o] \in Req /\ req'[o].id = req[o].id /\ req'[o].pc = req[o].pc
        BY <4>1, TouchedIs
      <4> QED BY <4>1, <4>2, NoneAssumption DEF InFlight, Done
    <3> QED BY <3>1, <3>2
  <2>9. \A o \in InFlight \ {r} : /\ req[o].pc = "write" /\ req[o].row # None /\ ~req'[o].touched
                                  => rows'[req[o].row] = rows[req[o].row]
    <3> TAKE o \in InFlight \ {r}
    <3>1. HAVE req[o].pc = "write" /\ req[o].row # None /\ ~req'[o].touched
    <3>2. CASE Told(o)
      <4>1. req'[o] = [req[o] EXCEPT !.touched = TRUE] /\ req[o] \in Req
        BY <2>5, <2>8, <3>2
      <4> QED BY <3>1, <4>1 DEF Req
    <3> QED BY <2>8, <3>1, <3>2 DEF At
  <2>10. /\ workspaces' = [workspaces EXCEPT ![i] = None]
         /\ sessionWs' = [s \in Sids |-> IF sessionWs[s] = n THEN m ELSE sessionWs[s]]
         /\ stale \subseteq stale'
         /\ i # req[r].id => i \in stale'
         /\ i \in stale => workspaces[i].name \in stale'
         /\ stale' \subseteq Ids \cup Names
    BY <1>1, <1>3, <2>1 DEF Change, Tables, Workspace
  <2>11. /\ workspaces' \in [Ids -> Maybe(Workspace)]
         /\ workspaces'[i] = None
         /\ \A j \in Ids \ {i} : workspaces'[j] = workspaces[j]
         /\ sessionWs' \in [Sids -> Names]
         /\ clone' \in [Ids -> Maybe(Remotes)]
    BY <1>1, <2>1, <2>10 DEF Tables, Maybe
  <2>12. Existing' = Existing \ {i}
    BY <2>11 DEF Existing
  <2>13. /\ rows' \in [Rows -> Maybe(Entity)]
         /\ \A y \in Rows : rows'[y] # None => rows'[y] = rows[y] /\ rows[y].ws # i
    <3>1. rows' = [y \in Rows |-> IF rows[y] # None /\ rows[y].ws = i /\ ~rows[y].live THEN None ELSE rows[y]]
      BY <1>3 DEF Purged
    <3>2. \A y \in Rows : ~(rows[y] # None /\ rows[y].ws = i /\ rows[y].live)
      BY <2>1 DEF Owned
    <3>3. \A y \in Rows : rows[y] \in Maybe(Entity) /\ None \in Maybe(Entity)
      BY <1>1 DEF Tables, Maybe
    <3> HIDE DEF i
    <3> QED BY <3>1, <3>2, <3>3
  <2> HIDE DEF i, n, m
  <2>14. NamesApart' /\ KeysApart'
    BY <2>1, <2>11, <2>12, <2>13 DEF IInv, NamesApart, KeysApart, Existing
  <2>15. NothingOrphaned'
    BY <2>10, <2>12, <2>13 DEF IInv, NothingOrphaned
  <2>16. SessionsFollow'
    <3>1. \A a \in Names : \A k \in Named(a) : k # i => k \in Named(a)'
      BY <2>11, <2>12 DEF Named, Existing
    <3>2. ASSUME NEW s \in Sids
          PROVE  Named(sessionWs[s])' # {} \/ sessionWs'[s] \in stale'
      <4>1. sessionWs[s] \in Names
        BY <1>1 DEF Tables
      <4>2. CASE sessionWs[s] = n
        <5>1. sessionWs'[s] = m
          BY <2>10, <4>2
        <5>2. PICK a \in Names : a = m
          BY <2>1
        <5>3. a \in stale' \/ Named(a)' # {}
          BY <2>2, <2>10, <3>1, <5>2
        <5> QED BY <5>1, <5>2, <5>3 DEF Named
      <4>3. CASE sessionWs[s] # n
        <5>1. sessionWs'[s] = sessionWs[s]
          BY <2>10, <4>3
        <5>2. CASE sessionWs[s] \in stale
          BY <2>10, <5>1, <5>2
        <5>3. CASE sessionWs[s] \notin stale
          <6>1. PICK k \in Named(sessionWs[s]) : TRUE
            BY <5>3 DEF IInv, SessionsFollow
          <6>2. CASE k # i
            <7>1. k \in Named(sessionWs[s])' \/ (k \in Existing' /\ workspaces'[k].name = sessionWs'[s])
              BY <2>11, <2>12, <5>1, <6>1, <6>2 DEF Named, Existing
            <7> QED BY <7>1, <5>1 DEF Named
          <6>3. CASE k = i
            <7>1. workspaces[i].name = sessionWs[s]
              BY <6>1, <6>3 DEF Named
            <7> QED BY <2>2, <2>10, <4>3, <5>1, <7>1
          <6> QED BY <6>2, <6>3
        <5> QED BY <5>2, <5>3
      <4> QED BY <4>2, <4>3
    <3> QED BY <3>2 DEF SessionsFollow
  <2>17. CloneIsOfRemote'
    <3>1. ASSUME NEW j \in Ids, clone[j] # None
          PROVE  \/ j \in stale'
                 \/ \E o \in InFlight' : req'[o].id = j /\ req'[o].pc \in {"after", "forget"}
                 \/ workspaces'[j] # None /\ workspaces'[j].remote = clone'[j]
      <4>1. CASE j = i
        BY <2>3, <2>5, <2>8, <2>10, <4>1
      <4>2. CASE j # i
        <5>1. \A o \in InFlight : req[o].pc \in {"after", "forget"} => o # r
          BY <1>1
        <5> QED BY <1>1, <2>8, <2>10, <2>11, <3>1, <4>2, <5>1 DEF IInv, CloneIsOfRemote
      <4> QED BY <4>1, <4>2
    <3> QED BY <1>1, <3>1 DEF CloneIsOfRemote
  <2>18. ASSUME NEW o \in InFlight \ {r}, NEW p \in Req, p = req'[o]
         PROVE  Fresh(p)' /\ Moving(p)'
    <3>1. p = req[o] \/ p = [req[o] EXCEPT !.touched = TRUE]
      BY <2>8, <2>18 DEF Touched
    <3>2. TRUE \in BOOLEAN /\ UNCHANGED clone /\ None \in Maybe(Workspace)
      BY <1>1 DEF Maybe
    <3> QED BY <1>1, <1>3, <2>1, <2>18, <3>1, <3>2, ChangeOthers
  <2>19. Good(q)'
    <3>1. Good(q)' <=> Shape(q) /\ Fresh(q)' /\ Moving(q)' /\ Found(q)'
      BY DEF Good, Shape
    <3>2. Shape(q)
      BY <1>1, <2>1, <2>3 DEF Good, Shape, RowOps, Saves, Resolved, n
    <3> QED BY <2>3, <3>1, <3>2 DEF Fresh, Moving, Found
  <2>20. clone' \in [Ids -> Maybe(Remotes)] /\ stale' \subseteq Ids \cup Names
    BY <1>1, <2>10, <2>11
  <2> QED BY <1>1, <2>5, <2>6, <2>7, <2>9, <2>11, <2>13, <2>14, <2>15, <2>16, <2>17, <2>18, <2>19, <2>20, RowsStep
<1> QED BY <1>2, <1>3 DEF DropWrite

-----------------------------------------------------------------------------
(* The theorems.                                                            *)

LEMMA Initially == ASSUME Init PROVE IInv
<1>1. /\ workspaces \in [Ids -> [name: Names, remote: Maybe(Remotes), autosave: {FALSE}] \cup {None}]
      /\ \A j, k \in Existing : j # k => workspaces[j].name # workspaces[k].name
      /\ sessionWs \in [Sids -> {workspaces[j].name : j \in Existing}]
      /\ clone = [j \in Ids |-> None] /\ req = [o \in Reqs |-> None] /\ stale = {}
  BY DEF Init
<1>2. PICK first \in {None} \cup [ws: Existing, key: Queries, by: {None}, live: BOOLEAN] :
         rows = [x \in Rows |-> IF x = 1 THEN first ELSE None]
  BY DEF Init
<1>3. \A X : None \in Maybe(X) /\ X \subseteq Maybe(X)
  BY DEF Maybe
<1>4. workspaces \in [Ids -> Maybe(Workspace)]
  BY <1>1, <1>3 DEF Workspace, Maybe
<1>5. \A j \in Existing : j \in Ids /\ workspaces[j] \in Workspace /\ workspaces[j].name \in Names
  BY <1>4 DEF Existing, Maybe, Workspace
<1>6. sessionWs \in [Sids -> Names] /\ \A s \in Sids : \E j \in Existing : workspaces[j].name = sessionWs[s]
  BY <1>1, <1>5
<1>7. \A x \in Rows : rows[x] # None => rows[x] = first /\ x = 1
  BY <1>2
<1>8. first = None \/ (first \in Entity /\ first.ws \in Existing)
  BY <1>2, <1>3, <1>5 DEF Entity
<1>9. rows \in [Rows -> Maybe(Entity)]
  BY <1>2, <1>8 DEF Maybe
<1>10. Tables
  BY <1>1, <1>3, <1>4, <1>6, <1>9 DEF Tables
<1>11. NamesApart /\ KeysApart
  BY <1>1, <1>7 DEF NamesApart, KeysApart
<1>12. NothingOrphaned /\ SessionsFollow /\ CloneIsOfRemote
  BY <1>1, <1>6, <1>7, <1>8 DEF NothingOrphaned, SessionsFollow, CloneIsOfRemote, Named
<1>13. InFlight = {}
  BY <1>1 DEF InFlight
<1> QED BY <1>10, <1>11, <1>12, <1>13 DEF IInv

LEMMA Stuttering == ASSUME IInv, UNCHANGED vars PROVE IInv'
<1>1. /\ UNCHANGED <<workspaces, rows, sessionWs, clone, req, stale>>
  BY DEF vars
<1>2. Tables' /\ NamesApart' /\ KeysApart'
  BY <1>1 DEF IInv, Tables, NamesApart, KeysApart, Existing
<1>3. ASSUME NEW o \in InFlight'
      PROVE  Good(req[o])'
  BY <1>1, <1>3 DEF IInv, InFlight, Good, Shape, Fresh, Moving, Found, Named, Existing
<1>4. NothingOrphaned' /\ SessionsFollow' /\ CloneIsOfRemote'
  BY <1>1 DEF IInv, NothingOrphaned, SessionsFollow, CloneIsOfRemote, InFlight, Named, Existing
<1> QED BY <1>2, <1>3, <1>4 DEF IInv

LEMMA Steps == ASSUME IInv, [Next]_vars PROVE IInv'
<1>1. CASE UNCHANGED vars
  BY <1>1, Stuttering
<1>2. ASSUME NEW r \in Reqs, Arrive(r) \/ Resolve(r) \/ Push(r) \/ Choose(r) \/ PatchSession(r) \/ Find(r)
      PROVE  IInv'
  BY <1>2, ArriveStep, ResolveStep, PushStep, ChooseStep, PatchSessionStep, FindStep
<1>3. ASSUME NEW r \in Reqs, Insert(r) \/ Update(r) \/ EnsureRepo(r) \/ CreateWorkspace(r) \/ UpdateWorkspace(r)
      PROVE  IInv'
  BY <1>3, InsertStep, UpdateStep, EnsureRepoStep, CreateWorkspaceStep, UpdateWorkspaceStep
<1>4. ASSUME NEW r \in Reqs, AfterUpdate(r) \/ DropRead(r) \/ DropWrite(r) \/ Forget(r)
      PROVE  IInv'
  BY <1>4, AfterUpdateStep, DropReadStep, DropWriteStep, ForgetStep
<1> QED BY <1>1, <1>2, <1>3, <1>4 DEF Next

\* In every reachable state the tables agree, and what each request in flight holds of them is so, or is
\* marked stale.
THEOREM Inductive == Spec => []IInv
<1>1. Init => IInv
  BY Initially
<1>2. IInv /\ [Next]_vars => IInv'
  BY Steps
<1> QED BY <1>1, <1>2, PTL DEF Spec

\* The tables hold rows that fit their columns and the unique constraints, and every query and dashboard
\* belongs to a workspace that exists: queries.py, dashboards.py and workspaces.py.
THEOREM Consistent == Spec => []TablesOK
<1>1. IInv => TablesOK
  BY TypesFollow DEF IInv, TablesOK
<1> QED BY <1>1, Inductive, PTL

\* A session is on a workspace that exists, through renamings and deletions: workspaces.py.
THEOREM Followed == Spec => []SessionsFollow
<1>1. IInv => SessionsFollow
  BY DEF IInv
<1> QED BY <1>1, Inductive, PTL

\* A clone is of the remote that its workspace has, once the route that changed it is through: main.py.
THEOREM CloneFits == Spec => []CloneIsOfRemote
<1>1. IInv => CloneIsOfRemote
  BY DEF IInv
<1> QED BY <1>1, Inductive, PTL

-----------------------------------------------------------------------------
(* What a step may never do.                                                *)

\* A workspace is what its row says, or gone with nothing live in it.
LEMMA OnlyEmptyGoes ==
    ASSUME IInv, [Next]_vars, NEW i \in Ids, workspaces[i] # None, workspaces'[i] = None
    PROVE  Owned(i) = {}
<1>0. Tables
  BY DEF IInv
<1>1. PICK r \in Reqs : CreateWorkspace(r) \/ UpdateWorkspace(r) \/ DropWrite(r)
  <2>1. ~UNCHANGED workspaces
    OBVIOUS
  <2> QED BY <2>1 DEF Next, vars, store, Arrive, Resolve, Push, Choose, PatchSession, Find, Insert, Update, EnsureRepo,
               AfterUpdate, DropRead, Forget
<1>2. ASSUME NEW j \in Ids, NEW w \in Workspace, workspaces' = [workspaces EXCEPT ![j] = w]
      PROVE  FALSE
  <2>1. w # None
    BY NoneAssumption
  <2> QED BY <1>0, <1>2, <2>1 DEF Tables
<1>3. CASE CreateWorkspace(r)
  <2>1. req[r] \in Req /\ req[r].name \in Names /\ req[r].remote \in Maybe(Remotes)
    BY <1>0, <1>3, InFlightIs DEF CreateWorkspace, At, IInv, Good, Shape, Req, Maybe
  <2>2. [name |-> req[r].name, remote |-> req[r].remote, autosave |-> req[r].autosave] \in Workspace
    BY <2>1 DEF Workspace, Req
  <2> QED BY <1>2, <1>3, <2>2 DEF CreateWorkspace
<1>4. CASE UpdateWorkspace(r)
  <2>1. req[r] \in Req /\ req[r].to \in Names
    BY <1>0, <1>4, InFlightIs DEF UpdateWorkspace, At, IInv, Good, Shape
  <2>2. PICK j \in Named(req[r].name) :
           workspaces' = [workspaces EXCEPT ![j] =
              [name |-> req[r].to,
               remote |-> IF req[r].remote = Absent THEN workspaces[j].remote ELSE req[r].remote,
               autosave |-> workspaces[j].autosave \/ req[r].autosave]]
    BY <1>4 DEF UpdateWorkspace, Change
  <2>3. j \in Ids /\ workspaces[j] \in Workspace
    BY <1>0 DEF Named, Existing, Tables, Maybe
  <2> DEFINE m == IF req[r].remote = Absent THEN workspaces[j].remote ELSE req[r].remote
             a == workspaces[j].autosave \/ req[r].autosave
  <2>4. m \in Maybe(Remotes) /\ a \in BOOLEAN
    BY <2>1, <2>3 DEF Req, Workspace, Maybe
  <2>5. workspaces' = [workspaces EXCEPT ![j] = [name |-> req[r].to, remote |-> m, autosave |-> a]]
    BY <2>2
  <2> HIDE DEF m, a
  <2>6. [name |-> req[r].to, remote |-> m, autosave |-> a] \in Workspace
    BY <2>1, <2>4 DEF Workspace
  <2> QED BY <1>2, <2>3, <2>5, <2>6
<1>5. CASE DropWrite(r)
  <2>1. StillEmpty(req[r].row) /\ workspaces' = [workspaces EXCEPT ![req[r].row] = None]
    BY <1>5 DEF DropWrite, Change
  <2>2. i = req[r].row
    BY <1>0, <2>1 DEF Tables
  <2> QED BY <2>1, <2>2 DEF StillEmpty
<1> QED BY <1>1, <1>3, <1>4, <1>5

\* delete_workspace takes a workspace only while it owns nothing live: workspaces.py.
THEOREM EmptyWhenDropped == Spec => DropTakesOnlyEmpty
<1>1. IInv /\ [Next]_vars => [\A i \in Ids : workspaces[i] # None /\ workspaces'[i] = None => Owned(i) = {}]_vars
  BY OnlyEmptyGoes
<1> QED BY <1>1, Inductive, PTL DEF Spec, DropTakesOnlyEmpty

\* Who is about to write goes on from there only by writing.
LEMMA WritersWrite ==
    ASSUME IInv, [Next]_vars, NEW r \in Reqs, At(r, "write"), req'[r].pc # "write"
    PROVE  Insert(r) \/ Update(r)
<1>0. Tables /\ req[r] \in Req /\ req[r].pc = "write"
  BY InFlightIs DEF IInv, At
<1>1. PICK s \in Reqs :
        \/ Arrive(s) \/ Resolve(s) \/ Push(s) \/ Choose(s) \/ PatchSession(s) \/ Find(s) \/ Insert(s) \/ Update(s)
        \/ EnsureRepo(s) \/ CreateWorkspace(s) \/ UpdateWorkspace(s) \/ AfterUpdate(s)
        \/ DropRead(s) \/ DropWrite(s) \/ Forget(s)
  BY <1>0 DEF Next, vars
<1>2. CASE s = r
  <2>1. ~Arrive(r)
    BY DEF Arrive, At, InFlight
  <2>2. /\ ~Resolve(r) /\ ~Push(r) /\ ~Choose(r) /\ ~PatchSession(r) /\ ~Find(r) /\ ~EnsureRepo(r) /\ ~CreateWorkspace(r)
        /\ ~UpdateWorkspace(r) /\ ~AfterUpdate(r) /\ ~DropRead(r) /\ ~DropWrite(r) /\ ~Forget(r)
    BY <1>0 DEF Resolve, Push, Choose, PatchSession, Find, EnsureRepo, CreateWorkspace, UpdateWorkspace, AfterUpdate, DropRead,
                DropWrite, Forget, At
  <2> QED BY <1>1, <1>2, <2>1, <2>2
<1>3. CASE s # r
  <2>1. ASSUME NEW q, req' = [req EXCEPT ![s] = q]
        PROVE  FALSE
    BY <1>0, <1>3, <2>1 DEF Tables
  <2>2. ASSUME NEW x, Wrote(s, x, After(s))
        PROVE  FALSE
    <3>1. req'[r] \in {req[r], [req[r] EXCEPT !.touched = TRUE]}
      BY <1>3, <2>2 DEF Wrote
    <3> QED BY <1>0, <3>1 DEF Req
  <2>3. ~DropWrite(s)
    <3>1. SUFFICES ASSUME DropWrite(s)
                   PROVE  FALSE
      OBVIOUS
    <3>2. CASE Goto(s, "failed")
      BY <2>1, <3>2 DEF Goto
    <3>3. CASE req'[r] \in {req[r], [req[r] EXCEPT !.touched = TRUE]}
      BY <1>0, <3>3 DEF Req
    <3> QED BY <1>3, <3>1, <3>2, <3>3 DEF DropWrite
  <2>4. ~Insert(s) /\ ~Update(s)
    BY <2>1, <2>2 DEF Insert, Update, Goto
  <2>5. /\ ~Arrive(s) /\ ~Push(s) /\ ~Choose(s) /\ ~PatchSession(s) /\ ~EnsureRepo(s)
        /\ ~CreateWorkspace(s) /\ ~UpdateWorkspace(s) /\ ~AfterUpdate(s) /\ ~Forget(s)
    BY <2>1 DEF Arrive, Push, Choose, PatchSession, EnsureRepo, CreateWorkspace, UpdateWorkspace, AfterUpdate,
                Forget, Goto, Comes
  <2>6. ~Resolve(s) /\ ~Find(s) /\ ~DropRead(s)
    BY <2>1 DEF Resolve, Find, DropRead, Goto
  <2> QED BY <1>1, <2>3, <2>4, <2>5, <2>6
<1> QED BY <1>2, <1>3

LEMMA SaveIsThere ==
    ASSUME IInv, [Next]_vars, NEW r \in Reqs, At(r, "write"), req[r].op \in Saves, ~req[r].touched,
           req'[r].pc \in {"ok", "find"}
    PROVE  \E x \in Rows : rows'[x] = [ws |-> req[r].id, key |-> req[r].key, by |-> r, live |-> TRUE]
<1> DEFINE saved == [ws |-> req[r].id, key |-> req[r].key, by |-> r, live |-> TRUE]
<1>1. /\ Tables /\ r \in InFlight /\ req[r] \in Req /\ req[r].pc = "write" /\ Good(req[r])
  BY InFlightIs DEF IInv, At
<1>2. ~Goto(r, "failed")
  <2>1. "failed" \in Phases
    BY DEF Phases
  <2>2. Moved(req[r], "failed").pc = "failed"
    BY <1>1, <2>1, MovedFacts
  <2> QED BY <1>1, <2>2 DEF Goto, Tables
<1>3. CASE Insert(r)
  <2>1. PICK x \in Rows : rows' = [rows EXCEPT ![x] = saved]
    BY <1>2, <1>3 DEF Insert
  <2> QED BY <1>1, <2>1 DEF Tables
<1>4. CASE Update(r)
  <2> DEFINE x == req[r].row
  <2>1. x # None /\ rows' = [rows EXCEPT ![x] = Updated(r, x)]
    BY <1>2, <1>4 DEF Update
  <2>2. /\ x \in Rows /\ rows[x] # None /\ rows[x].ws = req[r].id /\ rows[x].key = req[r].key
        /\ rows[x].live = req[r].live
    BY <1>1, <2>1 DEF Good, Shape, Found, Maybe
  <2>3. rows[x] \in Entity
    BY <1>1, <2>2 DEF Tables, Maybe
  <2>4. Updated(r, x) = [rows[x] EXCEPT !.by = r, !.live = IF req[r].live THEN @ ELSE TRUE]
    BY DEF Updated, Saves
  <2>5. Updated(r, x) = saved
    <3> HIDE DEF x
    <3> QED BY <2>2, <2>3, <2>4 DEF Entity
  <2> HIDE DEF saved
  <2> QED BY <1>1, <2>1, <2>2, <2>5 DEF Tables, saved
<1> QED BY <1>1, <1>3, <1>4, WritersWrite

\* What a save answers for is there, live, with what was saved, unless someone else changed the row that
\* it had found: save_query and its like in queries.py and dashboards.py.
THEOREM SavesHold == Spec => SavedIsLive
<1>1. IInv /\ [Next]_vars =>
         [\A r \in Reqs :
             /\ At(r, "write") /\ req[r].op \in {"save", "import", "push"} /\ ~req[r].touched
             /\ req'[r].pc \in {"ok", "find"}
             => \E x \in Rows : rows'[x] = [ws |-> req[r].id, key |-> req[r].key, by |-> r, live |-> TRUE]]_vars
  BY SaveIsThere DEF Saves
<1> QED BY <1>1, Inductive, PTL DEF Spec, SavedIsLive

LEMMA OnlyPurgeRemoves ==
    ASSUME IInv, [Next]_vars, NEW x \in Rows, rows[x] # None, rows[x].live, rows'[x] = None
    PROVE  \E r \in InFlight : req[r].op = "purge" /\ req[r].row = x /\ req[r].touched
<1>0. Tables
  BY DEF IInv
<1>1. PICK r \in Reqs : Insert(r) \/ Update(r) \/ DropWrite(r)
  <2>1. ~UNCHANGED rows
    OBVIOUS
  <2> QED BY <2>1 DEF Next, vars, store, Arrive, Resolve, Push, Choose, PatchSession, Find, EnsureRepo, CreateWorkspace,
               UpdateWorkspace, AfterUpdate, DropRead, Forget
<1>2. r \in InFlight /\ req[r] \in Req /\ Good(req[r])
  BY <1>0, <1>1, InFlightIs DEF Insert, Update, DropWrite, At, IInv
<1>3. CASE Insert(r)
  <2>1. PICK y \in Rows : rows' = [rows EXCEPT ![y] = [ws |-> req[r].id, key |-> req[r].key, by |-> r, live |-> TRUE]]
    BY <1>3 DEF Insert
  <2>2. req[r].id \in Ids /\ req[r].key \in Queries \cup Dashboards
    BY <1>2, <1>3 DEF Insert, At, Good, Shape, Resolved, Req, Maybe
  <2>3. [ws |-> req[r].id, key |-> req[r].key, by |-> r, live |-> TRUE] \in Entity
    BY <2>2 DEF Entity, Maybe
  <2>4. [ws |-> req[r].id, key |-> req[r].key, by |-> r, live |-> TRUE] # None
    BY <2>3, NoneAssumption
  <2> QED BY <1>0, <2>1, <2>4 DEF Tables
<1>4. CASE Update(r)
  <2> DEFINE y == req[r].row
  <2>1. y # None /\ rows' = [rows EXCEPT ![y] = Updated(r, y)] /\ req[r].pc = "write"
    BY <1>4 DEF Update, At
  <2>2. y \in Rows /\ req[r].op \in RowOps
    BY <1>2, <2>1 DEF Good, Shape, Maybe
  <2>3. y = x /\ Updated(r, x) = None
    BY <1>0, <2>1, <2>2 DEF Tables
  <2>4. rows[x] \in Entity
    BY <1>0 DEF Tables, Maybe
  <2>5. req[r].op = "purge"
    <3>1. SUFFICES ASSUME req[r].op # "purge"
                   PROVE  Updated(r, x) \in Entity
      BY <2>3, NoneAssumption
    <3>2. CASE req[r].op = "rename"
      <4>1. Updated(r, x) = [rows[x] EXCEPT !.key = req[r].to] /\ req[r].to \in Queries
        BY <1>2, <3>2 DEF Updated, Good, Shape
      <4> QED BY <2>4, <4>1 DEF Entity
    <3>3. CASE req[r].op # "rename"
      <4>1. Updated(r, x) \in {[rows[x] EXCEPT !.by = r, !.live = IF req[r].live THEN @ ELSE TRUE],
                               [rows[x] EXCEPT !.live = FALSE], [rows[x] EXCEPT !.live = TRUE]}
        BY <2>2, <3>1, <3>3 DEF Updated, RowOps, Saves
      <4> QED BY <2>4, <4>1 DEF Entity, Maybe
    <3> QED BY <3>2, <3>3
  <2>6. req[r].touched
    BY <1>2, <2>1, <2>2, <2>3, <2>5 DEF Good, Found
  <2> QED BY <1>2, <2>3, <2>5, <2>6
<1>5. CASE DropWrite(r)
  <2>1. PICK i : rows' = Purged(i)
    BY <1>5 DEF DropWrite
  <2> QED BY <2>1 DEF Purged
<1> QED BY <1>1, <1>3, <1>4, <1>5

\* A live query or dashboard is never removed, unless it came back after a purge had found it deleted: queries.py.
THEOREM LiveIsKept == Spec => LiveStays
<1>1. IInv /\ [Next]_vars =>
         [\A x \in Rows : rows[x] # None /\ rows[x].live /\ rows'[x] = None =>
             \E r \in InFlight : req[r].op = "purge" /\ req[r].row = x /\ req[r].touched]_vars
  BY OnlyPurgeRemoves
<1> QED BY <1>1, Inductive, PTL DEF Spec, LiveStays

=============================================================================
