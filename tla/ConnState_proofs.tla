--------------------------- MODULE ConnState_proofs ---------------------------
(* TLAPS proofs about ConnState: what is cached is what the row says, a row    *)
(* names a connection that there is, and a name is one connection, for any     *)
(* number of sessions, names, servers and requests in flight.                  *)
EXTENDS ConnState, FiniteSetTheorems, TLAPS

-----------------------------------------------------------------------------
(* The inductive invariant.                                                 *)

Busy == {r \in Reqs : InFlight(r)}

\* What is cached for session s is what its row says.
Agree(s) ==
    cache[s] # None =>
       /\ obj[cache[s]].name = row[s].conn
       /\ obj[cache[s]].db = IF row[s].db \in Lists[obj[cache[s]].cfg] THEN row[s].db ELSE None

\* What is cached is on the database that r is about to write to the row.
Chosen(r) ==
    LET s == Sid(r)  o == cache[s] IN
    o # None => /\ obj[o].name = row[s].conn
                /\ obj[o].db = req[r].db /\ req[r].db \in Lists[obj[o].cfg]

\* Between the cache and the row: r has changed one of them, or is about to.
Switching(r) == req[r].pc \in {"setconn", "setdb"} \/ (req[r].op = "select" /\ req[r].pc = "ensure")

\* Which phases an operation has, and which fields go with them.
Fields(p) ==
    /\ p.op = "run" => p.pc \in {"ensure", "resolve", "build", "running"}
    /\ p.op = "select" => p.pc \in {"ensure", "resolve", "build", "setdb"} /\ p.db # None
    /\ p.op = "open" => p.pc \in {"resolve", "visited", "build", "setconn", "setdb"}
    /\ p.op = "connect" => p.pc \in {"check", "build", "save", "enter", "setconn", "setdb"}
    /\ p.op = "add" => p.pc \in {"check", "build", "setconn", "setdb"}
    /\ p.op = "agentAdd" => p.pc \in {"check", "build"}
    /\ p.op = "remove" => p.pc \in {"owner", "rowcheck", "setconn"}
    /\ p.op = "delete" => p.pc \in {"owner", "rowcheck", "setconn", "pop", "clear"}
    /\ p.op = "disconnect" => p.pc \in {"leave", "setconn"} /\ p.name = None
    /\ p.op \in Additions => p.name # None /\ p.cfg # None
    /\ p.pc \in {"resolve", "visited", "build", "owner", "rowcheck", "pop", "clear"} => p.name # None
    /\ p.pc = "setconn" => (p.name = None <=> p.op \in {"remove", "delete", "disconnect"})
    /\ p.pc \in {"visited", "build"} => p.cfg # None
    /\ p.pc = "setdb" => p.db # None

\* The object that r has built, and has not put anywhere yet if it is connect_new.
Builds(r) ==
    /\ req[r].pc \in {"save", "enter"} \/ (req[r].pc = "setconn" /\ Name(r) # None) =>
          obj[r] # None /\ obj[r].name = Name(r)
    /\ req[r].op = "connect" /\ req[r].pc \in {"check", "build", "save", "enter"} => cache[Sid(r)] # r

\* What r has read of its session and is about to write, when nothing has disturbed it.
Exact(r) ==
    LET s == Sid(r) IN
    s \notin clash =>
       /\ req[r].op \in {"run", "select"} /\ req[r].pc \in {"resolve", "build"} =>
             Name(r) = row[s].conn /\ req[r].start = row[s].db
       /\ req[r].op = "select" /\ req[r].pc \in {"resolve", "build"} => cache[s] = None
       /\ req[r].op = "select" /\ req[r].pc = "ensure" => Agree(s) \/ Chosen(r)
       /\ req[r].pc = "setdb" => Chosen(r)
       /\ req[r].pc = "setconn" => cache[s] = None \/ (Name(r) # None /\ cache[s] = r)
       /\ req[r].pc = "setconn" /\ req[r].op = "open" /\ req[r].db # None => obj[r].db = req[r].db
       /\ \/ req[r].pc \in {"visited", "enter", "setconn"} /\ Name(r) # None
          \/ req[r].op = "open" /\ req[r].pc = "build"
          => Resolved(s, Name(r)) # None

\* The name that an addition has checked is free still, unless another one overlapped.
Reserved(r) ==
    req[r].op \in Additions /\ req[r].pc \in {"build", "save"} /\ Name(r) \notin clash =>
       ~TakenBySession(Name(r)) /\ (req[r].op # "connect" => saved[Name(r)] = None)

\* A deletion has reached the cache.
Popped(r) ==
    req[r].op = "delete" /\ req[r].pc = "clear" =>
       \A s \in Sids \ clash : cache[s] # None => obj[cache[s]].name # Name(r)

Good(r) == Fields(req[r]) /\ Builds(r) /\ Exact(r) /\ Reserved(r) /\ Popped(r)

\* Requests that overlap, and may disturb each other, are remembered.
Overlaps ==
    \A r, q \in Busy : r # q =>
       /\ Sid(r) = Sid(q) /\ ~(req[r].op = "run" /\ req[q].op = "run") => Sid(r) \in clash
       /\ req[r].op = "delete" => Sid(r) \in clash /\ Sid(q) \in clash
       /\ req[r].op \in Additions /\ req[q].op \in Additions /\ Name(r) = Name(q) => Name(r) \in clash

\* An object in the cache is one that a request of the session has built.
Mine == \A s \in Sids : cache[s] # None => req[cache[s]] # None /\ Sid(cache[s]) = s

ObjectsFit == \A o \in Reqs : obj[o] # None => obj[o].db = None \/ obj[o].db \in Lists[obj[o].cfg]

CacheFollows == \A s \in Sids \ clash : Agree(s) \/ \E r \in Busy : Sid(r) = s /\ Switching(r)

\* Who is about to see to row s, which names a connection that is gone.
SeesTo(r, s) ==
    \/ Sid(r) = s /\ req[r].pc = "setconn"
    \/ Sid(r) = s /\ req[r].pc = "rowcheck" /\ Name(r) = row[s].conn
    \/ req[r].op = "delete" /\ req[r].pc \in {"pop", "clear"} /\ Name(r) = row[s].conn

RowsFollow ==
    restarts = 0 =>
       \A s \in Sids \ clash : row[s].conn # None =>
          Resolved(s, row[s].conn) # None \/ \E r \in Busy : SeesTo(r, s)

NamesApart ==
    \A n \in Names \ clash :
       /\ \A s, t \in Sids : own[s][n] # None /\ own[t][n] # None => s = t
       /\ saved[n] # None => ~TakenBySession(n)

IInv ==
    /\ TypeOK /\ Overlaps /\ Mine /\ ObjectsFit
    /\ \A r \in Busy : Good(r)
    /\ CacheFollows /\ RowsFollow /\ NamesApart

-----------------------------------------------------------------------------
(* A step of one request: what it leaves of the others.                     *)

\* Nobody but r and its session are touched: other sessions keep their row, entry and
\* objects, names are only added by additions, and saved ones only lost to a deletion.
SessionStep(r) ==
    LET s == Sid(r) IN
    /\ UNCHANGED env
    /\ \A q \in Reqs \ {r} : req'[q] = req[q]
    /\ req'[r] # None /\ req'[r].sid = s
    /\ \/ req'[r].pc = "done"
       \/ /\ req'[r].op = req[r].op \/ (req[r].op = "open" /\ req'[r].op = "select")
          /\ req[r].op \in Additions => req'[r].name = req[r].name
    /\ \A t \in Sids \ {s} : cache'[t] = cache[t] /\ row'[t] = row[t] /\ own'[t] = own[t]
    /\ cache'[s] \in {cache[s], None, r}
    /\ \A q \in Reqs : req[q] # None /\ Sid(q) # s => obj'[q] = obj[q]
    /\ \A q \in Reqs \ {r} : obj[q] # None => obj'[q] # None /\ obj'[q].name = obj[q].name
    /\ req[r].op = "run" => row' = row
    /\ \A n \in Names : own'[s][n] # None => own[s][n] # None \/ (n = Name(r) /\ req[r].op \in Additions)
    /\ \A n \in Names : saved'[n] # None => saved[n] # None \/ (n = Name(r) /\ req[r].op \in Additions)
    /\ \A n \in Names : saved[n] # None => saved'[n] # None \/ req[r].op = "delete"

\* No saved connection is lost.
SavedStay == \A n \in Names : saved[n] # None => saved'[n] # None

LEMMA BusyFacts ==
  ASSUME TypeOK, NEW r \in Busy
  PROVE  /\ r \in Reqs /\ req[r] \in Req /\ req[r] # None /\ req[r].pc # "done"
         /\ Sid(r) \in Sids /\ req[r].op \in Ops /\ req[r].pc \in Phases
         /\ Name(r) \in Maybe(Names) /\ req[r].cfg \in Maybe(Configs)
         /\ req[r].db \in Maybe(Dbs) /\ req[r].start \in Maybe(Dbs)
  <1>1. r \in Reqs /\ req[r] # None /\ req[r].pc # "done"
    BY DEF Busy, InFlight
  <1>2. req[r] \in Req
    BY <1>1 DEF TypeOK, Maybe
  <1>3. QED
    BY <1>1, <1>2 DEF Req, Sid, Name

\* A request under way in the session of r, out of clash: both are queries.
LEMMA OthersRun ==
  ASSUME Overlaps, NEW r \in Busy, NEW q \in Busy, q # r, Sid(q) = Sid(r), Sid(r) \notin clash
  PROVE  req[r].op = "run" /\ req[q].op = "run"
  BY DEF Overlaps

LEMMA CachedFacts ==
  ASSUME TypeOK, Mine, NEW t \in Sids, cache[t] # None
  PROVE  cache[t] \in Reqs /\ req[cache[t]] # None /\ Sid(cache[t]) = t /\ obj[cache[t]] # None
  BY DEF TypeOK, Mine, Maybe

LEMMA OtherGood ==
  ASSUME TypeOK, Overlaps, Mine, NEW r \in Busy, SessionStep(r),
         NEW q \in Busy, q # r, Good(q)
  PROVE  Good(q)'
  <1> DEFINE s == Sid(r)
  <1>1. /\ r \in Reqs /\ s \in Sids /\ q \in Reqs /\ req[q] # None /\ Sid(q) \in Sids
        /\ Name(q) \in Maybe(Names)
    BY BusyFacts
  <1>2. req'[q] = req[q] /\ clash' = clash
    BY <1>1 DEF SessionStep, env
  <1>3. Fields(req[q])'
    BY <1>2 DEF Good, Fields
  <1>4. Builds(q)'
    <2>1. obj[q] # None => obj'[q] # None /\ obj'[q].name = obj[q].name
      BY <1>1 DEF SessionStep
    <2>2. cache'[Sid(q)] \in {cache[Sid(q)], None, r}
      BY <1>1 DEF SessionStep
    <2>3. Builds(q)
      BY DEF Good
    <2>4. q # None
      BY <1>1, ConnStateAssumption
    <2>5. QED
      BY <1>2, <2>1, <2>2, <2>3, <2>4 DEF Builds, Sid, Name
  <1>5. Exact(q)'
    <2>1. CASE Sid(q) \in clash
      BY <1>2, <2>1 DEF Exact, Sid
    <2>2. CASE Sid(q) \notin clash /\ Sid(q) = s
      <3>1. req[r].op = "run" /\ req[q].op = "run"
        BY <2>2, OthersRun
      <3>2. row' = row
        BY <3>1 DEF SessionStep
      <3>3. Exact(q) /\ Fields(req[q])
        BY DEF Good
      <3>4. req[q].pc \in {"ensure", "resolve", "build", "running"}
        BY <3>1, <3>3 DEF Fields
      <3>5. QED
        BY <1>2, <2>2, <3>1, <3>2, <3>3, <3>4 DEF Exact, Sid, Name
    <2>3. CASE Sid(q) \notin clash /\ Sid(q) # s
      <3> DEFINE t == Sid(q)
      <3>1. cache'[t] = cache[t] /\ row'[t] = row[t] /\ own'[t] = own[t]
        BY <1>1, <2>3 DEF SessionStep
      <3>2. obj'[q] = obj[q]
        BY <1>1, <2>3 DEF SessionStep
      <3>3. cache[t] # None => obj'[cache[t]] = obj[cache[t]]
        BY <1>1, <2>3, CachedFacts DEF SessionStep
      <3>4. req[r].op # "delete"
        BY <2>3 DEF Overlaps
      <3>5. Name(q) # None /\ Resolved(t, Name(q)) # None => Resolved(t, Name(q))' # None
        BY <1>1, <1>2, <3>1, <3>4 DEF SessionStep, Resolved, Name, Sid, Maybe
      <3>6. Exact(q)
        BY DEF Good
      <3>7. Sid(q)' = t /\ Name(q)' = Name(q)
        BY <1>2 DEF Sid, Name
      <3>8. cache[t] # None => cache'[t] # None
        BY <3>1
      <3>9. Fields(req[q])
        BY DEF Good
      <3>10. req[q].op = "open" /\ req[q].pc = "build" => Name(q) # None
        BY <3>9 DEF Fields, Name
      <3>11. (Agree(t) => Agree(t)') /\ (Chosen(q) => Chosen(q)')
        BY <1>2, <3>1, <3>3, <3>7 DEF Agree, Chosen
      <3>12. /\ Sid(q) = t /\ t \notin clash
             /\ Agree(Sid(q)) => Agree(Sid(q))'
             /\ Resolved(Sid(q), Name(q)) = Resolved(t, Name(q))
             /\ Resolved(Sid(q), Name(q))' = Resolved(t, Name(q))'
        BY <2>3, <3>7, <3>11 DEF Agree, Resolved
      <3> HIDE DEF t
      <3>13. QED
        BY <1>2, <3>1, <3>2, <3>5, <3>6, <3>7, <3>10, <3>11, <3>12 DEF Exact
    <2>4. QED
      BY <2>1, <2>2, <2>3
  <1>6. Reserved(q)'
    <2>1. SUFFICES ASSUME req[q].op \in Additions, req[q].pc \in {"build", "save"}, Name(q) \notin clash
                   PROVE  /\ \A t \in Sids : own'[t][Name(q)] = None
                          /\ req[q].op # "connect" => saved'[Name(q)] = None
      BY <1>2 DEF Reserved, TakenBySession, Name
    <2>2. ~TakenBySession(Name(q)) /\ (req[q].op # "connect" => saved[Name(q)] = None)
      BY <2>1 DEF Good, Reserved
    <2>3. ~(Name(q) = Name(r) /\ req[r].op \in Additions)
      BY <2>1 DEF Overlaps
    <2>4. Name(q) \in Names
      BY <1>1, <2>1 DEF Good, Fields, Maybe, Name
    <2>5. own'[s][Name(q)] = None
      BY <1>1, <2>2, <2>3, <2>4 DEF SessionStep, TakenBySession
    <2>6. req[q].op # "connect" => saved'[Name(q)] = None
      BY <2>2, <2>3, <2>4 DEF SessionStep
    <2>7. \A t \in Sids \ {s} : own'[t][Name(q)] = None
      BY <2>2 DEF SessionStep, TakenBySession
    <2>8. QED
      BY <2>5, <2>6, <2>7
  <1>7. Popped(q)'
    <2>1. SUFFICES ASSUME req[q].op = "delete", req[q].pc = "clear", NEW t \in Sids \ clash, cache'[t] # None
                   PROVE  obj'[cache'[t]].name # Name(q)
      BY <1>2 DEF Popped, Name
    <2>2. t # s
      BY <2>1 DEF Overlaps
    <2>3. cache'[t] = cache[t]
      BY <2>2 DEF SessionStep
    <2>4. obj'[cache[t]] = obj[cache[t]]
      BY <2>1, <2>2, <2>3, CachedFacts DEF SessionStep
    <2>5. QED
      BY <2>1, <2>3, <2>4 DEF Good, Popped
  <1>8. QED
    BY <1>3, <1>4, <1>5, <1>6, <1>7 DEF Good

\* Whoever is in flight after the step was so before, and is r or untouched.
LEMMA StillBusy ==
  ASSUME TypeOK, NEW r \in Busy, SessionStep(r), NEW q \in Busy'
  PROVE  /\ q \in Busy /\ Sid(q)' = Sid(q)
         /\ q # r => req'[q] = req[q]
         /\ q = r => req'[q].pc # "done"
  <1>1. r \in Reqs /\ q \in Reqs /\ req'[q] # None /\ req'[q].pc # "done"
    BY BusyFacts DEF Busy, InFlight
  <1>2. CASE q = r
    BY <1>1, <1>2 DEF SessionStep, Sid
  <1>3. CASE q # r
    <2>1. req'[q] = req[q]
      BY <1>1, <1>3 DEF SessionStep
    <2>2. QED
      BY <1>1, <1>3, <2>1 DEF Busy, InFlight, Sid
  <1>4. QED
    BY <1>2, <1>3

LEMMA BusyStays ==
  ASSUME NEW r \in Busy, SessionStep(r), NEW q \in Busy, q # r
  PROVE  q \in Busy' /\ req'[q] = req[q]
  <1>1. q \in Reqs /\ req'[q] = req[q]
    BY DEF SessionStep, Busy
  <1>2. QED
    BY <1>1 DEF Busy, InFlight

LEMMA OverlapsStay ==
  ASSUME TypeOK, Overlaps, NEW r \in Busy, SessionStep(r)
  PROVE  Overlaps'
  <1>1. SUFFICES ASSUME NEW p \in Busy', NEW q \in Busy', p # q
                 PROVE  (/\ Sid(p) = Sid(q) /\ ~(req[p].op = "run" /\ req[q].op = "run") => Sid(p) \in clash
                         /\ req[p].op = "delete" => Sid(p) \in clash /\ Sid(q) \in clash
                         /\ req[p].op \in Additions /\ req[q].op \in Additions /\ Name(p) = Name(q)
                              => Name(p) \in clash)'
    BY DEF Overlaps
  <1>2. /\ p \in Busy /\ q \in Busy /\ Sid(p)' = Sid(p) /\ Sid(q)' = Sid(q) /\ clash' = clash
    BY StillBusy DEF SessionStep, env
  <1>3. \A x \in {p, q} :
           /\ req'[x].op = req[x].op \/ (req[x].op = "open" /\ req'[x].op = "select")
           /\ req[x].op \in Additions => req'[x].name = req[x].name
    BY StillBusy DEF SessionStep
  <1>4. \A x \in {p, q} :
           /\ req'[x].op = "run" <=> req[x].op = "run"
           /\ req'[x].op = "delete" <=> req[x].op = "delete"
           /\ req'[x].op \in Additions => req[x].op \in Additions /\ Name(x)' = Name(x)
    BY <1>3 DEF Additions, Name
  <1>5. QED
    BY <1>1, <1>2, <1>4 DEF Overlaps

LEMMA MineStays ==
  ASSUME TypeOK, Mine, NEW r \in Busy, SessionStep(r)
  PROVE  Mine'
  <1>1. SUFFICES ASSUME NEW t \in Sids, cache'[t] # None
                 PROVE  req'[cache'[t]] # None /\ req'[cache'[t]].sid = t
    BY DEF Mine, Sid
  <1>2. r \in Reqs /\ Sid(r) \in Sids
    BY BusyFacts
  <1>3. CASE t = Sid(r) /\ cache'[t] = r
    BY <1>3 DEF SessionStep
  <1>4. CASE ~(t = Sid(r) /\ cache'[t] = r)
    <2>1. cache'[t] = cache[t]
      BY <1>1, <1>2, <1>4 DEF SessionStep
    <2>2. cache[t] \in Reqs /\ req[cache[t]] # None /\ Sid(cache[t]) = t
      BY <1>1, <2>1, CachedFacts
    <2>3. cache[t] = r => req'[r] # None /\ req'[r].sid = t
      BY <2>2 DEF SessionStep
    <2>4. cache[t] # r => req'[cache[t]] = req[cache[t]]
      BY <2>2 DEF SessionStep
    <2>5. QED
      BY <2>1, <2>2, <2>3, <2>4 DEF Sid
  <1>5. QED
    BY <1>3, <1>4

\* Another session's entry still follows its row.
LEMMA OthersFollow ==
  ASSUME TypeOK, Mine, CacheFollows, NEW r \in Busy, SessionStep(r),
         NEW t \in Sids \ clash, t # Sid(r)
  PROVE  (Agree(t) \/ \E q \in Busy : Sid(q) = t /\ Switching(q))'
  <1>1. cache'[t] = cache[t] /\ row'[t] = row[t]
    BY DEF SessionStep
  <1>2. cache[t] # None => obj'[cache[t]] = obj[cache[t]]
    BY CachedFacts DEF SessionStep
  <1>3. Agree(t) => Agree(t)'
    BY <1>1, <1>2 DEF Agree
  <1>4. ASSUME NEW q \in Busy, Sid(q) = t, Switching(q)
        PROVE  q \in Busy' /\ Sid(q)' = t /\ Switching(q)'
    BY <1>4, BusyStays DEF Switching, Sid
  <1>5. QED
    BY <1>3, <1>4 DEF CacheFollows

LEMMA OthersSeen ==
  ASSUME TypeOK, RowsFollow, NEW r \in Busy, SessionStep(r), SavedStay, restarts = 0,
         ~(req[r].op = "delete" /\ req[r].pc \in {"pop", "clear"}),
         NEW t \in Sids \ clash, t # Sid(r), row'[t].conn # None
  PROVE  (Resolved(t, row[t].conn) # None \/ \E q \in Busy : SeesTo(q, t))'
  <1>1. row'[t] = row[t] /\ own'[t] = own[t] /\ row[t].conn \in Names
    BY DEF SessionStep, TypeOK, Row, Maybe
  <1>2. Resolved(t, row[t].conn) # None => (Resolved(t, row[t].conn) # None)'
    BY <1>1 DEF Resolved, SavedStay
  <1>3. ASSUME NEW q \in Busy, SeesTo(q, t)
        PROVE  q \in Busy' /\ SeesTo(q, t)'
    <2>1. q # r
      BY <1>3 DEF SeesTo
    <2>2. q \in Busy' /\ req'[q] = req[q]
      BY <2>1, BusyStays
    <2>3. QED
      BY <1>1, <1>3, <2>2 DEF SeesTo, Sid, Name
  <1>4. QED
    BY <1>1, <1>2, <1>3 DEF RowsFollow

LEMMA NamesStayApart ==
  ASSUME TypeOK, NamesApart, UNCHANGED clash,
         \A t \in Sids, n \in Names : own'[t][n] # None => own[t][n] # None,
         \A n \in Names : saved'[n] # None => saved[n] # None
  PROVE  NamesApart'
  BY DEF NamesApart, TakenBySession

-----------------------------------------------------------------------------
(* What is known of the session of r, and what a step of r has to show.     *)

LEMMA SessionBefore ==
  ASSUME IInv, NEW r \in Busy, Sid(r) \notin clash
  PROVE  Agree(Sid(r)) \/ Switching(r)
  <1>1. Sid(r) \in Sids
    BY BusyFacts DEF IInv
  <1>2. ASSUME NEW q \in Busy, Sid(q) = Sid(r), Switching(q), q # r
        PROVE  FALSE
    <2>1. req[q].op = "run" /\ Fields(req[q])
      BY <1>2, OthersRun DEF IInv, Good
    <2>2. QED
      BY <1>2, <2>1 DEF Switching, Fields
  <1>3. QED
    BY <1>1, <1>2 DEF IInv, CacheFollows

LEMMA RowBefore ==
  ASSUME IInv, NEW r \in Busy, Sid(r) \notin clash, restarts = 0, row[Sid(r)].conn # None
  PROVE  Resolved(Sid(r), row[Sid(r)].conn) # None \/ SeesTo(r, Sid(r))
  <1>1. Sid(r) \in Sids
    BY BusyFacts DEF IInv
  <1>2. ASSUME NEW q \in Busy, SeesTo(q, Sid(r)), q # r
        PROVE  FALSE
    <2>1. req[q].op # "delete"
      BY <1>2 DEF IInv, Overlaps
    <2>2. Sid(q) = Sid(r) /\ req[q].pc \in {"setconn", "rowcheck"}
      BY <1>2, <2>1 DEF SeesTo
    <2>3. req[q].op = "run" /\ Fields(req[q])
      BY <1>2, <2>2, OthersRun DEF IInv, Good
    <2>4. QED
      BY <2>2, <2>3 DEF Fields
  <1>3. QED
    BY <1>1, <1>2 DEF IInv, RowsFollow

\* The entry of r's session follows the row after the step, or r goes on with it.
Follows(r) == Sid(r) \notin clash => Agree(Sid(r)) \/ (r \in Busy /\ Switching(r))

\* The row of r's session names a connection after the step, or r sees to it.
Seen(r) ==
    Sid(r) \notin clash /\ restarts = 0 /\ row[Sid(r)].conn # None =>
        Resolved(Sid(r), row[Sid(r)].conn) # None \/ (r \in Busy /\ SeesTo(r, Sid(r)))

LEMMA RowsStay ==
  ASSUME IInv, NEW r \in Busy, SessionStep(r), SavedStay, Seen(r)',
         ~(req[r].op = "delete" /\ req[r].pc \in {"pop", "clear"})
  PROVE  RowsFollow'
  <1>1. SUFFICES ASSUME restarts = 0, NEW t \in Sids \ clash, row'[t].conn # None
                 PROVE  (Resolved(t, row[t].conn) # None \/ \E q \in Busy : SeesTo(q, t))'
    BY DEF RowsFollow, SessionStep, env
  <1>2. Sid(r)' = Sid(r) /\ clash' = clash /\ restarts' = restarts
    BY DEF SessionStep, env, Sid
  <1>3. CASE t = Sid(r)
    BY <1>1, <1>2, <1>3 DEF Seen
  <1>4. CASE t # Sid(r)
    BY <1>1, <1>4, OthersSeen DEF IInv
  <1>5. QED
    BY <1>3, <1>4

LEMMA StepKeeps ==
  ASSUME IInv, NEW r \in Busy, SessionStep(r), TypeOK', ObjectsFit', NamesApart', RowsFollow',
         r \in Busy' => Good(r)', Follows(r)'
  PROVE  IInv'
  <1>1. Overlaps' /\ Mine'
    BY OverlapsStay, MineStays DEF IInv
  <1>2. ASSUME NEW q \in Busy' PROVE Good(q)'
    <2>1. q \in Busy
      BY StillBusy DEF IInv
    <2>2. QED
      BY <2>1, OtherGood DEF IInv
  <1>3. CacheFollows'
    <2>1. SUFFICES ASSUME NEW t \in Sids \ clash
                   PROVE  (Agree(t) \/ \E q \in Busy : Sid(q) = t /\ Switching(q))'
      BY DEF CacheFollows, SessionStep, env
    <2>2. Sid(r)' = Sid(r) /\ clash' = clash
      BY DEF SessionStep, env, Sid
    <2>3. CASE t = Sid(r)
      BY <2>1, <2>2, <2>3 DEF Follows
    <2>4. CASE t # Sid(r)
      BY <2>1, <2>4, OthersFollow DEF IInv
    <2>5. QED
      BY <2>3, <2>4
  <1>4. QED
    BY <1>1, <1>2, <1>3 DEF IInv

-----------------------------------------------------------------------------
(* What a step does to the local variables of its request.                  *)

\* r goes on, or is done; no other request moves.
Moved(r) ==
    /\ req' \in [Reqs -> Maybe(Req)] /\ req'[r] \in Req /\ req'[r] # None /\ req'[r].sid = Sid(r)
    /\ \A q \in Reqs \ {r} : req'[q] = req[q]

LEMMA MovedFacts ==
  ASSUME TypeOK, NEW r \in Busy, NEW p \in Req, p.sid = Sid(r), req' = [req EXCEPT ![r] = p]
  PROVE  Moved(r) /\ req'[r] = p
  <1>1. r \in Reqs /\ req \in [Reqs -> Maybe(Req)]
    BY BusyFacts DEF TypeOK
  <1>2. p # None
    BY NoneAssumption
  <1>3. QED
    BY <1>1, <1>2 DEF Moved, Maybe

LEMMA GoFacts ==
  ASSUME TypeOK, NEW r \in Busy, NEW pc \in Phases, Go(r, pc)
  PROVE  /\ Moved(r) /\ req'[r].pc = pc /\ req'[r].op = req[r].op /\ req'[r].name = req[r].name
         /\ req'[r].cfg = req[r].cfg /\ req'[r].db = req[r].db /\ req'[r].start = req[r].start
  <1>1. r \in Reqs /\ req[r] \in Req
    BY BusyFacts
  <1>2. PICK p : p = [req[r] EXCEPT !.pc = pc]
    OBVIOUS
  <1>3. /\ p \in Req /\ p.pc = pc /\ p.op = req[r].op /\ p.name = req[r].name
        /\ p.cfg = req[r].cfg /\ p.db = req[r].db /\ p.start = req[r].start /\ p.sid = Sid(r)
    BY <1>1, <1>2 DEF Req, Sid
  <1>4. req' = [req EXCEPT ![r] = p]
    BY <1>2 DEF Go
  <1>5. QED
    BY <1>3, <1>4, MovedFacts

LEMMA FinishFacts ==
  ASSUME TypeOK, NEW r \in Busy, Finish(r)
  PROVE  Moved(r) /\ req'[r].pc = "done" /\ r \notin Busy'
  <1>1. r \in Reqs /\ Sid(r) \in Sids
    BY BusyFacts
  <1>2. PICK p : p = Done(Sid(r))
    OBVIOUS
  <1>3. p \in Req /\ p.pc = "done" /\ p.sid = Sid(r)
    BY <1>1, <1>2 DEF Req, Done, Ops, Phases, Maybe
  <1>4. req' = [req EXCEPT ![r] = p]
    BY <1>2 DEF Finish
  <1>5. Moved(r) /\ req'[r].pc = "done"
    BY <1>3, <1>4, MovedFacts
  <1>6. QED
    BY <1>5 DEF Busy, InFlight

\* r goes on as the same operation; open_saved goes on as select_database.
SameOp(r) ==
    \/ req'[r].pc = "done"
    \/ /\ req'[r].op = req[r].op \/ (req[r].op = "open" /\ req'[r].op = "select")
       /\ req[r].op \in Additions => req'[r].name = req[r].name

\* A step of r that only changes its local variables.
LEMMA QuietStep ==
  ASSUME IInv, NEW r \in Busy, Moved(r), SameOp(r), UNCHANGED <<tables, cache, obj, env>>
  PROVE  TypeOK' /\ SessionStep(r) /\ SavedStay /\ ObjectsFit' /\ NamesApart'
  <1>1. TypeOK /\ NamesApart /\ ObjectsFit
    BY DEF IInv
  <1>2. TypeOK'
    BY <1>1 DEF TypeOK, Moved, tables, env
  <1>3. SessionStep(r)
    BY DEF SessionStep, Moved, SameOp, tables, env
  <1>4. NamesApart'
    BY <1>1, NamesStayApart DEF tables, env
  <1>5. ObjectsFit' /\ SavedStay
    BY <1>1 DEF ObjectsFit, SavedStay, tables
  <1>6. QED
    BY <1>2, <1>3, <1>4, <1>5

LEMMA SidStays ==
  ASSUME NEW r \in Busy, SessionStep(r)
  PROVE  Sid(r)' = Sid(r) /\ clash' = clash /\ restarts' = restarts
  BY DEF SessionStep, env, Sid

\* A step that leaves the entry, its object and the row of r's session.
LEMMA StillFollows ==
  ASSUME IInv, NEW r \in Busy, SessionStep(r), UNCHANGED <<row, cache>>,
         cache[Sid(r)] # None => obj'[cache[Sid(r)]] = obj[cache[Sid(r)]],
         ~Switching(r)
  PROVE  Follows(r)'
  BY SidStays, SessionBefore DEF Follows, Agree

\* ... and the names of the session and the row.
LEMMA StillSeen ==
  ASSUME IInv, NEW r \in Busy, SessionStep(r), SavedStay, row'[Sid(r)].conn = row[Sid(r)].conn,
         \A n \in Names : own[Sid(r)][n] # None => own'[Sid(r)][n] # None,
         Sid(r) \notin clash => ~SeesTo(r, Sid(r))
  PROVE  Seen(r)'
  <1>1. SUFFICES ASSUME Sid(r) \notin clash, restarts = 0, row[Sid(r)].conn # None
                 PROVE  Resolved(Sid(r), row[Sid(r)].conn)' # None
    BY SidStays DEF Seen
  <1>2. Sid(r) \in Sids
    BY BusyFacts DEF IInv
  <1>3. row[Sid(r)].conn \in Names
    BY <1>1, <1>2 DEF IInv, TypeOK, Row, Maybe
  <1>4. Resolved(Sid(r), row[Sid(r)].conn) # None
    BY <1>1, RowBefore
  <1>5. QED
    BY <1>3, <1>4, SidStays DEF Resolved, SavedStay

LEMMA JustFinishes ==
  ASSUME IInv, NEW r \in Busy, Finish(r), UNCHANGED <<tables, cache, obj, env>>,
         ~Switching(r), ~SeesTo(r, Sid(r)),
         ~(req[r].op = "delete" /\ req[r].pc \in {"pop", "clear"})
  PROVE  IInv'
  <1>1. Moved(r) /\ SameOp(r) /\ r \notin Busy'
    BY FinishFacts DEF IInv, SameOp
  <1>2. TypeOK' /\ SessionStep(r) /\ SavedStay /\ ObjectsFit' /\ NamesApart'
    BY <1>1, QuietStep
  <1>3. Follows(r)'
    BY <1>2, StillFollows DEF tables
  <1>4. Seen(r)'
    BY <1>2, StillSeen DEF tables
  <1>5. RowsFollow'
    BY <1>2, <1>4, RowsStay
  <1>6. QED
    BY <1>1, <1>2, <1>3, <1>5, StepKeeps

LEMMA ReplyKeeps ==
  ASSUME IInv, NEW r \in Busy, Reply(r)
  PROVE  IInv'
  <1>1. Finish(r) /\ req[r].pc = "running" /\ UNCHANGED <<tables, cache, obj, env>>
    BY DEF Reply, At
  <1>2. ~Switching(r) /\ ~SeesTo(r, Sid(r)) /\ ~(req[r].op = "delete" /\ req[r].pc \in {"pop", "clear"})
    BY <1>1 DEF Switching, SeesTo
  <1>3. QED
    BY <1>1, <1>2, JustFinishes

LEMMA VisitedKeeps ==
  ASSUME IInv, NEW r \in Busy, Visited(r)
  PROVE  IInv'
  <1>1. /\ req[r].pc = "visited" /\ req[r].op = "open" /\ Name(r) \in Names /\ req[r].cfg # None
        /\ Sid(r) \in Sids /\ Good(r) /\ UNCHANGED <<tables, cache, obj, env>>
    <2>1. req[r].pc = "visited" /\ Good(r)
      BY DEF Visited, At, IInv
    <2>2. req[r].op = "open" /\ Name(r) # None /\ req[r].cfg # None
      BY <2>1, BusyFacts DEF Good, Fields, Name, IInv, Ops, Additions
    <2>3. QED
      BY <2>1, <2>2, BusyFacts DEF IInv, Maybe, Visited
  <1>2. PICK d \in Maybe(Dbs) : req' = [req EXCEPT ![r].pc = "build", ![r].start = d]
    <2>1. row[Sid(r)].visited[Name(r)] \in Maybe(Dbs)
      BY <1>1 DEF IInv, TypeOK, Row
    <2>2. QED
      BY <2>1, BusyFacts DEF Visited, IInv
  <1>3. PICK p : p = [req[r] EXCEPT !.pc = "build", !.start = d]
    OBVIOUS
  <1>4. /\ p \in Req /\ p.pc = "build" /\ p.op = "open" /\ p.name = Name(r)
        /\ p.cfg = req[r].cfg /\ p.sid = Sid(r) /\ p.db = req[r].db
    BY <1>1, <1>2, <1>3, BusyFacts DEF Req, Sid, Name, IInv, Phases
  <1>5. req' = [req EXCEPT ![r] = p]
    BY <1>2, <1>3
  <1>6. Moved(r) /\ req'[r] = p
    BY <1>4, <1>5, MovedFacts DEF IInv
  <1>7. TypeOK' /\ SessionStep(r) /\ SavedStay /\ ObjectsFit' /\ NamesApart'
    BY <1>1, <1>4, <1>6, QuietStep DEF SameOp, Additions
  <1>8. ~Switching(r) /\ ~SeesTo(r, Sid(r))
    BY <1>1 DEF Switching, SeesTo
  <1>9. Follows(r)' /\ Seen(r)'
    BY <1>1, <1>7, <1>8, StillFollows, StillSeen DEF tables
  <1>10. Good(r)'
    <2>0. req'[r].op = "open" /\ req'[r].pc = "build" /\ Name(r)' = Name(r) /\ Sid(r)' = Sid(r)
      BY <1>4, <1>6 DEF Name, Sid
    <2>1. Builds(r)' /\ Reserved(r)' /\ Popped(r)'
      BY <2>0 DEF Builds, Reserved, Popped, Additions
    <2>4. Fields(req'[r])
      BY <1>1, <1>4, <1>6, <2>0, ConnStateAssumption DEF Fields, Additions
    <2>5. Resolved(Sid(r), Name(r))' = Resolved(Sid(r), Name(r)) /\ clash' = clash
      BY <1>1, <2>0 DEF Resolved, tables, env
    <2>6. Sid(r) \notin clash => Resolved(Sid(r), Name(r)) # None
      BY <1>1, ConnStateAssumption DEF Good, Exact
    <2>2. Exact(r)'
      BY <2>0, <2>5, <2>6 DEF Exact
    <2>3. QED
      BY <2>1, <2>2, <2>4 DEF Good
  <1>11. QED
    BY <1>1, <1>7, <1>9, <1>10, RowsStay, StepKeeps

LEMMA CheckKeeps ==
  ASSUME IInv, NEW r \in Busy, Check(r)
  PROVE  IInv'
  <1>1. req[r].pc = "check" /\ Good(r) /\ UNCHANGED <<tables, cache, obj, env>>
    BY DEF Check, At, IInv
  <1>2. req[r].op \in Additions /\ Name(r) # None /\ req[r].cfg # None
    BY <1>1, BusyFacts DEF Good, Fields, Name, IInv, Ops, Additions
  <1>3. ~Switching(r) /\ ~SeesTo(r, Sid(r)) /\ req[r].op # "delete"
    BY <1>1, <1>2 DEF Switching, SeesTo, Additions
  <1>4. CASE Finish(r)
    BY <1>1, <1>3, <1>4, JustFinishes
  <1>5. CASE /\ ~TakenBySession(Name(r)) /\ (req[r].op = "connect" \/ saved[Name(r)] = None)
             /\ Go(r, "build")
    <2>1. /\ Moved(r) /\ req'[r].pc = "build" /\ req'[r].op = req[r].op /\ req'[r].name = Name(r)
          /\ req'[r].cfg = req[r].cfg /\ req'[r].sid = Sid(r)
      BY <1>5, GoFacts DEF IInv, Phases, Moved, Name
    <2>2. TypeOK' /\ SessionStep(r) /\ SavedStay /\ ObjectsFit' /\ NamesApart'
      BY <1>1, <2>1, QuietStep DEF SameOp, Name
    <2>3. Follows(r)' /\ Seen(r)'
      BY <1>1, <1>3, <2>2, StillFollows, StillSeen DEF tables
    <2>4. Good(r)'
      <3>1. Fields(req[r])' /\ Popped(r)' /\ Exact(r)'
        BY <1>2, <2>1 DEF Fields, Popped, Exact, Name, Additions
      <3>2. Builds(r)'
        BY <1>1, <1>2, <2>1 DEF Good, Builds, Name, Sid
      <3>3. Reserved(r)'
        BY <1>1, <1>5, <2>1 DEF Reserved, TakenBySession, Name, tables
      <3>4. QED
        BY <3>1, <3>2, <3>3 DEF Good
    <2>5. QED
      BY <1>3, <2>2, <2>3, <2>4, RowsStay, StepKeeps
  <1>6. QED
    BY <1>4, <1>5 DEF Check

LEMMA SaveConnectionKeeps ==
  ASSUME IInv, NEW r \in Busy, SaveConnection(r)
  PROVE  IInv'
  <1>1. /\ req[r].pc = "save" /\ Good(r) /\ Go(r, "enter") /\ saved' = [saved EXCEPT ![Name(r)] = req[r].cfg]
        /\ UNCHANGED <<own, row, cache, obj, env>>
    BY DEF SaveConnection, At, IInv
  <1>2. req[r].op = "connect" /\ Name(r) \in Names /\ req[r].cfg \in Configs /\ req[r].cfg # None
    BY <1>1, BusyFacts DEF Good, Fields, Name, IInv, Ops, Additions, Maybe
  <1>3. ~Switching(r) /\ ~SeesTo(r, Sid(r))
    BY <1>1, <1>2 DEF Switching, SeesTo
  <1>4. /\ Moved(r) /\ req'[r].pc = "enter" /\ req'[r].op = "connect" /\ req'[r].name = Name(r)
        /\ req'[r].cfg = req[r].cfg /\ req'[r].sid = Sid(r)
    BY <1>1, <1>2, GoFacts DEF IInv, Phases, Moved, Name
  <1>5. /\ saved' \in [Names -> Maybe(Configs)] /\ saved'[Name(r)] # None
        /\ \A n \in Names \ {Name(r)} : saved'[n] = saved[n]
    BY <1>1, <1>2 DEF IInv, TypeOK, Maybe
  <1>6. TypeOK'
    BY <1>1, <1>4, <1>5 DEF IInv, TypeOK, Moved, env
  <1>7. SessionStep(r) /\ SavedStay
    BY <1>1, <1>2, <1>4, <1>5 DEF SessionStep, Moved, SavedStay, Additions, Name
  <1>8. ObjectsFit'
    BY <1>1 DEF IInv, ObjectsFit
  <1>9. NamesApart'
    <2>1. SUFFICES ASSUME NEW n \in Names \ clash
                   PROVE  /\ \A s, t \in Sids : own[s][n] # None /\ own[t][n] # None => s = t
                          /\ saved'[n] # None => ~TakenBySession(n)
      BY <1>1 DEF NamesApart, TakenBySession, env
    <2>2. n = Name(r) => ~TakenBySession(n)
      BY <1>1, <1>2 DEF Good, Reserved, Additions
    <2>3. QED
      BY <1>5, <2>2 DEF IInv, NamesApart
  <1>10. Follows(r)' /\ Seen(r)'
    BY <1>1, <1>3, <1>7, StillFollows, StillSeen
  <1>11. Good(r)'
    <2>1. Fields(req[r])' /\ Popped(r)' /\ Reserved(r)'
      BY <1>2, <1>4, ConnStateAssumption DEF Fields, Popped, Reserved, Name, Additions
    <2>2. Builds(r)'
      BY <1>1, <1>2, <1>4 DEF Good, Builds, Name, Sid
    <2>3. Exact(r)'
      <3>1. req'[r].op = "connect" /\ req'[r].pc = "enter"
        BY <1>4
      <3>2. Resolved(Sid(r), Name(r))' # None
        BY <1>4, <1>5 DEF Resolved, Name, Sid
      <3>3. QED
        BY <3>1, <3>2 DEF Exact
    <2>4. QED
      BY <2>1, <2>2, <2>3 DEF Good
  <1>12. QED
    BY <1>2, <1>6, <1>7, <1>8, <1>9, <1>10, <1>11, RowsStay, StepKeeps

\* A step that changes only the entry of r's session, to an object of r or to none.
LEMMA EntryStep ==
  ASSUME IInv, NEW r \in Busy, Moved(r), SameOp(r), UNCHANGED <<tables, obj, env>>,
         NEW o, o = None \/ (o = r /\ obj[r] # None), cache' = [cache EXCEPT ![Sid(r)] = o]
  PROVE  /\ TypeOK' /\ SessionStep(r) /\ SavedStay /\ ObjectsFit' /\ NamesApart'
         /\ cache'[Sid(r)] = o
  <1>1. /\ TypeOK /\ NamesApart /\ ObjectsFit /\ r \in Reqs /\ Sid(r) \in Sids
        /\ cache \in [Sids -> Maybe(Reqs)]
    BY BusyFacts DEF IInv, TypeOK
  <1>2. /\ cache' \in [Sids -> Maybe(Reqs)] /\ cache'[Sid(r)] = o
        /\ \A t \in Sids \ {Sid(r)} : cache'[t] = cache[t]
    BY <1>1 DEF Maybe
  <1>3. TypeOK'
    BY <1>1, <1>2 DEF TypeOK, Moved, tables, env
  <1>4. SessionStep(r)
    BY <1>2 DEF SessionStep, Moved, SameOp, tables, env
  <1>5. NamesApart'
    BY <1>1, NamesStayApart DEF tables, env
  <1>6. ObjectsFit' /\ SavedStay
    BY <1>1 DEF ObjectsFit, SavedStay, tables
  <1>7. QED
    BY <1>2, <1>3, <1>4, <1>5, <1>6

\* r is about to write the row.
LEMMA AtSetConnection ==
  ASSUME NEW r \in Busy, SessionStep(r), req'[r].pc = "setconn"
  PROVE  r \in Busy' /\ Follows(r)' /\ Seen(r)'
  <1>1. r \in Busy'
    BY DEF Busy, InFlight, SessionStep
  <1>2. Sid(r)' = Sid(r) /\ Switching(r)' /\ SeesTo(r, Sid(r))'
    BY SidStays DEF Switching, SeesTo
  <1>3. QED
    BY <1>1, <1>2 DEF Follows, Seen

LEMMA EnterKeeps ==
  ASSUME IInv, NEW r \in Busy, Enter(r)
  PROVE  IInv'
  <1>1. /\ req[r].pc = "enter" /\ Good(r) /\ Go(r, "setconn") /\ cache' = [cache EXCEPT ![Sid(r)] = r]
        /\ UNCHANGED <<tables, obj, env>>
    BY DEF Enter, At, IInv
  <1>2. /\ req[r].op = "connect" /\ Name(r) # None /\ req[r].cfg # None
        /\ obj[r] # None /\ obj[r].name = Name(r)
    BY <1>1, BusyFacts DEF Good, Fields, Builds, Name, IInv, Ops, Additions
  <1>3. /\ Moved(r) /\ req'[r].pc = "setconn" /\ req'[r].op = "connect" /\ req'[r].name = Name(r)
        /\ req'[r].cfg = req[r].cfg /\ req'[r].sid = Sid(r)
    BY <1>1, <1>2, GoFacts DEF IInv, Phases, Moved, Name
  <1>4. /\ TypeOK' /\ SessionStep(r) /\ SavedStay /\ ObjectsFit' /\ NamesApart'
        /\ cache'[Sid(r)] = r
    BY <1>1, <1>2, <1>3, EntryStep DEF SameOp, Name
  <1>5. Follows(r)' /\ Seen(r)'
    BY <1>3, <1>4, AtSetConnection
  <1>6. Good(r)'
    <2>1. Fields(req[r])' /\ Popped(r)' /\ Reserved(r)' /\ Builds(r)'
      BY <1>1, <1>2, <1>3 DEF Fields, Popped, Reserved, Builds, Name, Additions
    <2>2. Resolved(Sid(r), Name(r))' = Resolved(Sid(r), Name(r)) /\ clash' = clash
          /\ Name(r)' = Name(r) /\ Sid(r)' = Sid(r)
      BY <1>1, <1>3 DEF Resolved, tables, env, Name, Sid
    <2>3. Sid(r) \notin clash => Resolved(Sid(r), Name(r)) # None
      BY <1>1, <1>2 DEF Good, Exact
    <2>4. Exact(r)'
      BY <1>2, <1>3, <1>4, <2>2, <2>3 DEF Exact
    <2>5. QED
      BY <2>1, <2>4 DEF Good
  <1>7. QED
    BY <1>1, <1>2, <1>4, <1>5, <1>6, RowsStay, StepKeeps

LEMMA LeaveKeeps ==
  ASSUME IInv, NEW r \in Busy, Leave(r)
  PROVE  IInv'
  <1>1. /\ req[r].pc = "leave" /\ Good(r) /\ Go(r, "setconn") /\ cache' = [cache EXCEPT ![Sid(r)] = None]
        /\ UNCHANGED <<tables, obj, env>>
    BY DEF Leave, At, IInv
  <1>2. req[r].op = "disconnect" /\ Name(r) = None
    BY <1>1, BusyFacts DEF Good, Fields, Name, IInv, Ops, Additions
  <1>3. /\ Moved(r) /\ req'[r].pc = "setconn" /\ req'[r].op = "disconnect" /\ req'[r].name = None
        /\ req'[r].sid = Sid(r)
    BY <1>1, <1>2, GoFacts DEF IInv, Phases, Moved, Name
  <1>4. /\ TypeOK' /\ SessionStep(r) /\ SavedStay /\ ObjectsFit' /\ NamesApart'
        /\ cache'[Sid(r)] = None
    BY <1>1, <1>2, <1>3, EntryStep DEF SameOp, Additions
  <1>5. Follows(r)' /\ Seen(r)'
    BY <1>3, <1>4, AtSetConnection
  <1>6. Good(r)'
    <2>1. Fields(req[r])' /\ Popped(r)' /\ Reserved(r)' /\ Builds(r)'
      BY <1>3 DEF Fields, Popped, Reserved, Builds, Name, Additions
    <2>2. Name(r)' = None /\ Sid(r)' = Sid(r)
      BY <1>3 DEF Name, Sid
    <2>4. Exact(r)'
      BY <1>3, <1>4, <2>2 DEF Exact
    <2>5. QED
      BY <2>1, <2>4 DEF Good
  <1>7. QED
    BY <1>1, <1>2, <1>4, <1>5, <1>6, RowsStay, StepKeeps

LEMMA RowCheckKeeps ==
  ASSUME IInv, NEW r \in Busy, RowCheck(r)
  PROVE  IInv'
  <1>1. req[r].pc = "rowcheck" /\ Good(r) /\ UNCHANGED <<tables, obj, env>>
    BY DEF RowCheck, At, IInv
  <1>2. req[r].op \in {"remove", "delete"}
    BY <1>1, BusyFacts DEF Good, Fields, Name, IInv, Ops, Additions
  <1>3. CASE row[Sid(r)].conn # Name(r) /\ Finish(r) /\ UNCHANGED cache
    <2>1. ~Switching(r) /\ ~SeesTo(r, Sid(r))
      BY <1>1, <1>2, <1>3 DEF Switching, SeesTo
    <2>2. QED
      BY <1>1, <1>3, <2>1, JustFinishes
  <1>4. CASE /\ cache' = [cache EXCEPT ![Sid(r)] = None]
             /\ req' = [req EXCEPT ![r].pc = "setconn", ![r].name = None]
    <2>1. PICK p : p = [req[r] EXCEPT !.pc = "setconn", !.name = None]
      OBVIOUS
    <2>2. p \in Req /\ p.pc = "setconn" /\ p.op = req[r].op /\ p.name = None /\ p.sid = Sid(r)
      BY <2>1, BusyFacts DEF Req, Sid, IInv, Phases, Maybe
    <2>3. req' = [req EXCEPT ![r] = p]
      BY <1>4, <2>1
    <2>4. Moved(r) /\ req'[r] = p
      BY <2>2, <2>3, MovedFacts DEF IInv
    <2>5. /\ TypeOK' /\ SessionStep(r) /\ SavedStay /\ ObjectsFit' /\ NamesApart'
          /\ cache'[Sid(r)] = None
      BY <1>1, <1>2, <1>4, <2>2, <2>4, EntryStep DEF SameOp, Additions
    <2>6. Follows(r)' /\ Seen(r)'
      BY <2>2, <2>4, <2>5, AtSetConnection
    <2>7. Good(r)'
      <3>1. Fields(req[r])' /\ Popped(r)' /\ Reserved(r)' /\ Builds(r)'
        BY <1>2, <2>2, <2>4 DEF Fields, Popped, Reserved, Builds, Name, Additions
      <3>2. Name(r)' = None /\ Sid(r)' = Sid(r)
        BY <2>2, <2>4 DEF Name, Sid
      <3>3. Exact(r)'
        BY <1>2, <2>2, <2>4, <2>5, <3>2 DEF Exact
      <3>4. QED
        BY <3>1, <3>3 DEF Good
    <2>8. QED
      BY <1>1, <2>5, <2>6, <2>7, RowsStay, StepKeeps
  <1>5. QED
    BY <1>3, <1>4 DEF RowCheck

\* A step that changes only the row of r's session.
LEMMA RowStep ==
  ASSUME IInv, NEW r \in Busy, Moved(r), SameOp(r), req[r].op # "run",
         UNCHANGED <<saved, own, cache, obj, clash, restarts>>,
         NEW p \in Row, row' = [row EXCEPT ![Sid(r)] = p]
  PROVE  /\ TypeOK' /\ SessionStep(r) /\ SavedStay /\ ObjectsFit' /\ NamesApart'
         /\ row'[Sid(r)] = p
  <1>1. /\ TypeOK /\ NamesApart /\ ObjectsFit /\ r \in Reqs /\ Sid(r) \in Sids
        /\ row \in [Sids -> Row]
    BY BusyFacts DEF IInv, TypeOK
  <1>2. /\ row' \in [Sids -> Row] /\ row'[Sid(r)] = p
        /\ \A t \in Sids \ {Sid(r)} : row'[t] = row[t]
    BY <1>1
  <1>3. TypeOK'
    BY <1>1, <1>2 DEF TypeOK, Moved
  <1>4. SessionStep(r)
    BY <1>2 DEF SessionStep, Moved, SameOp, env
  <1>5. NamesApart'
    BY <1>1, NamesStayApart
  <1>6. ObjectsFit' /\ SavedStay
    BY <1>1 DEF ObjectsFit, SavedStay
  <1>7. QED
    BY <1>2, <1>3, <1>4, <1>5, <1>6

\* What the row says once r has written it; obj[r], if any, is what is cached.
LEMMA SetConnectionFacts ==
  ASSUME IInv, NEW r \in Busy, SetConnection(r)
  PROVE  /\ req[r].pc = "setconn" /\ Good(r) /\ UNCHANGED <<saved, own, cache, obj, clash, restarts>>
         /\ \E p \in Row : /\ row' = [row EXCEPT ![Sid(r)] = p]
                           /\ p.conn = Name(r) /\ p.db = None
         /\ req[r].op # "run" /\ Sid(r) \in Sids
         /\ Name(r) # None => obj[r] # None /\ obj[r].name = Name(r) /\ obj[r] \in Obj
         /\ Sid(r) \notin clash => cache[Sid(r)] = None \/ (Name(r) # None /\ cache[Sid(r)] = r)
         /\ Sid(r) \notin clash /\ Name(r) # None => Resolved(Sid(r), Name(r)) # None
         /\ ~(req[r].op = "delete" /\ req[r].pc \in {"pop", "clear"})
  <1>1. req[r].pc = "setconn" /\ Good(r) /\ UNCHANGED <<saved, own, cache, obj, clash, restarts>>
    BY DEF SetConnection, At, IInv
  <1>2. r \in Reqs /\ Sid(r) \in Sids /\ Name(r) \in Maybe(Names) /\ row \in [Sids -> Row]
    BY BusyFacts DEF IInv, TypeOK
  <1>3. PICK p : p = [row[Sid(r)] EXCEPT !.conn = Name(r), !.db = None]
    OBVIOUS
  <1>4. p \in Row /\ p.conn = Name(r) /\ p.db = None
    BY <1>2, <1>3 DEF Row, Maybe
  <1>5. row' = [row EXCEPT ![Sid(r)] = p]
    BY <1>2, <1>3 DEF SetConnection
  <1>6. Name(r) # None => obj[r] # None /\ obj[r].name = Name(r) /\ obj[r] \in Obj
    BY <1>1, <1>2 DEF Good, Builds, IInv, TypeOK, Maybe
  <1>7. req[r].op # "run"
    BY <1>1 DEF Good, Fields
  <1>8. QED
    BY <1>1, <1>2, <1>4, <1>5, <1>6, <1>7 DEF Good, Exact

\* After set_connection, the row names what r's object was built for.
LEMMA SetConnectionSeen ==
  ASSUME IInv, NEW r \in Busy, SetConnection(r), SessionStep(r), row'[Sid(r)].conn = Name(r)
  PROVE  Seen(r)'
  <1>1. PICK s, n : s = Sid(r) /\ n = Name(r)
    OBVIOUS
  <1>2. Resolved(s, n)' = Resolved(s, n)
    BY SetConnectionFacts DEF Resolved
  <1>3. s \notin clash /\ n # None => Resolved(s, n) # None
    BY <1>1, SetConnectionFacts
  <1>4. Sid(r)' = s /\ clash' = clash /\ row'[s].conn = n
    BY <1>1, SidStays
  <1>5. QED
    BY <1>2, <1>3, <1>4 DEF Seen

LEMMA SetConnectionKeeps ==
  ASSUME IInv, NEW r \in Busy, SetConnection(r)
  PROVE  IInv'
  <1>1. PICK p \in Row : row' = [row EXCEPT ![Sid(r)] = p] /\ p.conn = Name(r) /\ p.db = None
    BY SetConnectionFacts
  <1>2. PICK d : d = IF Name(r) = None THEN None ELSE obj[r].db
    OBVIOUS
  <1>3. d \in Maybe(Dbs) /\ (d # None => Name(r) # None /\ obj[r].db = d /\ d \in Lists[obj[r].cfg])
    BY <1>2, SetConnectionFacts DEF Obj, Maybe, IInv, ObjectsFit, Busy
  <1>4. CASE d = None /\ Finish(r)
    <2>1. Moved(r) /\ SameOp(r) /\ r \notin Busy'
      BY <1>4, FinishFacts DEF IInv, SameOp
    <2>2. /\ TypeOK' /\ SessionStep(r) /\ SavedStay /\ ObjectsFit' /\ NamesApart'
          /\ row'[Sid(r)] = p
      BY <1>1, <2>1, RowStep, SetConnectionFacts
    <2>3. Seen(r)'
      BY <1>1, <2>2, SetConnectionSeen
    <2>4. Follows(r)'
      <3>1. SUFFICES ASSUME Sid(r) \notin clash, cache[Sid(r)] # None
                     PROVE  /\ obj[cache[Sid(r)]].name = row'[Sid(r)].conn
                            /\ row'[Sid(r)].db = None /\ obj[cache[Sid(r)]].db = None
        BY <2>2, SidStays, SetConnectionFacts DEF Follows, Agree
      <3>2. cache[Sid(r)] = r /\ Name(r) # None
        BY <3>1, SetConnectionFacts
      <3>3. QED
        BY <1>1, <1>2, <1>4, <2>2, <3>2, SetConnectionFacts
    <2>5. QED
      BY <2>1, <2>2, <2>3, <2>4, RowsStay, StepKeeps, SetConnectionFacts
  <1>5. CASE /\ d # None /\ req[r].op = "open" /\ req[r].db # None
             /\ req' = [req EXCEPT ![r].op = "select", ![r].pc = "ensure"]
    <2>1. PICK q : q = [req[r] EXCEPT !.op = "select", !.pc = "ensure"]
      OBVIOUS
    <2>2. q \in Req /\ q.pc = "ensure" /\ q.op = "select" /\ q.sid = Sid(r) /\ q.db = req[r].db
      BY <2>1, BusyFacts DEF Req, Sid, IInv, Phases, Ops
    <2>3. req' = [req EXCEPT ![r] = q]
      BY <1>5, <2>1
    <2>4. Moved(r) /\ req'[r] = q
      BY <2>2, <2>3, MovedFacts DEF IInv
    <2>5. SameOp(r)
      BY <1>5, <2>2, <2>4 DEF SameOp, Additions
    <2>6. /\ TypeOK' /\ SessionStep(r) /\ SavedStay /\ ObjectsFit' /\ NamesApart'
          /\ row'[Sid(r)] = p
      BY <1>1, <2>4, <2>5, RowStep, SetConnectionFacts
    <2>7. Seen(r)'
      BY <1>1, <2>6, SetConnectionSeen
    <2>8. Follows(r)'
      <3>1. r \in Busy' /\ Switching(r)'
        BY <2>2, <2>4, <2>6 DEF Busy, InFlight, SessionStep, Switching
      <3>2. QED
        BY <3>1 DEF Follows
    <2>9. Good(r)'
      <3>1. Fields(req[r])' /\ Popped(r)' /\ Reserved(r)' /\ Builds(r)'
        BY <1>5, <2>2, <2>4 DEF Fields, Popped, Reserved, Builds, Name, Additions
      <3>2. Sid(r)' = Sid(r) /\ clash' = clash /\ cache' = cache /\ obj' = obj
        BY <2>6, SidStays, SetConnectionFacts
      <3>3. Sid(r) \notin clash => obj[r].db = req[r].db
        BY <1>5, SetConnectionFacts DEF Good, Exact
      <3>4. Sid(r) \notin clash => Chosen(r)'
        BY <1>1, <1>3, <1>5, <2>2, <2>4, <2>6, <3>2, <3>3, SetConnectionFacts DEF Chosen
      <3>5. Exact(r)'
        BY <2>2, <2>4, <3>2, <3>4 DEF Exact
      <3>6. QED
        BY <3>1, <3>5 DEF Good
    <2>10. QED
      BY <2>6, <2>7, <2>8, <2>9, RowsStay, StepKeeps, SetConnectionFacts
  <1>6. CASE d # None /\ req' = [req EXCEPT ![r].pc = "setdb", ![r].db = d]
    <2>1. PICK q : q = [req[r] EXCEPT !.pc = "setdb", !.db = d]
      OBVIOUS
    <2>2. /\ q \in Req /\ q.pc = "setdb" /\ q.op = req[r].op /\ q.sid = Sid(r) /\ q.db = d
          /\ q.name = Name(r) /\ q.cfg = req[r].cfg
      BY <1>3, <2>1, BusyFacts DEF Req, Sid, Name, IInv, Phases
    <2>3. req' = [req EXCEPT ![r] = q]
      BY <1>6, <2>1
    <2>4. Moved(r) /\ req'[r] = q
      BY <2>2, <2>3, MovedFacts DEF IInv
    <2>5. SameOp(r)
      BY <2>2, <2>4 DEF SameOp, Name
    <2>6. /\ TypeOK' /\ SessionStep(r) /\ SavedStay /\ ObjectsFit' /\ NamesApart'
          /\ row'[Sid(r)] = p
      BY <1>1, <2>4, <2>5, RowStep, SetConnectionFacts
    <2>7. Seen(r)'
      BY <1>1, <2>6, SetConnectionSeen
    <2>8. Follows(r)'
      <3>1. r \in Busy' /\ Switching(r)'
        BY <2>2, <2>4, <2>6 DEF Busy, InFlight, SessionStep, Switching
      <3>2. QED
        BY <3>1 DEF Follows
    <2>9. Good(r)'
      <3>0. req[r].pc = "setconn" /\ Fields(req[r]) /\ Name(r) # None
        BY <1>3, <1>6, SetConnectionFacts DEF Good
      <3>1. Fields(req[r])' /\ Popped(r)' /\ Reserved(r)' /\ Builds(r)'
        BY <1>6, <2>2, <2>4, <3>0 DEF Fields, Popped, Reserved, Builds, Name, Additions
      <3>2. Sid(r)' = Sid(r) /\ clash' = clash /\ cache' = cache /\ obj' = obj
        BY <2>6, SidStays, SetConnectionFacts
      <3>4. Sid(r) \notin clash => Chosen(r)'
        BY <1>1, <1>3, <1>6, <2>2, <2>4, <2>6, <3>2, SetConnectionFacts DEF Chosen
      <3>5. req'[r].op # "select"
        BY <2>2, <2>4, <3>0 DEF Fields
      <3>6. Exact(r)'
        BY <2>2, <2>4, <3>2, <3>4, <3>5 DEF Exact
      <3>7. QED
        BY <3>1, <3>6 DEF Good
    <2>10. QED
      BY <2>6, <2>7, <2>8, <2>9, RowsStay, StepKeeps, SetConnectionFacts
  <1>7. QED
    BY <1>2, <1>4, <1>5, <1>6 DEF SetConnection

LEMMA SetDatabaseKeeps ==
  ASSUME IInv, NEW r \in Busy, SetDatabase(r)
  PROVE  IInv'
  <1>1. /\ req[r].pc = "setdb" /\ Good(r) /\ Finish(r) /\ UNCHANGED <<saved, own, cache, obj, clash, restarts>>
        /\ r \in Reqs /\ Sid(r) \in Sids /\ row[Sid(r)] \in Row /\ row \in [Sids -> Row]
        /\ req[r].db \in Maybe(Dbs)
    BY BusyFacts DEF SetDatabase, At, IInv, TypeOK, env
  <1>2. req[r].op \notin {"run", "delete"}
    BY <1>1 DEF Good, Fields
  <1>3. PICK v : v = IF row[Sid(r)].conn = None THEN row[Sid(r)].visited
                     ELSE [row[Sid(r)].visited EXCEPT ![row[Sid(r)].conn] = req[r].db]
    OBVIOUS
  <1>4. v \in [Names -> Maybe(Dbs)]
    BY <1>1, <1>3 DEF Row, Maybe
  <1>5. PICK p : p = [row[Sid(r)] EXCEPT !.db = req[r].db, !.visited = v]
    OBVIOUS
  <1>6. p \in Row /\ p.conn = row[Sid(r)].conn /\ p.db = req[r].db
    BY <1>1, <1>4, <1>5 DEF Row
  <1>7. row' = [row EXCEPT ![Sid(r)] = p]
    BY <1>1, <1>3, <1>5 DEF SetDatabase
  <1>8. Moved(r) /\ SameOp(r) /\ r \notin Busy'
    BY <1>1, FinishFacts DEF IInv, SameOp
  <1>9. /\ TypeOK' /\ SessionStep(r) /\ SavedStay /\ ObjectsFit' /\ NamesApart'
        /\ row'[Sid(r)] = p
    BY <1>1, <1>2, <1>6, <1>7, <1>8, RowStep
  <1>10. ~SeesTo(r, Sid(r))
    BY <1>1 DEF SeesTo
  <1>11. Seen(r)'
    BY <1>1, <1>6, <1>9, <1>10, StillSeen
  <1>12. Follows(r)'
    <2>1. SUFFICES ASSUME Sid(r) \notin clash, cache[Sid(r)] # None
                   PROVE  /\ obj[cache[Sid(r)]].name = p.conn
                          /\ obj[cache[Sid(r)]].db = p.db /\ p.db \in Lists[obj[cache[Sid(r)]].cfg]
      BY <1>1, <1>9, SidStays DEF Follows, Agree
    <2>2. Chosen(r)
      BY <1>1, <2>1 DEF Good, Exact
    <2>3. QED
      BY <1>6, <2>1, <2>2 DEF Chosen
  <1>13. QED
    BY <1>2, <1>8, <1>9, <1>11, <1>12, RowsStay, StepKeeps

-----------------------------------------------------------------------------
(* Removing and deleting a connection.                                      *)

LEMMA RemoveOwnKeeps ==
  ASSUME IInv, NEW r \in Busy, At(r, "owner"), own[Sid(r)][Name(r)] # None,
         own' = [own EXCEPT ![Sid(r)][Name(r)] = None], Go(r, "rowcheck"),
         UNCHANGED <<saved, row, cache, obj, env>>
  PROVE  IInv'
  <1>1. /\ req[r].pc = "owner" /\ Good(r) /\ Sid(r) \in Sids /\ r \in Reqs
        /\ own \in [Sids -> [Names -> Maybe(Configs)]]
    BY BusyFacts DEF IInv, At, TypeOK
  <1>2. req[r].op \in {"remove", "delete"} /\ Name(r) \in Names
    BY <1>1, BusyFacts DEF Good, Fields, Name, IInv, Ops, Additions, Maybe
  <1>3. /\ Moved(r) /\ req'[r].pc = "rowcheck" /\ req'[r].op = req[r].op /\ req'[r].name = Name(r)
        /\ req'[r].sid = Sid(r)
    BY GoFacts DEF IInv, Phases, Moved, Name
  <1>4. /\ own' \in [Sids -> [Names -> Maybe(Configs)]]
        /\ \A t \in Sids, n \in Names :
              own'[t][n] = IF t = Sid(r) /\ n = Name(r) THEN None ELSE own[t][n]
        /\ \A t \in Sids \ {Sid(r)} : own'[t] = own[t]
    BY <1>1, <1>2 DEF Maybe
  <1>5. TypeOK'
    BY <1>3, <1>4 DEF IInv, TypeOK, Moved, env
  <1>6. SessionStep(r) /\ SavedStay
    BY <1>1, <1>2, <1>3, <1>4 DEF SessionStep, Moved, SavedStay, Additions, Name
  <1>7. ObjectsFit'
    BY DEF IInv, ObjectsFit
  <1>8. NamesApart'
    BY <1>4, NamesStayApart DEF IInv, env
  <1>9. ~Switching(r) /\ ~SeesTo(r, Sid(r))
    BY <1>1, <1>2 DEF Switching, SeesTo
  <1>10. Follows(r)'
    BY <1>6, <1>9, StillFollows
  <1>11. Seen(r)'
    <2>1. SUFFICES ASSUME Sid(r) \notin clash, restarts = 0, row[Sid(r)].conn # None
                   PROVE  Resolved(Sid(r), row[Sid(r)].conn)' # None \/ (r \in Busy' /\ SeesTo(r, Sid(r))')
      BY <1>6, SidStays DEF Seen
    <2>2. CASE row[Sid(r)].conn = Name(r)
      BY <1>1, <1>3, <2>2 DEF SeesTo, Sid, Name, Busy, InFlight, Moved
    <2>3. CASE row[Sid(r)].conn # Name(r)
      <3>1. row[Sid(r)].conn \in Names
        BY <1>1, <2>1 DEF IInv, TypeOK, Row, Maybe
      <3>2. Resolved(Sid(r), row[Sid(r)].conn) # None
        BY <1>9, <2>1, RowBefore
      <3>3. own'[Sid(r)][row[Sid(r)].conn] = own[Sid(r)][row[Sid(r)].conn]
        BY <1>1, <1>4, <2>3, <3>1
      <3>4. QED
        BY <1>6, <3>2, <3>3, SidStays DEF Resolved
    <2>4. QED
      BY <2>2, <2>3
  <1>12. Good(r)'
    BY <1>2, <1>3, ConnStateAssumption DEF Good, Fields, Popped, Reserved, Builds, Exact, Name, Additions
  <1>13. QED
    BY <1>1, <1>5, <1>6, <1>7, <1>8, <1>10, <1>11, <1>12, RowsStay, StepKeeps

LEMMA DeleteSavedKeeps ==
  ASSUME IInv, NEW r \in Busy, At(r, "owner"), req[r].op = "delete",
         saved' = [saved EXCEPT ![Name(r)] = None], Go(r, "pop"),
         UNCHANGED <<own, row, cache, obj, env>>
  PROVE  IInv'
  <1>1. req[r].pc = "owner" /\ Good(r) /\ Sid(r) \in Sids /\ r \in Reqs
    BY BusyFacts DEF IInv, At, TypeOK
  <1>2. Name(r) \in Names
    BY <1>1, BusyFacts DEF Good, Fields, Name, IInv, Maybe
  <1>3. /\ Moved(r) /\ req'[r].pc = "pop" /\ req'[r].op = "delete" /\ req'[r].name = Name(r)
        /\ req'[r].sid = Sid(r)
    BY GoFacts DEF IInv, Phases, Moved, Name
  <1>4. /\ saved' \in [Names -> Maybe(Configs)]
        /\ \A n \in Names : saved'[n] = IF n = Name(r) THEN None ELSE saved[n]
    BY <1>2 DEF IInv, TypeOK, Maybe
  <1>5. TypeOK'
    BY <1>3, <1>4 DEF IInv, TypeOK, Moved, env
  <1>6. SessionStep(r)
    BY <1>1, <1>2, <1>3, <1>4 DEF SessionStep, Moved, Additions, Name
  <1>7. ObjectsFit'
    BY DEF IInv, ObjectsFit
  <1>8. NamesApart'
    BY <1>4, NamesStayApart DEF IInv, env
  <1>9. Follows(r)'
    <2>1. ~Switching(r)
      BY <1>1 DEF Switching
    <2>2. QED
      BY <1>6, <2>1, StillFollows
  <1>10. RowsFollow'
    <2>1. SUFFICES ASSUME restarts = 0, NEW t \in Sids \ clash, row[t].conn # None
                   PROVE  Resolved(t, row[t].conn)' # None \/ \E q \in Busy' : SeesTo(q, t)'
      BY DEF RowsFollow, env
    <2>2. row[t].conn \in Names
      BY <2>1 DEF IInv, TypeOK, Row, Maybe
    <2>3. CASE Resolved(t, row[t].conn) # None /\ row[t].conn # Name(r)
      BY <1>4, <2>2, <2>3 DEF Resolved
    <2>4. CASE row[t].conn = Name(r)
      BY <1>1, <1>3, <2>4 DEF SeesTo, Name, Busy, InFlight, Moved
    <2>5. ASSUME NEW q \in Busy, SeesTo(q, t)
          PROVE  q \in Busy' /\ SeesTo(q, t)'
      <3>1. q # r
        BY <1>1, <2>5 DEF SeesTo
      <3>2. q \in Busy' /\ req'[q] = req[q]
        BY <1>6, <3>1, BusyStays
      <3>3. QED
        BY <2>5, <3>2 DEF SeesTo, Sid, Name
    <2>6. QED
      BY <2>1, <2>3, <2>4, <2>5 DEF IInv, RowsFollow
  <1>11. Good(r)'
    BY <1>2, <1>3, ConnStateAssumption DEF Good, Fields, Popped, Reserved, Builds, Exact, Name, Additions
  <1>12. QED
    BY <1>5, <1>6, <1>7, <1>8, <1>9, <1>10, <1>11, StepKeeps

LEMMA RemoveKeeps ==
  ASSUME IInv, NEW r \in Busy, Remove(r)
  PROVE  IInv'
  <1>1. CASE /\ own[Sid(r)][Name(r)] # None /\ own' = [own EXCEPT ![Sid(r)][Name(r)] = None]
             /\ Go(r, "rowcheck") /\ UNCHANGED saved
    BY <1>1, RemoveOwnKeeps DEF Remove
  <1>2. CASE req[r].op = "delete" /\ saved' = [saved EXCEPT ![Name(r)] = None] /\ Go(r, "pop") /\ UNCHANGED own
    BY <1>2, DeleteSavedKeeps DEF Remove
  <1>3. CASE Finish(r) /\ UNCHANGED <<saved, own>>
    <2>1. req[r].pc = "owner" /\ UNCHANGED <<tables, cache, obj, env>>
      BY <1>3 DEF Remove, At, tables
    <2>2. ~Switching(r) /\ ~SeesTo(r, Sid(r)) /\ ~(req[r].op = "delete" /\ req[r].pc \in {"pop", "clear"})
      <3>1. req[r].op # "select"
        BY <2>1 DEF IInv, Good, Fields
      <3>2. QED
        BY <2>1, <3>1 DEF Switching, SeesTo
    <2>3. QED
      BY <1>3, <2>1, <2>2, JustFinishes
  <1>4. QED
    BY <1>1, <1>2, <1>3 DEF Remove

\* A request that overlaps a deletion has its session, like the deletion, in clash.
LEMMA DeleteClashes ==
  ASSUME Overlaps, NEW r \in Busy, req[r].op = "delete", NEW q \in Busy, q # r
  PROVE  Sid(q) \in clash /\ Sid(r) \in clash
  BY DEF Overlaps

\* Losing entries disturbs nobody.
LEMMA EntriesLost ==
  ASSUME IInv, NEW q \in Busy, req'[q] = req[q],
         UNCHANGED <<saved, own, row, obj, clash>>,
         \A t \in Sids : cache'[t] \in {cache[t], None}
  PROVE  Good(q)'
  <1>1. Good(q) /\ Sid(q) \in Sids /\ q \in Reqs /\ q # None
    BY BusyFacts, ConnStateAssumption DEF IInv
  <1>2. Sid(q)' = Sid(q) /\ Name(q)' = Name(q)
    BY DEF Sid, Name
  <1>3. cache'[Sid(q)] \in {cache[Sid(q)], None}
    BY <1>1
  <1>4. (Agree(Sid(q)) => Agree(Sid(q))') /\ (Chosen(q) => Chosen(q)')
    BY <1>2, <1>3 DEF Agree, Chosen
  <1>5. Resolved(Sid(q), Name(q))' = Resolved(Sid(q), Name(q))
    BY <1>2 DEF Resolved
  <1>6. Fields(req[q])' /\ Builds(q)' /\ Reserved(q)' /\ Popped(q)'
    BY <1>1, <1>2, <1>3 DEF Good, Fields, Builds, Reserved, TakenBySession, Popped
  <1>7. Exact(q)'
    BY <1>1, <1>2, <1>3, <1>4, <1>5 DEF Good, Exact
  <1>8. QED
    BY <1>6, <1>7 DEF Good

LEMMA PopKeeps ==
  ASSUME IInv, NEW r \in Busy, Pop(r)
  PROVE  IInv'
  <1>1. /\ req[r].pc = "pop" /\ Good(r) /\ Sid(r) \in Sids /\ r \in Reqs /\ Go(r, "clear")
        /\ UNCHANGED <<tables, obj, env>> /\ TypeOK
    BY BusyFacts DEF IInv, At, Pop
  <1>2. req[r].op = "delete" /\ Name(r) \in Names
    BY <1>1, BusyFacts DEF Good, Fields, Name, IInv, Maybe, Ops, Additions
  <1>3. /\ Moved(r) /\ req'[r].pc = "clear" /\ req'[r].op = "delete" /\ req'[r].name = Name(r)
        /\ req'[r].sid = Sid(r)
    BY <1>1, <1>2, GoFacts DEF Phases, Moved, Name
  <1>4. /\ cache' \in [Sids -> Maybe(Reqs)]
        /\ \A t \in Sids : /\ cache'[t] \in {cache[t], None}
                           /\ cache'[t] # None => cache'[t] = cache[t] /\ obj[cache[t]].name # Name(r)
    BY <1>1 DEF Pop, TypeOK, Maybe
  <1>5. TypeOK'
    BY <1>1, <1>3, <1>4 DEF TypeOK, Moved, tables, env
  <1>6. \A q \in Busy' : q \in Busy /\ req'[q].op = req[q].op /\ Sid(q)' = Sid(q) /\ Name(q)' = Name(q)
    BY <1>1, <1>2, <1>3 DEF Moved, Busy, InFlight, Sid, Name
  <1>7. \A q \in Busy : q # r => q \in Busy' /\ req'[q] = req[q]
    BY <1>3 DEF Moved, Busy, InFlight
  <1>8. Overlaps' /\ ObjectsFit' /\ NamesApart'
    BY <1>1, <1>6 DEF IInv, Overlaps, ObjectsFit, NamesApart, TakenBySession, tables, env
  <1>9. Mine'
    <2>1. SUFFICES ASSUME NEW t \in Sids, cache'[t] # None
                   PROVE  req'[cache'[t]] # None /\ req'[cache'[t]].sid = t
      BY DEF Mine, Sid
    <2>2. cache'[t] = cache[t] /\ cache[t] \in Reqs /\ req[cache[t]] # None /\ Sid(cache[t]) = t
      BY <1>4, <2>1, CachedFacts DEF IInv
    <2>3. QED
      BY <1>3, <2>2 DEF Moved, Sid
  <1>10. ASSUME NEW q \in Busy' PROVE Good(q)'
    <2>1. CASE q = r
      <3>1. Fields(req[r])' /\ Builds(r)' /\ Reserved(r)' /\ Exact(r)'
        BY <1>2, <1>3, ConnStateAssumption DEF Fields, Builds, Reserved, Exact, Name, Additions
      <3>2. Popped(r)'
        BY <1>1, <1>3, <1>4 DEF Popped, Name
      <3>3. QED
        BY <2>1, <3>1, <3>2 DEF Good
    <2>2. CASE q # r
      BY <1>1, <1>4, <1>6, <1>7, <2>2, EntriesLost DEF tables, env
    <2>3. QED
      BY <2>1, <2>2
  <1>11. CacheFollows'
    <2>1. SUFFICES ASSUME NEW t \in Sids \ clash
                   PROVE  Agree(t)' \/ \E q \in Busy' : Sid(q)' = t /\ Switching(q)'
      BY <1>1 DEF CacheFollows, env
    <2>2. Agree(t) => Agree(t)'
      BY <1>1, <1>4 DEF Agree, tables
    <2>3. ASSUME NEW q \in Busy, Sid(q) = t, Switching(q)
          PROVE  q \in Busy' /\ Sid(q)' = t /\ Switching(q)'
      <3>1. q # r
        BY <1>1, <1>2, <2>3 DEF Switching
      <3>2. QED
        BY <1>6, <1>7, <2>3, <3>1 DEF Switching
    <2>4. QED
      BY <2>2, <2>3 DEF IInv, CacheFollows
  <1>12. RowsFollow'
    <2>1. SUFFICES ASSUME restarts = 0, NEW t \in Sids \ clash, row[t].conn # None
                   PROVE  Resolved(t, row[t].conn)' # None \/ \E q \in Busy' : SeesTo(q, t)'
      BY <1>1 DEF RowsFollow, tables, env
    <2>2. Resolved(t, row[t].conn)' = Resolved(t, row[t].conn)
      BY <1>1 DEF Resolved, tables
    <2>3. ASSUME NEW q \in Busy, SeesTo(q, t)
          PROVE  q \in Busy' /\ SeesTo(q, t)'
      <3>1. CASE q = r
        BY <1>1, <1>2, <1>3, <2>3, <3>1 DEF SeesTo, Name, Sid, Busy, InFlight, Moved, tables
      <3>2. CASE q # r
        BY <1>1, <1>6, <1>7, <2>3, <3>2 DEF SeesTo, tables
      <3>3. QED
        BY <3>1, <3>2
    <2>4. QED
      BY <2>1, <2>2, <2>3 DEF IInv, RowsFollow
  <1>13. QED
    BY <1>5, <1>8, <1>9, <1>10, <1>11, <1>12 DEF IInv

LEMMA ClearKeeps ==
  ASSUME IInv, NEW r \in Busy, Clear(r)
  PROVE  IInv'
  <1>1. /\ req[r].pc = "clear" /\ Good(r) /\ Sid(r) \in Sids /\ r \in Reqs /\ Finish(r)
        /\ UNCHANGED <<saved, own, cache, obj, env>> /\ TypeOK
    BY BusyFacts DEF IInv, At, Clear
  <1>2. req[r].op = "delete" /\ Name(r) \in Names
    BY <1>1, BusyFacts DEF Good, Fields, Name, IInv, Maybe, Ops, Additions
  <1>3. Moved(r) /\ req'[r].pc = "done" /\ r \notin Busy'
    BY <1>1, FinishFacts
  <1>4. /\ row' \in [Sids -> Row]
        /\ \A t \in Sids : /\ row[t].conn # Name(r) => row'[t].conn = row[t].conn /\ row'[t].db = row[t].db
                           /\ row[t].conn = Name(r) => row'[t].conn = None
    <2>1. \A t \in Sids : row[t].conn \in Maybe(Names) /\ row[t].db \in Maybe(Dbs)
                          /\ [row[t].visited EXCEPT ![Name(r)] = None] \in [Names -> Maybe(Dbs)]
      BY <1>1 DEF TypeOK, Row, Maybe
    <2>2. QED
      BY <2>1 DEF Clear, Row, Maybe
  <1>5. TypeOK'
    BY <1>1, <1>3, <1>4 DEF TypeOK, Moved, env
  <1>6. \A q \in Busy' : q \in Busy /\ q # r /\ req'[q] = req[q] /\ Sid(q)' = Sid(q) /\ Name(q)' = Name(q)
    BY <1>3 DEF Moved, Busy, InFlight, Sid, Name
  <1>7. \A q \in Busy : q # r => q \in Busy' /\ req'[q] = req[q]
    BY <1>3 DEF Moved, Busy, InFlight
  <1>8. Overlaps' /\ ObjectsFit' /\ NamesApart'
    BY <1>1, <1>6 DEF IInv, Overlaps, ObjectsFit, NamesApart, TakenBySession, env
  <1>9. Mine'
    <2>1. SUFFICES ASSUME NEW t \in Sids, cache[t] # None
                   PROVE  req'[cache[t]] # None /\ req'[cache[t]].sid = t
      BY <1>1 DEF Mine, Sid
    <2>2. cache[t] \in Reqs /\ req[cache[t]] # None /\ Sid(cache[t]) = t
      BY <2>1, CachedFacts DEF IInv
    <2>3. QED
      BY <1>3, <2>2 DEF Moved, Sid
  <1>10. ASSUME NEW q \in Busy' PROVE Good(q)'
    <2>1. q \in Busy /\ q # r /\ req'[q] = req[q] /\ Sid(q)' = Sid(q) /\ Name(q)' = Name(q) /\ Good(q)
      BY <1>6 DEF IInv
    <2>2. Sid(q)' \in clash'
      BY <1>1, <1>2, <2>1, DeleteClashes DEF IInv, env
    <2>3. Exact(q)'
      BY <2>2 DEF Exact
    <2>4. Fields(req[q])' /\ Builds(q)' /\ Reserved(q)' /\ Popped(q)'
      BY <1>1, <2>1 DEF Good, Fields, Builds, Reserved, TakenBySession, Popped, env
    <2>5. QED
      BY <2>3, <2>4 DEF Good
  <1>11. CacheFollows'
    <2>1. SUFFICES ASSUME NEW t \in Sids \ clash
                   PROVE  Agree(t)'
      BY <1>1 DEF CacheFollows, env
    <2>2. ASSUME NEW q \in Busy, Sid(q) = t, Switching(q)
          PROVE  FALSE
      <3>1. q # r
        BY <1>1, <1>2, <2>2 DEF Switching
      <3>2. QED
        BY <1>2, <2>1, <2>2, <3>1, DeleteClashes DEF IInv
    <2>3. Agree(t)
      BY <2>2 DEF IInv, CacheFollows
    <2>4. cache[t] # None => obj[cache[t]].name # Name(r)
      BY <1>1, <1>2 DEF Good, Popped
    <2>5. QED
      BY <1>1, <1>4, <2>3, <2>4 DEF Agree
  <1>12. RowsFollow'
    <2>1. SUFFICES ASSUME restarts = 0, NEW t \in Sids \ clash, row'[t].conn # None
                   PROVE  Resolved(t, row'[t].conn) # None \/ \E q \in Busy' : SeesTo(q, t)'
      <3>1. \A t \in Sids : \A n : Resolved(t, n)' = Resolved(t, n)
        BY <1>1 DEF Resolved
      <3>2. QED
        BY <1>1, <3>1 DEF RowsFollow, env, Resolved
    <2>2. row'[t].conn = row[t].conn /\ row[t].conn # Name(r) /\ row[t].conn # None
      BY <1>4, <2>1
    <2>3. ASSUME NEW q \in Busy, SeesTo(q, t)
          PROVE  q \in Busy' /\ SeesTo(q, t)'
      <3>1. q # r
        BY <1>1, <2>2, <2>3 DEF SeesTo
      <3>2. QED
        BY <1>6, <1>7, <2>2, <2>3, <3>1 DEF SeesTo
    <2>4. QED
      BY <2>1, <2>2, <2>3 DEF IInv, RowsFollow
  <1>13. QED
    BY <1>5, <1>8, <1>9, <1>10, <1>11, <1>12 DEF IInv

-----------------------------------------------------------------------------
(* Evictions, restarts, and requests that come in.                          *)

LEMMA EvictKeeps ==
  ASSUME IInv, NEW s \in Sids, Evict(s)
  PROVE  IInv'
  <1>1. UNCHANGED <<saved, own, row, obj, req, clash, restarts>> /\ TypeOK
    BY DEF Evict, tables, env, IInv
  <1>2. /\ cache' \in [Sids -> Maybe(Reqs)]
        /\ \A t \in Sids : cache'[t] \in {cache[t], None}
    BY <1>1 DEF Evict, TypeOK, Maybe
  <1>3. TypeOK'
    BY <1>1, <1>2 DEF TypeOK
  <1>4. Busy' = Busy
    BY <1>1 DEF Busy, InFlight
  <1>5. Overlaps' /\ ObjectsFit' /\ NamesApart'
    BY <1>1, <1>4 DEF IInv, Overlaps, ObjectsFit, NamesApart, TakenBySession, Sid, Name
  <1>6. Mine'
    BY <1>1, <1>2 DEF IInv, Mine, Sid
  <1>7. \A q \in Busy' : Good(q)'
    BY <1>1, <1>2, <1>4, EntriesLost
  <1>8. CacheFollows'
    <2>1. \A t \in Sids : Agree(t) => Agree(t)'
      BY <1>1, <1>2 DEF Agree
    <2>2. \A q \in Busy : Sid(q)' = Sid(q) /\ (Switching(q) => Switching(q)')
      BY <1>1 DEF Sid, Switching
    <2>3. QED
      BY <1>1, <1>4, <2>1, <2>2 DEF IInv, CacheFollows
  <1>9. RowsFollow'
    <2>1. \A t \in Sids : Resolved(t, row[t].conn)' = Resolved(t, row[t].conn)
      BY <1>1 DEF Resolved
    <2>2. \A q \in Busy, t \in Sids : SeesTo(q, t) => SeesTo(q, t)'
      BY <1>1 DEF SeesTo, Sid, Name
    <2>3. SUFFICES ASSUME restarts = 0, NEW t \in Sids \ clash, row[t].conn # None
                   PROVE  Resolved(t, row[t].conn)' # None \/ \E q \in Busy' : SeesTo(q, t)'
      BY <1>1 DEF RowsFollow
    <2>4. Resolved(t, row[t].conn) # None \/ \E q \in Busy : SeesTo(q, t)
      BY <2>3 DEF IInv, RowsFollow
    <2>5. QED
      BY <1>4, <2>1, <2>2, <2>4
  <1>10. QED
    BY <1>3, <1>5, <1>6, <1>7, <1>8, <1>9 DEF IInv

\* Nothing is cached, owned or under way after a restart.
LEMMA RestartKeeps ==
  ASSUME IInv, Restart
  PROVE  IInv'
  <1>1. UNCHANGED <<saved, row, obj, clash>> /\ TypeOK /\ restarts \in Nat /\ restarts' = restarts + 1
    BY DEF Restart, IInv, TypeOK
  <1>2. ASSUME NEW q \in Reqs
        PROVE  req'[q] \in Maybe(Req) /\ ~InFlight(q)'
    <2>1. CASE InFlight(q)
      <3>1. Sid(q) \in Sids
        BY <2>1, BusyFacts DEF Busy, IInv
      <3>2. req'[q] = Done(Sid(q))
        BY <2>1 DEF Restart
      <3>3. Done(Sid(q)) \in Req /\ Done(Sid(q)).pc = "done"
        BY <3>1 DEF Req, Done, Ops, Phases, Maybe
      <3>4. QED
        BY <3>2, <3>3 DEF InFlight, Maybe
    <2>2. CASE ~InFlight(q)
      BY <1>1, <2>2 DEF Restart, TypeOK, InFlight
    <2>3. QED
      BY <2>1, <2>2
  <1>3. req' \in [Reqs -> Maybe(Req)] /\ Busy' = {}
    BY <1>2 DEF Restart, Busy
  <1>4. /\ cache' \in [Sids -> Maybe(Reqs)] /\ \A t \in Sids : cache'[t] = None
        /\ own' \in [Sids -> [Names -> Maybe(Configs)]] /\ \A t \in Sids, n \in Names : own'[t][n] = None
    BY DEF Restart, Maybe
  <1>5. TypeOK'
    BY <1>1, <1>3, <1>4 DEF TypeOK
  <1>6. Overlaps' /\ (\A q \in Busy' : Good(q)')
    BY <1>3 DEF Overlaps
  <1>7. Mine' /\ CacheFollows'
    BY <1>4 DEF Mine, CacheFollows, Agree
  <1>8. ObjectsFit' /\ NamesApart'
    BY <1>1, <1>4 DEF IInv, ObjectsFit, NamesApart, TakenBySession
  <1>9. RowsFollow'
    BY <1>1 DEF RowsFollow
  <1>10. QED
    BY <1>5, <1>6, <1>7, <1>8, <1>9 DEF IInv

\* What a request brings with it.
LEMMA Arrives ==
  ASSUME TypeOK, NEW r \in Reqs, NEW op \in Ops, NEW s \in Sids, Arrive(r, op, s)
  PROVE  \E p \in Req :
            /\ p.op = op /\ p.sid = s /\ p.pc = FirstPhase(op) /\ p.pc # "done" /\ Fields(p)
            /\ req' = [req EXCEPT ![r] = p]
            /\ clash' = clash \cup UNION {Disturbed(p, q) \cup Disturbed(q, p) : q \in {req[x] : x \in Busy}}
  <1>1. PICK a \in Params(op) :
           LET p == [op |-> op, sid |-> s, pc |-> FirstPhase(op), name |-> a.name,
                     cfg |-> a.cfg, db |-> a.db, start |-> None] IN
           /\ req' = [req EXCEPT ![r] = p]
           /\ clash' = clash \cup UNION {Disturbed(p, q) \cup Disturbed(q, p) : q \in {req[x] : x \in Busy}}
    BY DEF Arrive, Busy
  <1>2. PICK p : p = [op |-> op, sid |-> s, pc |-> FirstPhase(op), name |-> a.name,
                      cfg |-> a.cfg, db |-> a.db, start |-> None]
    OBVIOUS
  <1>3. a.name \in Maybe(Names) /\ a.cfg \in Maybe(Configs) /\ a.db \in Maybe(Dbs)
        /\ (op \in Additions \cup {"open", "remove", "delete"} => a.name # None)
        /\ (op \in Additions => a.cfg # None)
        /\ (op = "select" => a.db # None)
        /\ (op = "disconnect" => a.name = None)
    BY ConnStateAssumption DEF Params, Ops, Additions, Maybe
  <1>4. FirstPhase(op) \in Phases \ {"done", "visited", "build", "rowcheck", "pop", "clear", "setconn", "setdb"}
    BY DEF FirstPhase, Phases, Ops
  <1>5. p \in Req
    BY <1>2, <1>3, <1>4 DEF Req, Maybe
  <1>6. Fields(p)
    <2>1. p.op = op /\ p.pc = FirstPhase(op) /\ p.name = a.name /\ p.cfg = a.cfg /\ p.db = a.db
      BY <1>2
    <2>2. QED
      BY <1>3, <1>4, <2>1 DEF Fields, FirstPhase, Ops, Additions
  <1>7. QED
    BY <1>1, <1>2, <1>4, <1>5, <1>6

LEMMA ArriveKeeps ==
  ASSUME IInv, NEW r \in Reqs, NEW op \in Ops, NEW s \in Sids, Arrive(r, op, s)
  PROVE  IInv'
  <1>1. /\ UNCHANGED <<saved, own, row, cache, obj, restarts>> /\ TypeOK /\ req[r] = None
        /\ r \notin Busy /\ req \in [Reqs -> Maybe(Req)]
    BY DEF Arrive, tables, IInv, Busy, InFlight, TypeOK
  <1>2. PICK p \in Req :
            /\ p.op = op /\ p.sid = s /\ p.pc = FirstPhase(op) /\ p.pc # "done" /\ Fields(p)
            /\ req' = [req EXCEPT ![r] = p]
            /\ clash' = clash \cup UNION {Disturbed(p, q) \cup Disturbed(q, p) : q \in {req[x] : x \in Busy}}
    BY Arrives DEF IInv
  <1>3. p # None /\ p.name \in Maybe(Names)
    BY NoneAssumption DEF Req
  <1>4. /\ req' \in [Reqs -> Maybe(Req)] /\ req'[r] = p
        /\ \A q \in Reqs \ {r} : req'[q] = req[q]
    BY <1>1, <1>2 DEF Maybe
  <1>5. r \in Busy' /\ Busy' = Busy \cup {r}
    BY <1>2, <1>3, <1>4 DEF Busy, InFlight
  <1>6. \A q \in Busy : q \in Reqs /\ q # r /\ req'[q] = req[q] /\ Sid(q)' = Sid(q) /\ Name(q)' = Name(q)
    BY <1>1, <1>4 DEF Busy, Sid, Name
  <1>7. clash \subseteq clash' /\ \A q \in Busy : Disturbed(p, req[q]) \cup Disturbed(req[q], p) \subseteq clash'
    BY <1>2
  <1>8. clash' \subseteq Sids \cup Names
    <2>1. ASSUME NEW q \in Busy
          PROVE  Disturbed(p, req[q]) \cup Disturbed(req[q], p) \subseteq Sids \cup Names
      <3>1. req[q] \in Req
        BY BusyFacts DEF IInv
      <3>2. \A x, y \in Req : Disturbed(x, y) \subseteq {x.sid} \cup {n \in {x.name} : x.op \in Additions}
        BY DEF Disturbed
      <3>3. \A x \in Req : x.sid \in Sids
        BY DEF Req
      <3>4. Fields(req[q])
        BY DEF IInv, Good
      <3>5. \A x \in {p, req[q]} : x.op \in Additions => x.name \in Names
        BY <1>2, <3>1, <3>4 DEF Fields, Req, Maybe
      <3>6. QED
        BY <1>2, <3>1, <3>2, <3>3, <3>5
    <2>2. clash \subseteq Sids \cup Names
      BY DEF IInv, TypeOK
    <2>3. QED
      BY <1>2, <2>1, <2>2
  <1>9. TypeOK'
    BY <1>1, <1>4, <1>8 DEF TypeOK
  <1>10. ASSUME NEW q \in Busy
         PROVE  /\ Sid(q) = s /\ ~(op = "run" /\ req[q].op = "run") => s \in clash'
                /\ op = "delete" \/ req[q].op = "delete" => s \in clash' /\ Sid(q) \in clash'
                /\ op \in Additions /\ req[q].op \in Additions /\ Name(q) = p.name => p.name \in clash'
    <2>1. {op, req[q].op} # {"run"} <=> ~(op = "run" /\ req[q].op = "run")
      OBVIOUS
    <2>2. Sid(q) = s /\ ~(op = "run" /\ req[q].op = "run") => s \in Disturbed(p, req[q])
      BY <1>2, <2>1 DEF Disturbed, Sid
    <2>3. op = "delete" \/ req[q].op = "delete" => s \in Disturbed(p, req[q]) /\ Sid(q) \in Disturbed(req[q], p)
      BY <1>2 DEF Disturbed, Sid
    <2>4. op \in Additions /\ req[q].op \in Additions /\ Name(q) = p.name => p.name \in Disturbed(p, req[q])
      BY <1>2 DEF Disturbed, Name
    <2>5. QED
      BY <1>7, <2>2, <2>3, <2>4
  <1>11. Overlaps'
    <2>1. SUFFICES ASSUME NEW x \in Busy', NEW y \in Busy', x # y
                   PROVE  (/\ Sid(x) = Sid(y) /\ ~(req[x].op = "run" /\ req[y].op = "run") => Sid(x) \in clash
                           /\ req[x].op = "delete" => Sid(x) \in clash /\ Sid(y) \in clash
                           /\ req[x].op \in Additions /\ req[y].op \in Additions /\ Name(x) = Name(y)
                                => Name(x) \in clash)'
      BY DEF Overlaps
    <2>2. Sid(r)' = s /\ Name(r)' = p.name /\ req'[r].op = op
      BY <1>2, <1>4 DEF Sid, Name
    <2>3. CASE x = r
      <3>1. y \in Busy
        BY <1>5, <2>1, <2>3
      <3>2. QED
        BY <1>6, <1>10, <2>2, <2>3, <3>1
    <2>4. CASE y = r
      <3>1. x \in Busy
        BY <1>5, <2>1, <2>4
      <3>2. QED
        BY <1>6, <1>10, <2>2, <2>4, <3>1
    <2>5. CASE x # r /\ y # r
      <3>1. x \in Busy /\ y \in Busy
        BY <1>5, <2>1, <2>5
      <3>2. QED
        BY <1>6, <1>7, <2>1, <3>1 DEF IInv, Overlaps
    <2>6. QED
      BY <2>3, <2>4, <2>5
  <1>12. Mine'
    <2>1. SUFFICES ASSUME NEW t \in Sids, cache[t] # None
                   PROVE  req'[cache[t]] # None /\ req'[cache[t]].sid = t
      BY <1>1 DEF Mine, Sid
    <2>2. cache[t] \in Reqs /\ req[cache[t]] # None /\ Sid(cache[t]) = t
      BY <2>1, CachedFacts DEF IInv
    <2>3. QED
      BY <1>1, <1>4, <2>2 DEF Sid
  <1>13. ObjectsFit' /\ NamesApart'
    BY <1>1, <1>7 DEF IInv, ObjectsFit, NamesApart, TakenBySession
  <1>14. ASSUME NEW q \in Busy PROVE Good(q)'
    <2>1. /\ req'[q] = req[q] /\ Sid(q)' = Sid(q) /\ Name(q)' = Name(q) /\ Good(q)
          /\ UNCHANGED <<saved, own, row, cache, obj>>
      BY <1>1, <1>6 DEF IInv
    <2>2. Agree(Sid(q))' = Agree(Sid(q)) /\ Chosen(q)' = Chosen(q)
          /\ Resolved(Sid(q), Name(q))' = Resolved(Sid(q), Name(q))
      BY <2>1 DEF Agree, Chosen, Resolved
    <2>3. Exact(q)'
      BY <1>7, <2>1, <2>2 DEF Good, Exact
    <2>4. Fields(req[q])' /\ Builds(q)' /\ Reserved(q)' /\ Popped(q)'
      BY <1>7, <2>1 DEF Good, Fields, Builds, Reserved, TakenBySession, Popped
    <2>5. QED
      BY <2>3, <2>4 DEF Good
  <1>15. Good(r)'
    <2>1. Sid(r)' = s /\ Name(r)' = p.name /\ req'[r] = p
      BY <1>2, <1>4 DEF Sid, Name
    <2>2. Fields(req[r])' /\ Reserved(r)' /\ Popped(r)'
      BY <1>2, <2>1 DEF Fields, Reserved, Popped, FirstPhase, Ops, Additions
    <2>3. Builds(r)'
      <3>1. cache[s] # r
        BY <1>1, CachedFacts, ConnStateAssumption DEF IInv
      <3>2. QED
        BY <1>1, <1>2, <2>1, <3>1 DEF Builds, FirstPhase, Ops
    <2>4. s \notin clash' /\ op = "select" => Agree(s)'
      <3>1. SUFFICES ASSUME s \notin clash', op = "select" PROVE Agree(s)
        BY <1>1 DEF Agree
      <3>2. \A q \in Busy : Sid(q) # s
        BY <1>10, <3>1
      <3>3. s \notin clash
        BY <1>7, <3>1
      <3>4. QED
        BY <3>2, <3>3 DEF IInv, CacheFollows
    <2>5. Exact(r)'
      BY <1>2, <2>1, <2>4 DEF Exact, FirstPhase, Ops
    <2>6. QED
      BY <2>2, <2>3, <2>5 DEF Good
  <1>16. CacheFollows'
    <2>1. SUFFICES ASSUME NEW t \in Sids \ clash'
                   PROVE  Agree(t)' \/ \E q \in Busy' : Sid(q)' = t /\ Switching(q)'
      BY DEF CacheFollows
    <2>2. Agree(t) => Agree(t)'
      BY <1>1 DEF Agree
    <2>3. \A q \in Busy : Sid(q) = t /\ Switching(q) => Sid(q)' = t /\ Switching(q)'
      BY <1>6 DEF Switching
    <2>4. Agree(t) \/ \E q \in Busy : Sid(q) = t /\ Switching(q)
      BY <1>7, <2>1 DEF IInv, CacheFollows
    <2>5. QED
      BY <1>5, <2>2, <2>3, <2>4
  <1>17. RowsFollow'
    <2>1. SUFFICES ASSUME restarts = 0, NEW t \in Sids \ clash', row[t].conn # None
                   PROVE  Resolved(t, row[t].conn)' # None \/ \E q \in Busy' : SeesTo(q, t)'
      BY <1>1 DEF RowsFollow
    <2>2. Resolved(t, row[t].conn)' = Resolved(t, row[t].conn)
      BY <1>1 DEF Resolved
    <2>3. \A q \in Busy : SeesTo(q, t) => SeesTo(q, t)'
      BY <1>1, <1>6 DEF SeesTo
    <2>4. Resolved(t, row[t].conn) # None \/ \E q \in Busy : SeesTo(q, t)
      BY <1>7, <2>1 DEF IInv, RowsFollow
    <2>5. QED
      BY <1>5, <2>2, <2>3, <2>4
  <1>18. QED
    BY <1>5, <1>9, <1>11, <1>12, <1>13, <1>14, <1>15, <1>16, <1>17 DEF IInv

-----------------------------------------------------------------------------
(* The entry that a query, or select_database, finds after _ensure_session. *)

\* What Gate is given: the entries and objects there are, but for what r has built; in a
\* session that nothing has disturbed the entry is what the row says, or is of the database
\* that r is about to write there.
Offered(r, entries, objs) ==
    LET s == Sid(r)  o == entries[s] IN
    /\ req[r].op \in {"run", "select"} /\ req[r].pc \in {"ensure", "resolve", "build"}
    /\ entries \in [Sids -> Maybe(Reqs)] /\ objs \in [Reqs -> Maybe(Obj)]
    /\ \A t \in Sids \ {s} : entries[t] = cache[t]
    /\ o \in {cache[s], r} /\ (o # None => objs[o] # None)
    /\ \A q \in Reqs \ {r} : objs[q] = obj[q]
    /\ \A q \in Reqs : objs[q] # None => objs[q].db = None \/ objs[q].db \in Lists[objs[q].cfg]
    /\ s \notin clash /\ o # None =>
          /\ objs[o].name = row[s].conn
          /\ \/ objs[o].db = IF row[s].db \in Lists[objs[o].cfg] THEN row[s].db ELSE None
             \/ req[r].op = "select" /\ req[r].db \in Lists[objs[o].cfg]

\* The objects after it: the entry's may be on another database that its server lists.
Turned(r, entries, objs) ==
    LET o == entries[Sid(r)] IN
    /\ cache' = entries /\ obj' \in [Reqs -> Maybe(Obj)]
    /\ \A q \in Reqs : q # o => obj'[q] = objs[q]
    /\ o # None => /\ obj'[o] # None /\ obj'[o].name = objs[o].name /\ obj'[o].cfg = objs[o].cfg
                   /\ obj'[o].db = None \/ obj'[o].db \in Lists[obj'[o].cfg]

LEMMA GateStep ==
  ASSUME IInv, NEW r \in Busy, NEW entries, NEW objs, Offered(r, entries, objs),
         Turned(r, entries, objs), Moved(r), SameOp(r), UNCHANGED <<tables, env>>
  PROVE  TypeOK' /\ SessionStep(r) /\ SavedStay /\ ObjectsFit' /\ NamesApart' /\ Seen(r)'
  <1>1. PICK s, o : s = Sid(r) /\ o = entries[s]
    OBVIOUS
  <1>2. /\ TypeOK /\ Mine /\ NamesApart /\ ObjectsFit /\ r \in Reqs /\ s \in Sids /\ None \notin Reqs
        /\ o \in Maybe(Reqs) /\ req[r] # None
    BY <1>1, BusyFacts, ConnStateAssumption DEF IInv, TypeOK, Offered
  <1>3. /\ \A t \in Sids \ {s} : entries[t] = cache[t]
        /\ o \in {cache[s], r} /\ (o # None => objs[o] # None)
        /\ \A q \in Reqs \ {r} : objs[q] = obj[q]
        /\ cache' = entries /\ cache' \in [Sids -> Maybe(Reqs)] /\ obj' \in [Reqs -> Maybe(Obj)]
        /\ \A q \in Reqs : q # o => obj'[q] = objs[q]
        /\ o # None => obj'[o] # None /\ obj'[o].name = objs[o].name
    BY <1>1 DEF Offered, Turned
  <1>4. o # None => o \in Reqs /\ req[o] # None /\ Sid(o) = s
    BY <1>1, <1>2, <1>3, CachedFacts
  <1>5. \A q \in Reqs : req[q] # None /\ Sid(q) # s => obj'[q] = obj[q]
    <2>1. SUFFICES ASSUME NEW q \in Reqs, Sid(q) # s PROVE obj'[q] = obj[q]
      OBVIOUS
    <2>2. q # r /\ q # o
      BY <1>1, <1>2, <1>4, <2>1
    <2>3. obj'[q] = objs[q] /\ objs[q] = obj[q]
      BY <1>3, <2>2
    <2>4. QED
      BY <2>3
  <1>6. TypeOK'
    <2>1. \A t \in Sids : cache'[t] # None => obj'[cache'[t]] # None
      <3>1. SUFFICES ASSUME NEW t \in Sids, cache'[t] # None
                     PROVE  obj'[cache'[t]] # None
        OBVIOUS
      <3>2. CASE t = s
        BY <1>1, <1>3, <3>1, <3>2
      <3>3. CASE t # s
        BY <1>2, <1>3, <1>5, <3>1, <3>3, CachedFacts
      <3>4. QED
        BY <3>2, <3>3
    <2>2. QED
      BY <1>2, <1>3, <2>1 DEF TypeOK, Moved, tables, env
  <1>7. SessionStep(r)
    <2>1. ASSUME NEW q \in Reqs \ {r}, obj[q] # None
          PROVE  obj'[q] # None /\ obj'[q].name = obj[q].name
      <3>1. objs[q] = obj[q] /\ q # None
        BY <1>2, <1>3
      <3>2. q # o => obj'[q] = objs[q]
        BY <1>3
      <3>3. q = o => obj'[q] # None /\ obj'[q].name = objs[q].name
        BY <1>3, <3>1
      <3>4. QED
        BY <2>1, <3>1, <3>2, <3>3
    <2>2. \A t \in Sids \ {s} : cache'[t] = cache[t]
      BY <1>3
    <2>3. cache'[s] \in {cache[s], None, r}
      BY <1>1, <1>3
    <2>4. QED
      BY <1>1, <1>5, <2>1, <2>2, <2>3 DEF SessionStep, Moved, SameOp, tables, env
  <1>8. NamesApart' /\ SavedStay
    BY <1>2, NamesStayApart DEF tables, env, SavedStay
  <1>9. ObjectsFit'
    <2>1. \A q \in Reqs : objs[q] # None => objs[q].db = None \/ objs[q].db \in Lists[objs[q].cfg]
      BY DEF Offered
    <2>2. o # None => obj'[o].db = None \/ obj'[o].db \in Lists[obj'[o].cfg]
      BY <1>1 DEF Turned
    <2>3. QED
      BY <1>2, <1>3, <2>1, <2>2 DEF ObjectsFit
  <1>10. Seen(r)'
    <2>1. ~SeesTo(r, Sid(r))
      BY DEF SeesTo, Offered
    <2>2. QED
      BY <1>7, <1>8, <2>1, StillSeen DEF tables
  <1>11. QED
    BY <1>6, <1>7, <1>8, <1>9, <1>10

\* The row and the entry agree once r is done, or runs.
LEMMA GateAgrees ==
  ASSUME IInv, NEW r \in Busy, NEW entries, NEW objs, Offered(r, entries, objs),
         cache' = entries, obj' = objs, UNCHANGED <<tables, env>>, SessionStep(r),
         \/ entries[Sid(r)] = None \/ req[r].op = "run"
         \/ req[r].db \notin Lists[objs[entries[Sid(r)]].cfg]
  PROVE  Follows(r)'
  <1>1. Sid(r)' = Sid(r) /\ clash' = clash /\ row' = row
    BY SidStays DEF tables
  <1>2. SUFFICES ASSUME Sid(r) \notin clash, entries[Sid(r)] # None
                 PROVE  Agree(Sid(r))'
    BY <1>1 DEF Follows, Agree
  <1>3. QED
    BY <1>1, <1>2 DEF Offered, Agree

LEMMA GateFinishKeeps ==
  ASSUME IInv, NEW r \in Busy, NEW entries, NEW objs, Offered(r, entries, objs),
         cache' = entries, obj' = objs, Finish(r), UNCHANGED <<tables, env>>,
         \/ entries[Sid(r)] = None \/ req[r].op = "run"
         \/ req[r].db \notin Lists[objs[entries[Sid(r)]].cfg]
  PROVE  IInv'
  <1>1. Moved(r) /\ SameOp(r) /\ r \notin Busy'
    BY FinishFacts DEF IInv, SameOp
  <1>2. Turned(r, entries, objs)
    <2>1. entries[Sid(r)] \in Maybe(Reqs)
      BY BusyFacts DEF IInv, Offered
    <2>2. QED
      BY <2>1 DEF Turned, Offered, Maybe
  <1>3. TypeOK' /\ SessionStep(r) /\ SavedStay /\ ObjectsFit' /\ NamesApart' /\ Seen(r)'
    BY <1>1, <1>2, GateStep
  <1>4. Follows(r)'
    BY <1>3, GateAgrees
  <1>5. RowsFollow'
    BY <1>3, RowsStay DEF Offered
  <1>6. QED
    BY <1>1, <1>3, <1>4, <1>5, StepKeeps

LEMMA GateRunsKeeps ==
  ASSUME IInv, NEW r \in Busy, NEW entries, NEW objs, Offered(r, entries, objs),
         cache' = entries, entries[Sid(r)] # None, req[r].op = "run",
         RunOn(r, entries[Sid(r)], objs), UNCHANGED <<tables, env>>
  PROVE  IInv'
  <1>1. PICK o \in Reqs : o = entries[Sid(r)] /\ objs[o] # None /\ objs[o] \in Obj
    <2>1. entries[Sid(r)] \in Reqs
      BY BusyFacts DEF IInv, Offered, Maybe
    <2>2. QED
      BY <2>1 DEF Offered, Maybe
  <1>2. obj' = objs
    BY DEF RunOn
  <1>3. CASE Finish(r)
    BY <1>2, <1>3, GateFinishKeeps
  <1>4. CASE req' = [req EXCEPT ![r].pc = "running", ![r].name = objs[o].name,
                                ![r].cfg = objs[o].cfg, ![r].db = objs[o].db]
    <2>1. PICK p : p = [req[r] EXCEPT !.pc = "running", !.name = objs[o].name,
                                      !.cfg = objs[o].cfg, !.db = objs[o].db]
      OBVIOUS
    <2>2. objs[o].name \in Maybe(Names) /\ objs[o].cfg \in Maybe(Configs) /\ objs[o].db \in Maybe(Dbs)
      BY <1>1 DEF Obj, Maybe
    <2>3. p \in Req /\ p.pc = "running" /\ p.op = "run" /\ p.sid = Sid(r)
      BY <2>1, <2>2, BusyFacts DEF Req, Sid, IInv, Phases
    <2>4. req' = [req EXCEPT ![r] = p]
      BY <1>4, <2>1
    <2>5. Moved(r) /\ req'[r] = p
      BY <2>3, <2>4, MovedFacts DEF IInv
    <2>6. SameOp(r)
      BY <2>3, <2>5 DEF SameOp, Additions
    <2>7. Turned(r, entries, objs)
      BY <1>1, <1>2 DEF Turned, Offered
    <2>8. TypeOK' /\ SessionStep(r) /\ SavedStay /\ ObjectsFit' /\ NamesApart' /\ Seen(r)'
      BY <2>5, <2>6, <2>7, GateStep
    <2>9. Follows(r)'
      BY <1>2, <2>8, GateAgrees
    <2>10. Good(r)'
      BY <2>3, <2>5 DEF Good, Fields, Builds, Exact, Reserved, Popped, Additions
    <2>11. RowsFollow'
      BY <2>8, RowsStay DEF Offered
    <2>12. QED
      BY <2>8, <2>9, <2>10, <2>11, StepKeeps
  <1>5. QED
    BY <1>1, <1>3, <1>4 DEF RunOn

LEMMA GateSelectsKeeps ==
  ASSUME IInv, NEW r \in Busy, NEW entries, NEW objs, Offered(r, entries, objs),
         cache' = entries, NEW o, o = entries[Sid(r)], o # None, req[r].op = "select",
         req[r].db \in Lists[objs[o].cfg], obj' = [objs EXCEPT ![o].db = req[r].db],
         Go(r, "setdb"), UNCHANGED <<tables, env>>
  PROVE  IInv'
  <1>1. /\ o \in Reqs /\ objs \in [Reqs -> Maybe(Obj)] /\ objs[o] \in Obj /\ objs[o] # None
        /\ req[r].db \in Maybe(Dbs) /\ req[r].db # None /\ None \notin Obj
    <2>1. o \in Reqs /\ req[r].db \in Maybe(Dbs)
      BY BusyFacts DEF IInv, Offered, Maybe
    <2>2. req[r].db # None
      BY DEF IInv, Good, Fields
    <2>3. QED
      BY <2>1, <2>2, NoneAssumption DEF Offered, Maybe
  <1>2. PICK y : y = [objs[o] EXCEPT !.db = req[r].db]
    OBVIOUS
  <1>3. y \in Obj /\ y # None /\ y.name = objs[o].name /\ y.cfg = objs[o].cfg /\ y.db = req[r].db
    BY <1>1, <1>2 DEF Obj
  <1>4. obj' \in [Reqs -> Maybe(Obj)] /\ obj'[o] = y /\ \A q \in Reqs \ {o} : obj'[q] = objs[q]
    <2>1. obj' = [objs EXCEPT ![o] = y]
      BY <1>2
    <2>2. QED
      BY <1>1, <1>3, <2>1 DEF Maybe
  <1>5. /\ Moved(r) /\ req'[r].pc = "setdb" /\ req'[r].op = "select" /\ req'[r].name = Name(r)
        /\ req'[r].db = req[r].db /\ req'[r].sid = Sid(r)
    BY GoFacts DEF IInv, Phases, Moved, Name
  <1>6. Turned(r, entries, objs)
    BY <1>3, <1>4 DEF Turned
  <1>7. SameOp(r)
    BY <1>5 DEF SameOp, Additions
  <1>8. TypeOK' /\ SessionStep(r) /\ SavedStay /\ ObjectsFit' /\ NamesApart' /\ Seen(r)'
    BY <1>5, <1>6, <1>7, GateStep
  <1>9. Follows(r)'
    <2>1. r \in Busy' /\ Switching(r)'
      BY <1>5, <1>8 DEF Busy, InFlight, SessionStep, Switching
    <2>2. QED
      BY <2>1 DEF Follows
  <1>10. Good(r)'
    <2>1. Fields(req[r])' /\ Builds(r)' /\ Reserved(r)' /\ Popped(r)'
      BY <1>1, <1>5 DEF Fields, Builds, Reserved, Popped, Additions
    <2>2. Sid(r)' = Sid(r) /\ clash' = clash /\ row' = row
      BY <1>8, SidStays DEF tables
    <2>3. Sid(r) \notin clash => objs[o].name = row[Sid(r)].conn
      BY DEF Offered
    <2>4. Sid(r) \notin clash => Chosen(r)'
      BY <1>3, <1>4, <1>5, <2>2, <2>3 DEF Chosen
    <2>5. Exact(r)'
      BY <1>5, <2>2, <2>4 DEF Exact
    <2>6. QED
      BY <2>1, <2>5 DEF Good
  <1>11. RowsFollow'
    BY <1>8, RowsStay DEF Offered
  <1>12. QED
    BY <1>8, <1>9, <1>10, <1>11, StepKeeps

LEMMA GateKeeps ==
  ASSUME IInv, NEW r \in Busy, NEW entries, NEW objs, Offered(r, entries, objs),
         Gate(r, entries, objs), UNCHANGED <<tables, env>>
  PROVE  IInv'
  <1>1. PICK o : o = entries[Sid(r)]
    OBVIOUS
  <1>2. cache' = entries
    BY DEF Gate
  <1>3. CASE o = None /\ obj' = objs /\ Finish(r)
    BY <1>1, <1>2, <1>3, GateFinishKeeps
  <1>4. CASE o # None /\ req[r].op = "run" /\ RunOn(r, o, objs)
    BY <1>1, <1>2, <1>4, GateRunsKeeps
  <1>5. CASE o # None /\ req[r].op = "select" /\ SelectOn(r, o, objs)
    <2>1. CASE req[r].db \in Lists[objs[o].cfg]
      BY <1>1, <1>2, <1>5, <2>1, GateSelectsKeeps DEF SelectOn
    <2>2. CASE req[r].db \notin Lists[objs[o].cfg]
      BY <1>1, <1>2, <1>5, <2>2, GateFinishKeeps DEF SelectOn
    <2>3. QED
      BY <2>1, <2>2
  <1>6. QED
    BY <1>1, <1>3, <1>4, <1>5 DEF Gate

\* What is cached already, when it agrees with the row or select_database is to say so.
LEMMA CachedOffered ==
  ASSUME IInv, NEW r \in Busy, NEW entries, NEW objs, entries = cache, objs = obj,
         req[r].op \in {"run", "select"}, req[r].pc \in {"ensure", "resolve", "build"},
         Sid(r) \notin clash => Agree(Sid(r)) \/ (req[r].op = "select" /\ Chosen(r))
  PROVE  Offered(r, entries, objs)
  <1>1. TypeOK /\ ObjectsFit /\ Sid(r) \in Sids
    BY BusyFacts DEF IInv
  <1>2. Sid(r) \notin clash /\ cache[Sid(r)] # None =>
          /\ obj[cache[Sid(r)]].name = row[Sid(r)].conn
          /\ \/ obj[cache[Sid(r)]].db = IF row[Sid(r)].db \in Lists[obj[cache[Sid(r)]].cfg]
                                        THEN row[Sid(r)].db ELSE None
             \/ req[r].op = "select" /\ req[r].db \in Lists[obj[cache[Sid(r)]].cfg]
    BY DEF Agree, Chosen
  <1>3. QED
    BY <1>1, <1>2 DEF Offered, TypeOK, ObjectsFit

LEMMA EnsureKeeps ==
  ASSUME IInv, NEW r \in Busy, Ensure(r)
  PROVE  IInv'
  <1>1. /\ req[r].pc = "ensure" /\ Good(r) /\ Sid(r) \in Sids /\ r \in Reqs /\ TypeOK
        /\ UNCHANGED <<tables, env>>
    BY BusyFacts DEF IInv, At, Ensure
  <1>2. req[r].op \in {"run", "select"}
    BY <1>1, BusyFacts DEF Good, Fields, Ops, Additions
  <1>3. CASE Gate(r, cache, obj)
    <2>1. PICK entries, objs : entries = cache /\ objs = obj
      OBVIOUS
    <2>2. Sid(r) \notin clash => Agree(Sid(r)) \/ (req[r].op = "select" /\ Chosen(r))
      <3>1. CASE req[r].op = "run"
        BY <1>1, <3>1, SessionBefore DEF Switching
      <3>2. CASE req[r].op = "select"
        BY <1>1, <3>2 DEF Good, Exact
      <3>3. QED
        BY <1>2, <3>1, <3>2
    <2>3. Offered(r, entries, objs)
      BY <1>1, <1>2, <2>1, <2>2, CachedOffered
    <2>4. Gate(r, entries, objs)
      BY <1>3, <2>1
    <2>5. QED
      BY <1>1, <2>3, <2>4, GateKeeps
  <1>4. CASE /\ cache[Sid(r)] = None /\ row[Sid(r)].conn # None
             /\ req' = [req EXCEPT ![r].pc = "resolve", ![r].name = row[Sid(r)].conn,
                                   ![r].start = row[Sid(r)].db]
             /\ UNCHANGED <<cache, obj>>
    <2>1. PICK p : p = [req[r] EXCEPT !.pc = "resolve", !.name = row[Sid(r)].conn,
                                      !.start = row[Sid(r)].db]
      OBVIOUS
    <2>2. row[Sid(r)].conn \in Maybe(Names) /\ row[Sid(r)].db \in Maybe(Dbs)
      BY <1>1 DEF TypeOK, Row
    <2>3. /\ p \in Req /\ p.pc = "resolve" /\ p.op = req[r].op /\ p.sid = Sid(r) /\ p.db = req[r].db
          /\ p.name = row[Sid(r)].conn /\ p.start = row[Sid(r)].db
      BY <1>1, <2>1, <2>2, BusyFacts DEF Req, Sid, Phases
    <2>4. req' = [req EXCEPT ![r] = p]
      BY <1>4, <2>1
    <2>5. Moved(r) /\ req'[r] = p
      BY <1>1, <2>3, <2>4, MovedFacts
    <2>6. SameOp(r)
      BY <1>2, <2>3, <2>5 DEF SameOp, Additions
    <2>7. TypeOK' /\ SessionStep(r) /\ SavedStay /\ ObjectsFit' /\ NamesApart'
      BY <1>1, <1>4, <2>5, <2>6, QuietStep
    <2>8. ~SeesTo(r, Sid(r)) /\ Seen(r)'
      BY <1>1, <2>7, StillSeen DEF SeesTo, tables
    <2>9. Follows(r)'
      BY <1>4, <2>7, SidStays DEF Follows, Agree
    <2>10. Good(r)'
      <3>1. Fields(req[r])'
        BY <1>1, <1>2, <1>4, <2>3, <2>5 DEF Good, Fields, Additions
      <3>2. Builds(r)' /\ Reserved(r)' /\ Popped(r)'
        BY <1>2, <2>3, <2>5 DEF Builds, Reserved, Popped, Additions
      <3>3. /\ Sid(r)' = Sid(r) /\ Name(r)' = row[Sid(r)].conn /\ req'[r].start = row[Sid(r)].db
            /\ row' = row /\ cache' = cache
        BY <1>1, <1>4, <2>3, <2>5 DEF Sid, Name, tables
      <3>4. req'[r].op \in {"run", "select"} /\ req'[r].pc = "resolve"
        BY <1>2, <2>3, <2>5
      <3>5. Exact(r)'
        BY <1>4, <3>3, <3>4 DEF Exact
      <3>6. QED
        BY <3>1, <3>2, <3>5 DEF Good
    <2>11. QED
      BY <1>2, <2>7, <2>8, <2>9, <2>10, RowsStay, StepKeeps
  <1>5. QED
    BY <1>3, <1>4 DEF Ensure

\* A failure to connect: the entry there is, which follows the row.
LEMMA GateCachedKeeps ==
  ASSUME IInv, NEW r \in Busy, req[r].op \in {"run", "select"}, req[r].pc \in {"resolve", "build"},
         Gate(r, cache, obj), UNCHANGED <<tables, env>>
  PROVE  IInv'
  <1>1. PICK entries, objs : entries = cache /\ objs = obj
    OBVIOUS
  <1>2. Sid(r) \notin clash => Agree(Sid(r))
    BY SessionBefore DEF Switching
  <1>3. Offered(r, entries, objs)
    BY <1>1, <1>2, CachedOffered
  <1>4. Gate(r, entries, objs)
    BY <1>1
  <1>5. QED
    BY <1>3, <1>4, GateKeeps

LEMMA ResolveKeeps ==
  ASSUME IInv, NEW r \in Busy, Resolve(r)
  PROVE  IInv'
  <1>1. /\ req[r].pc = "resolve" /\ Good(r) /\ Sid(r) \in Sids /\ r \in Reqs /\ TypeOK
        /\ UNCHANGED <<tables, env>> /\ Name(r) \in Maybe(Names)
    BY BusyFacts DEF IInv, At, Resolve
  <1>2. req[r].op \in {"run", "select", "open"} /\ Name(r) \in Names
    BY <1>1, BusyFacts DEF Good, Fields, Ops, Additions, Name, Maybe
  <1>3. PICK c : c = Resolved(Sid(r), Name(r))
    OBVIOUS
  <1>4. c \in Maybe(Configs)
    BY <1>1, <1>2, <1>3 DEF Resolved, TypeOK
  <1>5. ~Switching(r) /\ ~SeesTo(r, Sid(r)) /\ ~(req[r].op = "delete" /\ req[r].pc \in {"pop", "clear"})
    BY <1>1, <1>2 DEF Switching, SeesTo
  <1>6. CASE Gate(r, cache, obj) /\ req[r].op # "open"
    BY <1>1, <1>2, <1>6, GateCachedKeeps
  <1>7. CASE Finish(r) /\ UNCHANGED <<cache, obj>>
    BY <1>1, <1>5, <1>7, JustFinishes
  <1>8. CASE /\ c # None /\ UNCHANGED <<cache, obj>>
             /\ req' = [req EXCEPT ![r].pc = IF req[r].op = "open" THEN "visited" ELSE "build",
                                   ![r].cfg = c]
    <2>1. PICK pc : pc = IF req[r].op = "open" THEN "visited" ELSE "build"
      OBVIOUS
    <2>2. PICK p : p = [req[r] EXCEPT !.pc = pc, !.cfg = c]
      OBVIOUS
    <2>3. /\ p \in Req /\ p.pc = pc /\ p.op = req[r].op /\ p.sid = Sid(r) /\ p.db = req[r].db
          /\ p.name = Name(r) /\ p.cfg = c /\ p.start = req[r].start /\ pc \in {"visited", "build"}
      BY <1>1, <1>4, <2>1, <2>2, BusyFacts DEF Req, Sid, Name, Phases
    <2>4. req' = [req EXCEPT ![r] = p]
      BY <1>8, <2>1, <2>2
    <2>5. Moved(r) /\ req'[r] = p
      BY <1>1, <2>3, <2>4, MovedFacts
    <2>6. SameOp(r)
      BY <1>2, <2>3, <2>5 DEF SameOp, Additions
    <2>7. TypeOK' /\ SessionStep(r) /\ SavedStay /\ ObjectsFit' /\ NamesApart'
      BY <1>1, <1>8, <2>5, <2>6, QuietStep
    <2>8. Follows(r)' /\ Seen(r)'
      BY <1>1, <1>5, <1>8, <2>7, StillFollows, StillSeen DEF tables
    <2>9. Good(r)'
      <3>1. Fields(req[r])'
        BY <1>1, <1>2, <1>8, <2>1, <2>3, <2>5, ConnStateAssumption DEF Good, Fields, Additions
      <3>2. Builds(r)' /\ Reserved(r)' /\ Popped(r)'
        BY <1>2, <2>3, <2>5 DEF Builds, Reserved, Popped, Additions
      <3>3. /\ Sid(r)' = Sid(r) /\ Name(r)' = Name(r) /\ req'[r].start = req[r].start
            /\ row' = row /\ cache' = cache /\ clash' = clash
            /\ req'[r].op = req[r].op /\ req'[r].pc = pc
        BY <1>1, <1>8, <2>3, <2>5 DEF Sid, Name, tables, env
      <3>4. Resolved(Sid(r), Name(r))' # None
        BY <1>1, <1>3, <1>8, <3>3 DEF Resolved, tables
      <3>5. Exact(r)'
        BY <1>1, <1>2, <2>1, <2>3, <3>3, <3>4 DEF Good, Exact
      <3>6. QED
        BY <3>1, <3>2, <3>5 DEF Good
    <2>10. QED
      BY <1>5, <2>7, <2>8, <2>9, RowsStay, StepKeeps
  <1>9. QED
    BY <1>3, <1>6, <1>7, <1>8 DEF Resolve

LEMMA BuildFailsKeeps ==
  ASSUME IInv, NEW r \in Busy, BuildFails(r)
  PROVE  IInv'
  <1>1. req[r].pc = "build" /\ Good(r) /\ UNCHANGED <<tables, env>>
    BY DEF IInv, At, BuildFails
  <1>2. CASE req[r].op \in {"run", "select"} /\ Gate(r, cache, obj)
    BY <1>1, <1>2, GateCachedKeeps
  <1>3. CASE Finish(r) /\ UNCHANGED <<cache, obj>>
    BY <1>1, <1>3, JustFinishes DEF Switching, SeesTo
  <1>4. QED
    BY <1>2, <1>3 DEF BuildFails

-----------------------------------------------------------------------------
(* A connection that could be made.                                         *)

\* The object that _build_session makes.
LEMMA BuiltFacts ==
  ASSUME TypeOK, NEW r \in Busy, req[r].pc = "build", Fields(req[r]),
         NEW b, b = Built(Name(r), req[r].cfg, req[r].start)
  PROVE  /\ b \in Obj /\ b # None /\ b.name = Name(r) /\ b.cfg = req[r].cfg
         /\ b.db = IF req[r].start \in Lists[b.cfg] THEN req[r].start ELSE None
         /\ b.db = None \/ b.db \in Lists[b.cfg]
         /\ Name(r) \in Names /\ req[r].cfg \in Configs
  <1>1. Name(r) \in Names /\ req[r].cfg \in Configs /\ req[r].start \in Maybe(Dbs)
    BY BusyFacts DEF Fields, Name, Maybe
  <1>2. b \in Obj
    BY <1>1 DEF Built, Obj, Maybe
  <1>3. QED
    BY <1>1, <1>2, NoneAssumption DEF Built

LEMMA BuiltGateKeeps ==
  ASSUME IInv, NEW r \in Busy, req[r].pc = "build", req[r].op \in {"run", "select"},
         Gate(r, [cache EXCEPT ![Sid(r)] = r], [obj EXCEPT ![r] = Built(Name(r), req[r].cfg, req[r].start)]),
         UNCHANGED <<tables, env>>
  PROVE  IInv'
  <1>1. PICK b : b = Built(Name(r), req[r].cfg, req[r].start)
    OBVIOUS
  <1>2. /\ TypeOK /\ ObjectsFit /\ Good(r) /\ Sid(r) \in Sids /\ r \in Reqs
        /\ cache \in [Sids -> Maybe(Reqs)] /\ obj \in [Reqs -> Maybe(Obj)]
    BY BusyFacts DEF IInv, TypeOK
  <1>3. /\ b \in Obj /\ b # None /\ b.name = Name(r) /\ b.cfg = req[r].cfg
        /\ b.db = IF req[r].start \in Lists[b.cfg] THEN req[r].start ELSE None
        /\ b.db = None \/ b.db \in Lists[b.cfg]
    BY <1>1, <1>2, BuiltFacts DEF Good
  <1>4. PICK entries, objs : entries = [cache EXCEPT ![Sid(r)] = r] /\ objs = [obj EXCEPT ![r] = b]
    OBVIOUS
  <1>5. /\ entries \in [Sids -> Maybe(Reqs)] /\ objs \in [Reqs -> Maybe(Obj)]
        /\ entries[Sid(r)] = r /\ \A t \in Sids \ {Sid(r)} : entries[t] = cache[t]
        /\ objs[r] = b /\ \A q \in Reqs \ {r} : objs[q] = obj[q]
    BY <1>2, <1>3, <1>4 DEF Maybe
  <1>6. Sid(r) \notin clash => Name(r) = row[Sid(r)].conn /\ req[r].start = row[Sid(r)].db
    BY <1>2 DEF Good, Exact
  <1>7. \A q \in Reqs : objs[q] # None => objs[q].db = None \/ objs[q].db \in Lists[objs[q].cfg]
    BY <1>2, <1>3, <1>5 DEF ObjectsFit
  <1>8. Offered(r, entries, objs)
    BY <1>3, <1>5, <1>6, <1>7 DEF Offered
  <1>9. Gate(r, entries, objs)
    BY <1>1, <1>4
  <1>10. QED
    BY <1>8, <1>9, GateKeeps

\* r's object, entry and own connection are all that BuildOk writes.
LEMMA BuildStep ==
  ASSUME IInv, NEW r \in Busy, Moved(r), SameOp(r), UNCHANGED <<saved, row, env>>,
         own' \in [Sids -> [Names -> Maybe(Configs)]],
         \A t \in Sids \ {Sid(r)} : own'[t] = own[t],
         \A n \in Names : own'[Sid(r)][n] # None =>
            own[Sid(r)][n] # None \/ (n = Name(r) /\ req[r].op \in Additions),
         obj' \in [Reqs -> Maybe(Obj)], \A q \in Reqs \ {r} : obj'[q] = obj[q],
         obj'[r] = obj[r] \/ (obj'[r] # None /\ (obj'[r].db = None \/ obj'[r].db \in Lists[obj'[r].cfg])),
         cache' \in [Sids -> Maybe(Reqs)], \A t \in Sids \ {Sid(r)} : cache'[t] = cache[t],
         cache'[Sid(r)] = cache[Sid(r)] \/ (cache'[Sid(r)] = r /\ obj'[r] # None)
  PROVE  TypeOK' /\ SessionStep(r) /\ SavedStay /\ ObjectsFit'
  <1>1. TypeOK /\ Mine /\ ObjectsFit /\ r \in Reqs /\ Sid(r) \in Sids
    BY BusyFacts DEF IInv
  <1>2. \A q \in Reqs : obj[q] # None => obj'[q] # None
    BY <1>1
  <1>3. \A t \in Sids : cache'[t] # None => obj'[cache'[t]] # None
    <2>1. SUFFICES ASSUME NEW t \in Sids, cache'[t] # None PROVE obj'[cache'[t]] # None
      OBVIOUS
    <2>2. CASE cache'[t] = cache[t]
      BY <1>1, <1>2, <2>1, <2>2, CachedFacts
    <2>3. CASE t = Sid(r) /\ cache'[t] = r /\ obj'[r] # None
      BY <2>3
    <2>4. QED
      BY <2>2, <2>3
  <1>4. TypeOK'
    BY <1>1, <1>3 DEF TypeOK, Moved, env
  <1>5. SessionStep(r)
    <2>1. \A q \in Reqs : req[q] # None /\ Sid(q) # Sid(r) => obj'[q] = obj[q]
      OBVIOUS
    <2>2. \A q \in Reqs \ {r} : obj[q] # None => obj'[q] # None /\ obj'[q].name = obj[q].name
      OBVIOUS
    <2>3. QED
      BY <2>1, <2>2 DEF SessionStep, Moved, SameOp
  <1>6. ObjectsFit' /\ SavedStay
    BY <1>1 DEF ObjectsFit, SavedStay
  <1>7. QED
    BY <1>4, <1>5, <1>6

\* add_session_connection: the name that it has checked becomes the session's own.
LEMMA OwnedFacts ==
  ASSUME IInv, NEW r \in Busy, req[r].pc = "build", req[r].op \in {"add", "agentAdd"},
         own' = [own EXCEPT ![Sid(r)][Name(r)] = req[r].cfg], UNCHANGED <<saved, clash>>
  PROVE  /\ own' \in [Sids -> [Names -> Maybe(Configs)]] /\ own'[Sid(r)][Name(r)] # None
         /\ \A t \in Sids \ {Sid(r)} : own'[t] = own[t]
         /\ \A n \in Names : own[Sid(r)][n] # None => own'[Sid(r)][n] # None
         /\ \A n \in Names : own'[Sid(r)][n] # None => own[Sid(r)][n] # None \/ n = Name(r)
         /\ NamesApart'
  <1>1. /\ own \in [Sids -> [Names -> Maybe(Configs)]] /\ Sid(r) \in Sids /\ Good(r)
        /\ Name(r) \in Names /\ req[r].cfg \in Configs /\ req[r].cfg # None
    BY BusyFacts DEF IInv, TypeOK, Good, Fields, Additions, Name, Maybe
  <1>2. \A t \in Sids, n \in Names :
           own'[t][n] = IF t = Sid(r) /\ n = Name(r) THEN req[r].cfg ELSE own[t][n]
    BY <1>1
  <1>3. own' \in [Sids -> [Names -> Maybe(Configs)]]
    BY <1>1 DEF Maybe
  <1>4. NamesApart'
    <2>1. SUFFICES ASSUME NEW n \in Names \ clash
                   PROVE  /\ \A s, t \in Sids : own'[s][n] # None /\ own'[t][n] # None => s = t
                          /\ saved[n] # None => \A s \in Sids : own'[s][n] = None
      BY DEF NamesApart, TakenBySession
    <2>2. n = Name(r) => (\A s \in Sids : own[s][n] = None) /\ saved[n] = None
      BY <1>1 DEF Good, Reserved, Additions, TakenBySession
    <2>3. (\A s, t \in Sids : own[s][n] # None /\ own[t][n] # None => s = t)
          /\ (saved[n] # None => \A s \in Sids : own[s][n] = None)
      BY DEF IInv, NamesApart, TakenBySession
    <2>4. CASE n = Name(r)
      BY <1>2, <2>2, <2>4
    <2>5. CASE n # Name(r)
      BY <1>2, <2>3, <2>5
    <2>6. QED
      BY <2>4, <2>5
  <1>5. QED
    BY <1>1, <1>2, <1>3, <1>4

LEMMA BuiltOpenKeeps ==
  ASSUME IInv, NEW r \in Busy, req[r].pc = "build", req[r].op = "open",
         NEW b, b = Built(Name(r), req[r].cfg, req[r].start), req[r].db \in {None, b.db},
         obj' = [obj EXCEPT ![r] = b], cache' = [cache EXCEPT ![Sid(r)] = r], Go(r, "setconn"),
         UNCHANGED <<own, saved, row, env>>
  PROVE  IInv'
  <1>1. /\ TypeOK /\ Good(r) /\ Sid(r) \in Sids /\ r \in Reqs /\ NamesApart
        /\ cache \in [Sids -> Maybe(Reqs)] /\ obj \in [Reqs -> Maybe(Obj)]
    BY BusyFacts DEF IInv, TypeOK
  <1>2. /\ b \in Obj /\ b # None /\ b.name = Name(r) /\ (b.db = None \/ b.db \in Lists[b.cfg])
        /\ Name(r) \in Names
    BY <1>1, BuiltFacts DEF Good
  <1>3. /\ obj' \in [Reqs -> Maybe(Obj)] /\ obj'[r] = b /\ \A q \in Reqs \ {r} : obj'[q] = obj[q]
        /\ cache' \in [Sids -> Maybe(Reqs)] /\ cache'[Sid(r)] = r
        /\ \A t \in Sids \ {Sid(r)} : cache'[t] = cache[t]
    BY <1>1, <1>2 DEF Maybe
  <1>4. /\ Moved(r) /\ req'[r].pc = "setconn" /\ req'[r].op = "open" /\ req'[r].name = Name(r)
        /\ req'[r].db = req[r].db /\ req'[r].cfg = req[r].cfg /\ req'[r].sid = Sid(r)
    BY <1>1, GoFacts DEF Phases, Moved, Name
  <1>5. SameOp(r)
    BY <1>4 DEF SameOp, Additions
  <1>6. TypeOK' /\ SessionStep(r) /\ SavedStay /\ ObjectsFit'
    BY <1>1, <1>2, <1>3, <1>4, <1>5, BuildStep DEF TypeOK
  <1>7. NamesApart'
    BY <1>1, NamesStayApart DEF env
  <1>8. Follows(r)' /\ Seen(r)'
    BY <1>4, <1>6, AtSetConnection
  <1>9. Good(r)'
    <2>1. Fields(req[r])' /\ Reserved(r)' /\ Popped(r)'
      BY <1>2, <1>4, ConnStateAssumption DEF Fields, Reserved, Popped, Additions
    <2>2. Sid(r)' = Sid(r) /\ Name(r)' = Name(r) /\ clash' = clash
      BY <1>4 DEF Sid, Name, env
    <2>3. Builds(r)'
      BY <1>2, <1>3, <1>4, <2>2 DEF Builds
    <2>4. Resolved(Sid(r), Name(r))' = Resolved(Sid(r), Name(r))
      BY <2>2 DEF Resolved
    <2>5. Sid(r) \notin clash => Resolved(Sid(r), Name(r)) # None
      BY <1>1 DEF Good, Exact
    <2>6. Name(r) # None
      BY <1>2, ConnStateAssumption
    <2>7. Exact(r)'
      BY <1>3, <1>4, <2>2, <2>4, <2>5, <2>6 DEF Exact
    <2>8. QED
      BY <2>1, <2>3, <2>7 DEF Good
  <1>10. QED
    BY <1>6, <1>7, <1>8, <1>9, RowsStay, StepKeeps

LEMMA BuiltConnectKeeps ==
  ASSUME IInv, NEW r \in Busy, req[r].pc = "build", req[r].op = "connect",
         NEW b, b = Built(Name(r), req[r].cfg, req[r].start),
         obj' = [obj EXCEPT ![r] = b], Go(r, "save"),
         UNCHANGED <<own, cache, saved, row, env>>
  PROVE  IInv'
  <1>1. /\ TypeOK /\ Good(r) /\ Sid(r) \in Sids /\ r \in Reqs /\ NamesApart
        /\ obj \in [Reqs -> Maybe(Obj)]
    BY BusyFacts DEF IInv, TypeOK
  <1>2. /\ b \in Obj /\ b # None /\ b.name = Name(r) /\ (b.db = None \/ b.db \in Lists[b.cfg])
        /\ Name(r) \in Names /\ req[r].cfg \in Configs
    BY <1>1, BuiltFacts DEF Good
  <1>3. obj' \in [Reqs -> Maybe(Obj)] /\ obj'[r] = b /\ \A q \in Reqs \ {r} : obj'[q] = obj[q]
    BY <1>1, <1>2 DEF Maybe
  <1>4. /\ Moved(r) /\ req'[r].pc = "save" /\ req'[r].op = "connect" /\ req'[r].name = Name(r)
        /\ req'[r].cfg = req[r].cfg /\ req'[r].sid = Sid(r)
    BY <1>1, GoFacts DEF Phases, Moved, Name
  <1>5. SameOp(r)
    BY <1>4 DEF SameOp, Name
  <1>6. TypeOK' /\ SessionStep(r) /\ SavedStay /\ ObjectsFit'
    BY <1>1, <1>2, <1>3, <1>4, <1>5, BuildStep DEF TypeOK
  <1>7. NamesApart'
    BY <1>1, NamesStayApart DEF env
  <1>8. cache[Sid(r)] # r
    BY <1>1 DEF Good, Builds
  <1>9. Follows(r)'
    <2>1. cache[Sid(r)] # None => obj'[cache[Sid(r)]] = obj[cache[Sid(r)]]
      BY <1>1, <1>3, <1>8, CachedFacts DEF IInv
    <2>2. QED
      BY <1>6, <2>1, StillFollows DEF Switching
  <1>10. Seen(r)'
    BY <1>6, StillSeen DEF SeesTo
  <1>11. Good(r)'
    <2>1. Fields(req[r])' /\ Popped(r)' /\ Exact(r)'
      BY <1>2, <1>4, ConnStateAssumption DEF Fields, Popped, Exact, Additions
    <2>2. Sid(r)' = Sid(r) /\ Name(r)' = Name(r) /\ clash' = clash
      BY <1>4 DEF Sid, Name, env
    <2>3. Builds(r)'
      BY <1>2, <1>3, <1>4, <1>8, <2>2 DEF Builds
    <2>4. Reserved(r)'
      BY <1>1, <1>4, <2>2 DEF Good, Reserved, TakenBySession
    <2>5. QED
      BY <2>1, <2>3, <2>4 DEF Good
  <1>12. QED
    BY <1>6, <1>7, <1>9, <1>10, <1>11, RowsStay, StepKeeps

LEMMA BuiltAddKeeps ==
  ASSUME IInv, NEW r \in Busy, req[r].pc = "build", req[r].op = "add",
         NEW b, b = Built(Name(r), req[r].cfg, req[r].start),
         own' = [own EXCEPT ![Sid(r)][Name(r)] = req[r].cfg],
         obj' = [obj EXCEPT ![r] = b], cache' = [cache EXCEPT ![Sid(r)] = r], Go(r, "setconn"),
         UNCHANGED <<saved, row, env>>
  PROVE  IInv'
  <1>1. /\ TypeOK /\ Good(r) /\ Sid(r) \in Sids /\ r \in Reqs
        /\ cache \in [Sids -> Maybe(Reqs)] /\ obj \in [Reqs -> Maybe(Obj)]
    BY BusyFacts DEF IInv, TypeOK
  <1>2. /\ b \in Obj /\ b # None /\ b.name = Name(r) /\ (b.db = None \/ b.db \in Lists[b.cfg])
        /\ Name(r) \in Names /\ req[r].cfg \in Configs
    BY <1>1, BuiltFacts DEF Good
  <1>3. /\ obj' \in [Reqs -> Maybe(Obj)] /\ obj'[r] = b /\ \A q \in Reqs \ {r} : obj'[q] = obj[q]
        /\ cache' \in [Sids -> Maybe(Reqs)] /\ cache'[Sid(r)] = r
        /\ \A t \in Sids \ {Sid(r)} : cache'[t] = cache[t]
    BY <1>1, <1>2 DEF Maybe
  <1>4. /\ Moved(r) /\ req'[r].pc = "setconn" /\ req'[r].op = "add" /\ req'[r].name = Name(r)
        /\ req'[r].db = req[r].db /\ req'[r].cfg = req[r].cfg /\ req'[r].sid = Sid(r)
    BY <1>1, GoFacts DEF Phases, Moved, Name
  <1>5. SameOp(r)
    BY <1>4 DEF SameOp, Name
  <1>6. /\ own' \in [Sids -> [Names -> Maybe(Configs)]] /\ own'[Sid(r)][Name(r)] # None
        /\ \A t \in Sids \ {Sid(r)} : own'[t] = own[t]
        /\ \A n \in Names : own'[Sid(r)][n] # None => own[Sid(r)][n] # None \/ n = Name(r)
        /\ NamesApart'
    BY OwnedFacts DEF env
  <1>7. TypeOK' /\ SessionStep(r) /\ SavedStay /\ ObjectsFit'
    BY <1>1, <1>2, <1>3, <1>4, <1>5, <1>6, BuildStep DEF Additions
  <1>8. Follows(r)' /\ Seen(r)'
    BY <1>4, <1>7, AtSetConnection
  <1>9. Good(r)'
    <2>1. Fields(req[r])' /\ Reserved(r)' /\ Popped(r)'
      BY <1>2, <1>4, ConnStateAssumption DEF Fields, Reserved, Popped, Additions
    <2>2. Sid(r)' = Sid(r) /\ Name(r)' = Name(r) /\ clash' = clash
      BY <1>4 DEF Sid, Name, env
    <2>3. Builds(r)'
      BY <1>2, <1>3, <1>4, <2>2 DEF Builds
    <2>4. Resolved(Sid(r), Name(r))' # None
      BY <1>6, <2>2 DEF Resolved
    <2>5. Name(r) # None
      BY <1>2, ConnStateAssumption
    <2>6. Exact(r)'
      BY <1>3, <1>4, <2>2, <2>4, <2>5 DEF Exact
    <2>7. QED
      BY <2>1, <2>3, <2>6 DEF Good
  <1>10. QED
    BY <1>6, <1>7, <1>8, <1>9, RowsStay, StepKeeps

LEMMA BuiltAgentAddKeeps ==
  ASSUME IInv, NEW r \in Busy, req[r].pc = "build", req[r].op = "agentAdd",
         own' = [own EXCEPT ![Sid(r)][Name(r)] = req[r].cfg], Finish(r),
         UNCHANGED <<cache, obj, saved, row, env>>
  PROVE  IInv'
  <1>1. TypeOK /\ ObjectsFit
    BY DEF IInv
  <1>2. Moved(r) /\ SameOp(r) /\ r \notin Busy'
    BY <1>1, FinishFacts DEF SameOp
  <1>3. /\ own' \in [Sids -> [Names -> Maybe(Configs)]]
        /\ \A t \in Sids \ {Sid(r)} : own'[t] = own[t]
        /\ \A n \in Names : own[Sid(r)][n] # None => own'[Sid(r)][n] # None
        /\ \A n \in Names : own'[Sid(r)][n] # None => own[Sid(r)][n] # None \/ n = Name(r)
        /\ NamesApart'
    BY OwnedFacts DEF env
  <1>4. TypeOK' /\ SessionStep(r) /\ SavedStay /\ ObjectsFit'
    BY <1>1, <1>2, <1>3, BuildStep DEF Additions, TypeOK
  <1>5. ~Switching(r) /\ ~SeesTo(r, Sid(r))
    BY DEF Switching, SeesTo
  <1>6. Follows(r)' /\ Seen(r)'
    BY <1>3, <1>4, <1>5, StillFollows, StillSeen
  <1>7. RowsFollow'
    BY <1>4, <1>6, RowsStay
  <1>8. QED
    BY <1>2, <1>3, <1>4, <1>6, <1>7, StepKeeps

LEMMA BuildOkKeeps ==
  ASSUME IInv, NEW r \in Busy, BuildOk(r)
  PROVE  IInv'
  <1>1. req[r].pc = "build" /\ UNCHANGED <<saved, row, env>>
    BY DEF BuildOk, At
  <1>2. PICK b : b = Built(Name(r), req[r].cfg, req[r].start)
    OBVIOUS
  <1>3. CASE /\ req[r].op \in {"run", "select"} /\ UNCHANGED own
             /\ Gate(r, [cache EXCEPT ![Sid(r)] = r],
                     [obj EXCEPT ![r] = Built(Name(r), req[r].cfg, req[r].start)])
    BY <1>1, <1>3, BuiltGateKeeps DEF tables
  <1>4. CASE /\ req[r].op = "open" /\ req[r].db \in {None, b.db} /\ UNCHANGED own
             /\ obj' = [obj EXCEPT ![r] = b] /\ cache' = [cache EXCEPT ![Sid(r)] = r] /\ Go(r, "setconn")
    BY <1>1, <1>2, <1>4, BuiltOpenKeeps
  <1>5. CASE req[r].op = "open" /\ Finish(r) /\ UNCHANGED <<own, cache, obj>>
    <2>1. ~Switching(r) /\ ~SeesTo(r, Sid(r)) /\ UNCHANGED <<tables, cache, obj, env>>
      BY <1>1, <1>5 DEF Switching, SeesTo, tables
    <2>2. QED
      BY <1>5, <2>1, JustFinishes
  <1>6. CASE req[r].op = "connect" /\ obj' = [obj EXCEPT ![r] = b] /\ Go(r, "save") /\ UNCHANGED <<own, cache>>
    BY <1>1, <1>2, <1>6, BuiltConnectKeeps
  <1>7. CASE /\ req[r].op = "add" /\ own' = [own EXCEPT ![Sid(r)][Name(r)] = req[r].cfg]
             /\ obj' = [obj EXCEPT ![r] = b] /\ cache' = [cache EXCEPT ![Sid(r)] = r] /\ Go(r, "setconn")
    BY <1>1, <1>2, <1>7, BuiltAddKeeps
  <1>8. CASE /\ req[r].op = "agentAdd" /\ own' = [own EXCEPT ![Sid(r)][Name(r)] = req[r].cfg]
             /\ Finish(r) /\ UNCHANGED <<cache, obj>>
    BY <1>1, <1>8, BuiltAgentAddKeeps
  <1>9. [obj EXCEPT ![r] = b][r].db = b.db
    BY BusyFacts DEF IInv, TypeOK
  <1>10. QED
    BY <1>2, <1>3, <1>4, <1>5, <1>6, <1>7, <1>8, <1>9 DEF BuildOk

-----------------------------------------------------------------------------
(* The theorems.                                                            *)

LEMMA InitHolds ==
  ASSUME Init
  PROVE  IInv
  <1>1. TypeOK
    BY ConnStateAssumption DEF Init, TypeOK, Row, Maybe
  <1>2. Busy = {} /\ \A s \in Sids, n \in Names : own[s][n] = None
    BY DEF Init, Busy, InFlight
  <1>3. Overlaps /\ (\A r \in Busy : Good(r)) /\ NamesApart
    BY <1>2 DEF Overlaps, NamesApart, TakenBySession
  <1>4. Mine /\ ObjectsFit /\ CacheFollows /\ RowsFollow
    BY DEF Init, Mine, ObjectsFit, CacheFollows, Agree, RowsFollow
  <1>5. QED
    BY <1>1, <1>3, <1>4 DEF IInv

LEMMA StepHolds ==
  ASSUME IInv, [Next]_vars
  PROVE  IInv'
  <1>1. ASSUME NEW r \in Reqs, NEW op \in Ops, NEW s \in Sids, Arrive(r, op, s)
        PROVE  IInv'
    BY <1>1, ArriveKeeps
  <1>2. ASSUME NEW r \in Reqs,
               \/ Ensure(r) \/ Resolve(r) \/ Visited(r) \/ Check(r) \/ BuildOk(r) \/ BuildFails(r)
               \/ SaveConnection(r) \/ Enter(r) \/ SetConnection(r) \/ SetDatabase(r) \/ Reply(r)
               \/ Leave(r) \/ Remove(r) \/ RowCheck(r) \/ Pop(r) \/ Clear(r)
        PROVE  IInv'
    <2>1. \E pc \in Phases \ {"done"} : At(r, pc)
      BY <1>2 DEF Ensure, Resolve, Visited, Check, BuildOk, BuildFails, SaveConnection, Enter,
                  SetConnection, SetDatabase, Reply, Leave, Remove, RowCheck, Pop, Clear, Phases
    <2>2. r \in Busy
      BY <2>1 DEF At, Busy, InFlight
    <2>3. QED
      BY <1>2, <2>2, EnsureKeeps, ResolveKeeps, VisitedKeeps, CheckKeeps, BuildOkKeeps,
         BuildFailsKeeps, SaveConnectionKeeps, EnterKeeps, SetConnectionKeeps, SetDatabaseKeeps,
         ReplyKeeps, LeaveKeeps, RemoveKeeps, RowCheckKeeps, PopKeeps, ClearKeeps
  <1>3. ASSUME NEW s \in Sids, Evict(s)
        PROVE  IInv'
    BY <1>3, EvictKeeps
  <1>4. CASE Restart
    BY <1>4, RestartKeeps
  <1>5. CASE UNCHANGED vars
    <2>1. UNCHANGED <<saved, own, row, cache, obj, req, clash, restarts>>
      BY <1>5 DEF vars
    <2>2. Busy' = Busy /\ (TypeOK <=> TypeOK')
      BY <2>1 DEF Busy, InFlight, TypeOK
    <2>3. \A r \in Busy : /\ Sid(r)' = Sid(r) /\ Name(r)' = Name(r) /\ req'[r] = req[r]
                          /\ Fields(req[r])' = Fields(req[r])
      BY <2>1 DEF Sid, Name, Fields
    <2>4. \A r \in Busy : Good(r)'
      BY <2>1, <2>3, EntriesLost
    <2>5. Overlaps' /\ Mine' /\ ObjectsFit' /\ NamesApart'
      BY <2>1, <2>2 DEF IInv, Overlaps, Mine, ObjectsFit, NamesApart, TakenBySession, Sid, Name
    <2>6. CacheFollows'
      BY <2>1, <2>2 DEF IInv, CacheFollows, Agree, Switching, Sid
    <2>7. RowsFollow'
      BY <2>1, <2>2 DEF IInv, RowsFollow, Resolved, SeesTo, Sid, Name
    <2>8. QED
      BY <2>2, <2>4, <2>5, <2>6, <2>7 DEF IInv
  <1>6. QED
    BY <1>1, <1>2, <1>3, <1>4, <1>5 DEF Next

\* The invariant behind the others: what each request in flight has read and built,
\* and who is to put a session's row and entry right again: connect.py.
THEOREM Inductive == Spec => []IInv
  <1>1. Init => IInv
    BY InitHolds
  <1>2. IInv /\ [Next]_vars => IInv'
    BY StepHolds
  <1>3. QED
    BY <1>1, <1>2, PTL DEF Spec

\* What is cached for a settled session is what its row says, whatever has failed, been
\* evicted or been restarted: connect.py's _ensure_session.
THEOREM CacheIsTrue == Spec => []CacheAgrees
  <1>1. IInv => CacheAgrees
    <2>1. SUFFICES ASSUME IInv, NEW s \in Sids \ clash, Settled(s), cache[s] # None
                   PROVE  /\ obj[cache[s]].name = row[s].conn
                          /\ obj[cache[s]].db =
                                IF row[s].db \in Lists[obj[cache[s]].cfg] THEN row[s].db ELSE None
      BY DEF CacheAgrees
    <2>2. \A r \in Busy : Sid(r) # s
      BY <2>1 DEF Settled, Busy
    <2>3. Agree(s)
      BY <2>1, <2>2 DEF IInv, CacheFollows
    <2>4. QED
      BY <2>1, <2>3 DEF Agree
  <1>2. QED
    BY <1>1, Inductive, PTL

LEMMA AtMostOne ==
  ASSUME NEW S, \A x, y \in S : x = y
  PROVE  /\ Cardinality(S) \in {0, 1}
         /\ S = {} => Cardinality(S) = 0
  <1>1. CASE S = {}
    BY <1>1, FS_EmptySet
  <1>2. CASE S # {}
    <2>1. PICK x : S = {x}
      BY <1>2
    <2>2. QED
      BY <1>2, <2>1, FS_Singleton
  <1>3. QED
    BY <1>1, <1>2

\* A row names a connection that there is, and a name is one connection: connect.py's
\* delete_connection and add_session_connection, for any number of requests at once.
THEOREM NamesHold == Spec => []NamesOK
  <1>1. IInv => NoRowDangles
    <2>1. SUFFICES ASSUME IInv, restarts = 0, NEW s \in Sids \ clash, Settled(s), row[s].conn # None
                   PROVE  Resolved(s, row[s].conn) # None
      BY DEF NoRowDangles
    <2>2. \A r \in Busy : ~SeesTo(r, s)
      BY <2>1 DEF Settled, Busy, SeesTo
    <2>3. QED
      BY <2>1, <2>2 DEF IInv, RowsFollow
  <1>2. IInv => NamesUnique
    <2>1. SUFFICES ASSUME IInv, NEW n \in Names \ clash
                   PROVE  Cardinality({s \in Sids : own[s][n] # None})
                             + (IF saved[n] = None THEN 0 ELSE 1) <= 1
      BY DEF NamesUnique
    <2>2. PICK S : S = {s \in Sids : own[s][n] # None}
      OBVIOUS
    <2>3. (\A x, y \in S : x = y) /\ (saved[n] # None => S = {})
      BY <2>1, <2>2 DEF IInv, NamesApart, TakenBySession
    <2>4. Cardinality(S) \in {0, 1} /\ (S = {} => Cardinality(S) = 0)
      BY <2>3, AtMostOne
    <2>5. Cardinality(S) + (IF saved[n] = None THEN 0 ELSE 1) <= 1
      BY <2>3, <2>4
    <2>6. QED
      BY <2>2, <2>5
  <1>3. IInv => NamesOK
    BY <1>1, <1>2 DEF NamesOK, IInv
  <1>4. QED
    BY <1>3, Inductive, PTL

=============================================================================
