--------------------------- MODULE Sessions_proofs ---------------------------
(* TLAPS proofs about Sessions: type correctness, that a tab holds one session, *)
(* and that a fresh claim passes to another tab by force only, for any number   *)
(* of tabs and sessions, any TTL and any requests of pages that are gone.       *)
EXTENDS Sessions, TLAPS

-----------------------------------------------------------------------------
(* The inductive invariant.                                                 *)

Table == [Ids -> Maybe(Row)]

\* A table of rows in which a token is on one row, and the Agent session stands.
Sound(rs) ==
    /\ rs \in Table
    /\ rs[Agent] # None
    /\ \A r, s \in Live(rs) : rs[r].by # None /\ rs[r].by = rs[s].by => r = s

IInv ==
    /\ TypeOK
    /\ Agent \notin deleting
    /\ OneClaimPerTab

\* Between two tables, claims go away but pass to no other tab.
NoneTaken(rs, after, S) ==
    \A s \in S : after[s] # None => rs[s] # None /\ after[s].by \in {None, rs[s].by}

-----------------------------------------------------------------------------
(* The store's helpers.                                                     *)

LEMMA Numbers == TTL \in Nat /\ MaxQuiet \in Nat /\ 0 \in Ages /\ TTL + 1 \in Ages
BY SessionsAssumption DEF Ages

LEMMA RowIsNotNone == ASSUME NEW r \in Row PROVE r # None
BY NoneAssumption

LEMMA OlderIsAge == ASSUME NEW age \in Ages PROVE Older(age) \in Ages
BY SessionsAssumption DEF Ages, Older

LEMMA FreeFacts ==
    ASSUME NEW rs \in Table, NEW token \in Tabs, NEW keep
    PROVE  /\ Free(rs, token, keep) \in Table
           /\ \A s \in Ids : Free(rs, token, keep)[s] = None <=> rs[s] = None
           /\ \A s \in Ids : rs[s] # None /\ s # keep =>
                 /\ Free(rs, token, keep)[s].by # token
                 /\ Free(rs, token, keep)[s].by \in {None, rs[s].by}
           /\ keep \in Ids => Free(rs, token, keep)[keep] = rs[keep]
<1> DEFINE f == Free(rs, token, keep)
<1>1. ASSUME NEW s \in Ids
      PROVE  /\ f[s] \in Maybe(Row)
             /\ f[s] = None <=> rs[s] = None
             /\ rs[s] # None /\ s # keep => f[s].by # token /\ f[s].by \in {None, rs[s].by}
             /\ s = keep => f[s] = rs[s]
  <2>1. CASE s # keep /\ rs[s] # None /\ rs[s].by = token
    <3>1. rs[s] \in Row
      BY <2>1 DEF Table, Maybe
    <3>2. f[s] = [rs[s] EXCEPT !.by = None, !.seen = TTL + 1]
      BY <2>1 DEF Free
    <3>3. f[s] \in Row /\ f[s].by = None
      BY <3>1, <3>2, Numbers DEF Row, Maybe
    <3> QED BY <2>1, <3>3, RowIsNotNone, SessionsAssumption DEF Maybe
  <2>2. CASE ~(s # keep /\ rs[s] # None /\ rs[s].by = token)
    <3>1. f[s] = rs[s]
      BY <2>2 DEF Free
    <3> QED BY <2>2, <3>1 DEF Table
  <2> QED BY <2>1, <2>2
<1>2. f \in Table
  BY <1>1 DEF Free, Table
<1> QED BY <1>1, <1>2

LEMMA SweepFacts ==
    ASSUME NEW rs \in Table
    PROVE  /\ Sweep(rs) \in Table
           /\ \A s \in Ids : Sweep(rs)[s] \in {rs[s], None}
           /\ \A s \in Ids : rs[s] # None /\ (rs[s].by # None \/ s = Agent) => Sweep(rs)[s] = rs[s]
BY DEF Sweep, Table, Maybe

LEMMA ClaimFacts ==
    ASSUME NEW rs \in Table, NEW s \in Ids, NEW token \in Tabs, rs[s] \in Row
    PROVE  LET after == Claim(rs, s, token) IN
           /\ after \in Table
           /\ after[s] # None /\ after[s].by = token
           /\ NoneTaken(rs, after, Ids \ {s})
           /\ \A r \in Ids \ {s} : after[r] # None => after[r].by # token
           /\ rs[Agent] # None => after[Agent] # None
<1> DEFINE f == Free(rs, token, s)
           c == [f EXCEPT ![s] = [@ EXCEPT !.by = token, !.seen = 0, !.idle = 0]]
<1>1. f \in Table /\ f[s] = rs[s]
  BY FreeFacts
<1>2. c[s] \in Row /\ c[s].by = token
  <2>1. c[s] = [rs[s] EXCEPT !.by = token, !.seen = 0, !.idle = 0]
    BY <1>1 DEF Table
  <2> HIDE DEF c, f
  <2>2. token \in Maybe(Tabs)
    BY DEF Maybe
  <2> QED BY <2>1, <2>2, Numbers DEF Row
<1>3. \A r \in Ids \ {s} : c[r] = f[r]
  BY <1>1 DEF Table
<1>4. c \in Table
  BY <1>1, <1>2 DEF Table, Maybe
<1>5. /\ Sweep(c) \in Table
      /\ \A r \in Ids : Sweep(c)[r] \in {c[r], None}
      /\ \A r \in Ids : c[r] # None /\ (c[r].by # None \/ r = Agent) => Sweep(c)[r] = c[r]
  BY <1>4, SweepFacts
<1>6. Claim(rs, s, token) = Sweep(c)
  BY DEF Claim
<1>7. Sweep(c)[s] = c[s]
  BY <1>2, <1>5, RowIsNotNone, SessionsAssumption
<1>8. ASSUME NEW r \in Ids \ {s}, Sweep(c)[r] # None
      PROVE  rs[r] # None /\ Sweep(c)[r].by # token /\ Sweep(c)[r].by \in {None, rs[r].by}
  <2>1. Sweep(c)[r] = f[r] /\ f[r] # None
    BY <1>3, <1>5, <1>8
  <2> QED BY <2>1, FreeFacts
<1>9. rs[Agent] # None => Sweep(c)[Agent] # None
  <2>1. CASE s = Agent
    BY <1>2, <1>7, <2>1, RowIsNotNone
  <2>2. CASE s # Agent
    <3>1. Agent \in Ids \ {s}
      BY <2>2, SessionsAssumption
    <3>2. c[Agent] = f[Agent] /\ (f[Agent] = None <=> rs[Agent] = None)
      BY <1>3, <3>1, FreeFacts
    <3> QED BY <1>5, <3>1, <3>2
  <2> QED BY <2>1, <2>2
<1> QED BY <1>2, <1>5, <1>6, <1>7, <1>8, <1>9, RowIsNotNone DEF NoneTaken

\* A claim keeps a sound table sound: what the tab held before is freed with it.
LEMMA ClaimSound ==
    ASSUME NEW rs, Sound(rs), NEW s \in Ids, NEW token \in Tabs, rs[s] \in Row
    PROVE  Sound(Claim(rs, s, token))
<1> DEFINE after == Claim(rs, s, token)
<1>1. /\ after \in Table
      /\ after[s].by = token
      /\ NoneTaken(rs, after, Ids \ {s})
      /\ \A r \in Ids \ {s} : after[r] # None => after[r].by # token
      /\ after[Agent] # None
  BY ClaimFacts DEF Sound
<1>2. ASSUME NEW r \in Live(after), NEW q \in Live(after),
             after[r].by # None, after[r].by = after[q].by
      PROVE  r = q
  <2> USE <1>1, <1>2
  <2>1. CASE r = s \/ q = s
    BY <2>1 DEF Live
  <2>2. CASE r # s /\ q # s
    BY <2>2 DEF Live, NoneTaken, Sound
  <2> QED BY <2>1, <2>2
<1> QED BY <1>1, <1>2 DEF Sound


-----------------------------------------------------------------------------
(* What a handler does to the rows.                                         *)

\* The state of the rows after a handler, for a request that asks or does not ask by force.
Handled(force) ==
    /\ Sound(rows')
    /\ used' \subseteq Ids
    /\ \A s \in Ids \ used' : rows'[s] = None
    /\ \A s \in Ids : ~force /\ IsHeld(rows[s]) /\ rows'[s] # None =>
          rows'[s].by \in {None, rows[s].by}

LEMMA SoundNow == IInv => Sound(rows)
BY DEF IInv, TypeOK, Sound, Table, OneClaimPerTab

\* Claiming a session that is free, or the tab's own, or by force.
LEMMA TakeHandled ==
    ASSUME IInv, NEW s \in Live(rows), NEW token \in Tabs, NEW force \in BOOLEAN,
           NEW answer, NEW sid, Take(token, s, answer, sid),
           force \/ (IsHeld(rows[s]) => rows[s].by = token)
    PROVE  Handled(force) /\ sid \in Ids
<1>1. s \in Ids /\ rows[s] \in Row /\ s \in used
  BY DEF Live, IInv, TypeOK, Maybe
<1>2. rows' = Claim(rows, s, token) /\ used' = used /\ sid = s
  BY DEF Take
<1>3. Sound(rows')
  BY <1>1, <1>2, SoundNow, ClaimSound
<1>4. rows'[s].by = token /\ NoneTaken(rows, rows', Ids \ {s})
  BY <1>1, <1>2, SoundNow, ClaimFacts DEF Sound
<1>5. ASSUME NEW r \in Ids \ used' PROVE rows'[r] = None
  BY <1>1, <1>2, <1>4, <1>5 DEF NoneTaken, IInv, TypeOK
<1>6. ASSUME NEW r \in Ids, ~force, IsHeld(rows[r]), rows'[r] # None
      PROVE  rows'[r].by \in {None, rows[r].by}
  BY <1>4, <1>6 DEF NoneTaken
<1> QED BY <1>1, <1>2, <1>3, <1>5, <1>6 DEF Handled, IInv, TypeOK

\* Creating a session takes nothing from anybody.
LEMMA CreateHandled ==
    ASSUME IInv, NEW token \in Tabs, NEW answer, NEW sid, Create(token, answer, sid)
    PROVE  Handled(FALSE) /\ Handled(TRUE) /\ sid \in Ids
<1> DEFINE n == NewId
           rs == [rows EXCEPT ![n] = Fresh]
<1>1. n \in Ids \ used /\ rows[n] = None /\ n # Agent
  <2>1. n \in Unused
    BY DEF Create, NewId
  <2> QED BY <2>1 DEF Unused, IInv, TypeOK
<1>2. Fresh \in Row /\ Fresh.by = None
  BY Numbers DEF Fresh, Row, Maybe
<1>3. Sound(rs) /\ rs[n] \in Row
  <2>1. rs \in Table /\ rs[n] = Fresh /\ \A s \in Ids \ {n} : rs[s] = rows[s]
    BY <1>1, <1>2 DEF IInv, TypeOK, Table, Maybe
  <2>2. rs[Agent] # None
    BY <1>1, <2>1, SessionsAssumption DEF IInv, TypeOK
  <2>3. ASSUME NEW r \in Live(rs), NEW s \in Live(rs), rs[r].by # None, rs[r].by = rs[s].by
        PROVE  r = s
    <3>1. r # n /\ s # n
      BY <1>2, <2>1, <2>3
    <3>2. r \in Live(rows) /\ s \in Live(rows) /\ rs[r] = rows[r] /\ rs[s] = rows[s]
      BY <2>1, <3>1 DEF Live
    <3> QED BY <2>3, <3>2 DEF IInv, OneClaimPerTab
  <2> QED BY <1>2, <2>1, <2>2, <2>3 DEF Sound
<1>4. rows' = Claim(rs, n, token) /\ used' = used \cup {n} /\ sid = n
  BY DEF Create
<1>5. Sound(rows')
  BY <1>1, <1>3, <1>4, ClaimSound
<1>6. NoneTaken(rs, rows', Ids \ {n})
  BY <1>1, <1>3, <1>4, ClaimFacts DEF Sound
<1>7. \A s \in Ids \ {n} : rs[s] = rows[s]
  BY <1>1 DEF IInv, TypeOK
<1>8. \A s \in Ids \ used' : rows'[s] = None
  BY <1>4, <1>6, <1>7 DEF NoneTaken, IInv, TypeOK
<1>9. \A s \in Ids : IsHeld(rows[s]) /\ rows'[s] # None => rows'[s].by \in {None, rows[s].by}
  BY <1>1, <1>6, <1>7 DEF NoneTaken, IsHeld
<1> QED BY <1>1, <1>4, <1>5, <1>8, <1>9 DEF Handled, IInv, TypeOK

LEMMA ElsewhereHandled ==
    ASSUME IInv, NEW token \in Tabs, NEW answer, NEW sid, Elsewhere(token, answer, sid)
    PROVE  Handled(FALSE) /\ sid \in Ids
<1>1. CASE \E s \in Resumable : Take(token, s, answer, sid)
  <2>1. PICK s \in Resumable : Take(token, s, answer, sid)
    BY <1>1
  <2>2. s \in Live(rows) /\ ~IsHeld(rows[s])
    BY <2>1, Numbers DEF Resumable, Unheld, IsHeld
  <2> QED BY <2>1, <2>2, TakeHandled
<1>2. CASE Create(token, answer, sid)
  BY <1>2, CreateHandled
<1> QED BY <1>1, <1>2 DEF Elsewhere

LEMMA NothingHandled ==
    ASSUME IInv, UNCHANGED <<rows, used>>
    PROVE  Handled(FALSE) /\ Handled(TRUE)
BY SoundNow DEF Handled, Sound, Live, IInv, TypeOK

\* Every request, of a page that is there or gone.
LEMMA RequestHandled ==
    ASSUME IInv, NEW r, r.sid \in Maybe(Ids), NEW token \in Tabs,
           NEW answer, NEW sid, Handle(r, token, answer, sid)
    PROVE  Handled(r.kind = "force") /\ sid \in Maybe(Ids)
<1>1. ASSUME NEW keep \in BOOLEAN, Attach(token, r.sid, keep, answer, sid)
      PROVE  Handled(FALSE) /\ sid \in Maybe(Ids)
  <2>1. CASE MayReclaim(token, r.sid) /\ Take(token, r.sid, answer, sid)
    BY <2>1, TakeHandled DEF MayReclaim, Maybe
  <2>2. CASE sid = None /\ UNCHANGED <<rows, used>>
    BY <2>2, NothingHandled DEF Maybe
  <2>3. CASE Elsewhere(token, answer, sid)
    BY <2>3, ElsewhereHandled DEF Maybe
  <2> QED BY <1>1, <2>1, <2>2, <2>3 DEF Attach
<1>2. ASSUME NEW force \in BOOLEAN, Select(token, r.sid, force, answer, sid)
      PROVE  Handled(force) /\ sid \in Maybe(Ids)
  <2>1. CASE Create(token, answer, sid)
    BY <2>1, CreateHandled DEF Maybe, Handled
  <2>2. CASE /\ r.sid \in Live(rows)
             /\ force \/ ~IsHeld(rows[r.sid]) \/ rows[r.sid].by = token
             /\ Take(token, r.sid, answer, sid)
    BY <2>2, TakeHandled DEF Maybe
  <2>3. CASE sid = None /\ UNCHANGED <<rows, used>>
    BY <2>3, NothingHandled DEF Maybe, Handled
  <2> QED BY <1>2, <2>1, <2>2, <2>3 DEF Select
<1>3. CASE r.kind \in {"first", "beat"}
  BY <1>1, <1>3 DEF Handle
<1>4. CASE r.kind = "select"
  BY <1>2, <1>4 DEF Handle
<1>5. CASE r.kind = "force"
  BY <1>2, <1>5 DEF Handle
<1> QED BY <1>3, <1>4, <1>5 DEF Handle

-----------------------------------------------------------------------------
(* The rows under the other writes.                                         *)

\* The claims of the rows as they are, or gone.
LEMMA FewerClaims ==
    ASSUME NEW rs, Sound(rs), NEW after \in Table, after[Agent] # None, NoneTaken(rs, after, Ids)
    PROVE  Sound(after)
<1>1. ASSUME NEW r \in Live(after), NEW s \in Live(after),
             after[r].by # None, after[r].by = after[s].by
      PROVE  r = s
  <2>1. r \in Live(rs) /\ s \in Live(rs) /\ rs[r].by = after[r].by /\ rs[s].by = after[s].by
    BY <1>1 DEF Live, NoneTaken
  <2> QED BY <1>1, <2>1 DEF Sound
<1> QED BY <1>1 DEF Sound

\* A step that takes no claim, and gives out no id, is handled whatever was asked.
LEMMA QuietRows ==
    ASSUME IInv, rows' \in Table, rows'[Agent] # None, NoneTaken(rows, rows', Ids), used' = used
    PROVE  Handled(FALSE)
<1>1. Sound(rows')
  BY SoundNow, FewerClaims
<1>2. \A s \in Ids \ used' : rows'[s] = None
  BY DEF NoneTaken, IInv, TypeOK
<1> QED BY <1>1, <1>2 DEF Handled, NoneTaken, IInv, TypeOK

\* The invariant, from what a step does to the rows and the types of the rest.
LEMMA InvFromParts ==
    ASSUME Sound(rows'), used' \subseteq Ids, \A s \in Ids \ used' : rows'[s] = None,
           deleting' \subseteq Ids \ {Agent},
           tab' \in [Tabs -> Tab], late' \subseteq Late, acts' \in Nat
    PROVE  IInv'
BY DEF IInv, TypeOK, Sound, Table, OneClaimPerTab

-----------------------------------------------------------------------------
(* The actions that touch rows.                                             *)

LEMMA ServeHandled ==
    ASSUME IInv, NEW t \in Tabs, Serve(t)
    PROVE  Handled(tab[t].req.kind = "force") /\ IInv'
<1>1. PICK answer \in Answers, sid \in Maybe(Ids) :
        /\ Handle(tab[t].req, tab[t].token, answer, sid)
        /\ tab' = [tab EXCEPT ![t].req = [@ EXCEPT !.answer = answer, !.sid = sid],
                              ![t].heard = IF answer = "ok" THEN 0 ELSE @]
  BY DEF Serve
<1>2. tab[t] \in Tab /\ tab[t].req \in Requests
  BY DEF Serve, IInv, TypeOK, Tab, Maybe
<1>3. Handled(tab[t].req.kind = "force")
  BY <1>1, <1>2, RequestHandled DEF Tab, Requests
<1>4. tab' \in [Tabs -> Tab]
  <2>1. [tab[t].req EXCEPT !.answer = answer, !.sid = sid] \in Requests
    BY <1>2 DEF Requests, Answers
  <2>2. (IF answer = "ok" THEN 0 ELSE tab[t].heard) \in Ages
    BY <1>2, Numbers DEF Tab
  <2>3. [tab[t] EXCEPT !.req = [@ EXCEPT !.answer = answer, !.sid = sid],
                       !.heard = IF answer = "ok" THEN 0 ELSE @] \in Tab
    BY <1>2, <2>1, <2>2 DEF Tab, Maybe
  <2> QED BY <1>1, <2>3 DEF IInv, TypeOK
<1> QED BY <1>3, <1>4, InvFromParts DEF Serve, Handled, IInv, TypeOK

LEMMA ServeLateHandled ==
    ASSUME IInv, NEW m \in late, ServeLate(m)
    PROVE  Handled(m.kind = "force" /\ m \notin late') /\ IInv'
<1>1. m.kind \in {"first", "beat", "select", "force", "beacon", "release"}
      /\ m.token \in Tabs /\ m.sid \in Maybe(Ids)
  BY DEF IInv, TypeOK, Late
<1>2. CASE /\ m.kind \in {"first", "beat", "select", "force"}
           /\ \E answer \in Answers, sid \in Maybe(Ids) : Handle(m, m.token, answer, sid)
           /\ late' = late \ {m}
  <2>1. PICK answer \in Answers, sid \in Maybe(Ids) : Handle(m, m.token, answer, sid)
    BY <1>2
  <2>2. Handled(m.kind = "force")
    BY <1>1, <2>1, RequestHandled
  <2>3. m \notin late' /\ late' \subseteq Late
    BY <1>2 DEF IInv, TypeOK
  <2>4. Handled(m.kind = "force" /\ m \notin late')
    BY <2>2, <2>3 DEF Handled
  <2> QED BY <2>2, <2>3, <2>4, InvFromParts DEF ServeLate, Handled, IInv, TypeOK
<1>3. CASE /\ m.kind = "beacon"
           /\ rows' = IF m.sid \in Live(rows) THEN [rows EXCEPT ![m.sid].idle = 0] ELSE rows
           /\ late' = (late \ {m}) \cup {[m EXCEPT !.kind = "release"]}
           /\ UNCHANGED used
  <2>1. rows' \in Table /\ rows'[Agent] # None /\ NoneTaken(rows, rows', Ids)
    <3>1. CASE m.sid \in Live(rows)
      <4>1. m.sid \in Ids /\ rows[m.sid] \in Row
        BY <3>1 DEF Live, IInv, TypeOK, Maybe
      <4>2. [rows[m.sid] EXCEPT !.idle = 0] \in Row
        BY <4>1, Numbers DEF Row
      <4>3. rows' = [rows EXCEPT ![m.sid] = [rows[m.sid] EXCEPT !.idle = 0]]
        BY <1>3, <3>1
      <4>4. [rows[m.sid] EXCEPT !.idle = 0].by = rows[m.sid].by
        BY <4>1 DEF Row
      <4>5. rows' \in Table
        BY <4>1, <4>2, <4>3 DEF IInv, TypeOK, Table, Maybe
      <4>6. \A s \in Ids : rows'[s] = IF s = m.sid THEN [rows[m.sid] EXCEPT !.idle = 0] ELSE rows[s]
        BY <4>1, <4>3 DEF IInv, TypeOK
      <4>7. rows'[Agent] # None
        BY <4>2, <4>6, RowIsNotNone, SessionsAssumption DEF IInv, TypeOK
      <4>8. NoneTaken(rows, rows', Ids)
        BY <3>1, <4>4, <4>6 DEF NoneTaken, Live
      <4> QED BY <4>5, <4>7, <4>8
    <3>2. CASE m.sid \notin Live(rows)
      BY <1>3, <3>2 DEF NoneTaken, IInv, TypeOK, Table
    <3> QED BY <3>1, <3>2
  <2>2. Handled(FALSE)
    BY <1>3, <2>1, QuietRows
  <2>3. late' \subseteq Late
    <3>1. [m EXCEPT !.kind = "release"] \in Late
      BY DEF IInv, TypeOK, Late
    <3> QED BY <1>3, <3>1 DEF IInv, TypeOK
  <2> QED BY <1>3, <2>2, <2>3, InvFromParts DEF ServeLate, Handled, IInv, TypeOK
<1>4. CASE /\ m.kind = "release"
           /\ rows' = Free(rows, m.token, None)
           /\ late' = late \ {m}
           /\ UNCHANGED used
  <2>1. rows' \in Table /\ rows'[Agent] # None /\ NoneTaken(rows, rows', Ids)
    <3>1. rows \in Table /\ rows[Agent] # None /\ Agent \in Ids /\ None \notin Ids
      BY SoundNow, SessionsAssumption DEF Sound
    <3>2. rows' \in Table /\ rows'[Agent] # None
      BY <1>1, <1>4, <3>1, FreeFacts
    <3>3. ASSUME NEW s \in Ids, rows'[s] # None
          PROVE  rows[s] # None /\ rows'[s].by \in {None, rows[s].by}
      <4>1. s # None /\ rows[s] # None
        BY <1>1, <1>4, <3>1, <3>3, FreeFacts
      <4> QED BY <1>1, <1>4, <3>1, <4>1, FreeFacts
    <3> QED BY <3>2, <3>3 DEF NoneTaken
  <2>2. Handled(FALSE)
    BY <1>4, <2>1, QuietRows
  <2> QED BY <1>4, <2>2, InvFromParts DEF ServeLate, Handled, IInv, TypeOK
<1> QED BY <1>2, <1>3, <1>4 DEF ServeLate

LEMMA RenameHandled ==
    ASSUME IInv, NEW t \in Tabs, NEW named \in BOOLEAN, Rename(t, named)
    PROVE  Handled(FALSE) /\ IInv'
<1> DEFINE s == tab[t].sid
           row == [rows[s] EXCEPT !.named = named, !.idle = 0]
<1>1. s \in Ids /\ rows[s] \in Row
  BY DEF Rename, Live, IInv, TypeOK, Maybe
<1>2. row \in Row /\ row.by = rows[s].by
  BY <1>1, Numbers DEF Row
<1>3. rows' = [rows EXCEPT ![s] = row]
  BY DEF Rename
<1>4. rows' \in Table /\ \A r \in Ids : rows'[r] = IF r = s THEN row ELSE rows[r]
  BY <1>1, <1>2, <1>3 DEF IInv, TypeOK, Table, Maybe
<1>5. rows'[Agent] # None
  BY <1>2, <1>4, RowIsNotNone, SessionsAssumption DEF IInv, TypeOK
<1>6. NoneTaken(rows, rows', Ids)
  BY <1>1, <1>2, <1>4, RowIsNotNone DEF NoneTaken
<1>7. Handled(FALSE)
  BY <1>4, <1>5, <1>6, QuietRows DEF Rename
<1>8. /\ used' = used /\ deleting' = deleting /\ tab' = tab /\ late' = late
      /\ acts' \in Nat
  BY DEF Rename, Act, IInv, TypeOK
<1>9. IInv'
  BY <1>7, <1>8, InvFromParts DEF Handled, IInv, TypeOK
<1> QED BY <1>7, <1>9

LEMMA DeleteHandled ==
    ASSUME IInv, NEW s \in Ids, Delete(s)
    PROVE  Handled(FALSE) /\ IInv'
<1>1. rows' = [rows EXCEPT ![s] = None] /\ s # Agent
  BY DEF Delete, IInv
<1>2. rows' \in Table /\ rows'[Agent] # None /\ NoneTaken(rows, rows', Ids)
  BY <1>1, SessionsAssumption DEF NoneTaken, IInv, TypeOK, Table, Maybe
<1>3. Handled(FALSE)
  BY <1>2, QuietRows DEF Delete
<1> QED BY <1>3, InvFromParts DEF Delete, Handled, IInv, TypeOK

LEMMA TickHandled ==
    ASSUME IInv, Tick
    PROVE  Handled(FALSE) /\ IInv'
<1>1. ASSUME NEW s \in Ids
      PROVE  /\ rows'[s] \in Maybe(Row)
             /\ rows'[s] = None <=> rows[s] = None
             /\ rows'[s] # None => rows'[s].by = rows[s].by
  <2>1. CASE rows[s] = None
    BY <2>1 DEF Tick, Maybe
  <2>2. CASE rows[s] # None
    <3>1. rows[s] \in Row
      BY <2>2 DEF IInv, TypeOK, Maybe
    <3>2. rows'[s] = [rows[s] EXCEPT !.seen = Older(@), !.idle = Older(@)]
      BY <2>2 DEF Tick
    <3>3. rows'[s] \in Row /\ rows'[s].by = rows[s].by
      BY <3>1, <3>2, OlderIsAge DEF Row
    <3> QED BY <2>2, <3>3, RowIsNotNone DEF Maybe
  <2> QED BY <2>1, <2>2
<1>2. rows' \in Table
  BY <1>1 DEF Tick, Table
<1>3. rows'[Agent] # None /\ NoneTaken(rows, rows', Ids)
  BY <1>1, SessionsAssumption DEF NoneTaken, IInv, TypeOK
<1>4. Handled(FALSE)
  BY <1>2, <1>3, QuietRows DEF Tick
<1>5. tab' \in [Tabs -> Tab]
  <2>1. ASSUME NEW t \in Tabs PROVE [tab[t] EXCEPT !.heard = Older(@)] \in Tab
    BY OlderIsAge DEF IInv, TypeOK, Tab
  <2> QED BY <2>1 DEF Tick
<1> QED BY <1>4, <1>5, InvFromParts DEF Tick, Handled, IInv, TypeOK

-----------------------------------------------------------------------------
(* The actions of tabs that touch no row.                                   *)

LEMMA RowsKept ==
    ASSUME IInv, UNCHANGED <<rows, used>>,
           deleting' \subseteq Ids \ {Agent},
           tab' \in [Tabs -> Tab], late' \subseteq Late, acts' \in Nat
    PROVE  IInv'
BY NothingHandled, InvFromParts DEF Handled, IInv, TypeOK

\* A request as it is sent.
LEMMA SentIsRequest ==
    ASSUME NEW kind \in {"first", "beat", "select", "force"}, NEW sid \in Maybe(Ids)
    PROVE  [kind |-> kind, sid |-> sid, answer |-> "sent"] \in Maybe(Requests)
BY DEF Requests, Maybe

LEMMA BlankIsTab ==
    ASSUME NEW t \in Tabs, NEW phase \in Phases
    PROVE  Blank(t, phase) \in Tab
BY Numbers DEF Blank, Tab, Maybe

LEMMA OpenInv == ASSUME IInv, NEW t \in Tabs, Open(t) PROVE IInv'
<1>1. [tab[t] EXCEPT !.phase = "open",
                     !.req = [kind |-> "first", sid |-> None, answer |-> "sent"]] \in Tab
  <2>1. [kind |-> "first", sid |-> None, answer |-> "sent"] \in Maybe(Requests)
    BY SentIsRequest DEF Maybe
  <2>2. tab[t] \in Tab
    BY DEF IInv, TypeOK
  <2> QED BY <2>1, <2>2 DEF Tab, Phases
<1>2. tab' \in [Tabs -> Tab]
  BY <1>1 DEF Open, IInv, TypeOK
<1> QED BY <1>2, RowsKept DEF Open, IInv, TypeOK

LEMMA DuplicateInv == ASSUME IInv, NEW t \in Tabs, NEW u \in Tabs, Duplicate(t, u) PROVE IInv'
<1>1. [tab[u] EXCEPT !.phase = "open", !.token = tab[t].token, !.sid = tab[t].sid,
                     !.req = [kind |-> "first", sid |-> tab[t].sid, answer |-> "sent"]] \in Tab
  <2>1. [kind |-> "first", sid |-> tab[t].sid, answer |-> "sent"] \in Maybe(Requests)
    BY SentIsRequest DEF IInv, TypeOK, Tab
  <2>2. tab[t] \in Tab /\ tab[u] \in Tab
    BY DEF IInv, TypeOK
  <2> QED BY <2>1, <2>2 DEF Tab, Phases
<1>2. tab' \in [Tabs -> Tab]
  BY <1>1 DEF Duplicate, IInv, TypeOK
<1> QED BY <1>2, RowsKept DEF Duplicate, Act, IInv, TypeOK

LEMMA SendIsTab ==
    ASSUME IInv, NEW t \in Tabs, NEW kind \in {"first", "beat", "select", "force"},
           NEW sid \in Maybe(Ids), Send(t, kind, sid)
    PROVE  tab' \in [Tabs -> Tab]
<1>1. [tab[t] EXCEPT !.req = [kind |-> kind, sid |-> sid, answer |-> "sent"]] \in Tab
  BY SentIsRequest DEF IInv, TypeOK, Tab
<1> QED BY <1>1 DEF Send, IInv, TypeOK

LEMMA BeatInv == ASSUME IInv, NEW t \in Tabs, Beat(t) PROVE IInv'
<1>1. tab[t].sid \in Maybe(Ids)
  BY DEF IInv, TypeOK, Tab
<1> QED BY <1>1, SendIsTab, RowsKept DEF Beat, IInv, TypeOK

LEMMA SwitchInv ==
    ASSUME IInv, NEW t \in Tabs, NEW kind \in {"select", "force"}, NEW s \in Maybe(Ids),
           Switch(t, kind, s)
    PROVE  IInv'
BY SendIsTab, RowsKept DEF Switch, Act, IInv, TypeOK

LEMMA ReceiveInv == ASSUME IInv, NEW t \in Tabs, Receive(t) PROVE IInv'
<1> DEFINE r == tab[t].req
           sid == IF r.answer = "ok" THEN r.sid ELSE tab[t].sid
           phase == CASE r.answer = "ok" -> "open"
                      [] r.answer = "taken" -> "taken"
                      [] OTHER -> tab[t].phase
<1>1. tab[t] \in Tab /\ r \in Requests
  BY DEF Receive, IInv, TypeOK, Tab, Maybe
<1>2. sid \in Maybe(Ids) /\ phase \in Phases
  BY <1>1 DEF Tab, Requests, Phases
<1>3. [tab[t] EXCEPT !.req = None, !.sid = sid, !.phase = phase] \in Tab
  BY <1>1, <1>2 DEF Tab, Maybe
<1>4. tab' = [tab EXCEPT ![t] = [@ EXCEPT !.req = None, !.sid = sid, !.phase = phase]]
  BY DEF Receive
<1>5. tab' \in [Tabs -> Tab]
  BY <1>3, <1>4 DEF IInv, TypeOK
<1> QED BY <1>5, RowsKept DEF Receive, IInv, TypeOK

LEMMA BeatLostInv == ASSUME IInv, NEW t \in Tabs, BeatLost(t) PROVE IInv'
<1>1. [tab[t] EXCEPT !.req = None] \in Tab
  BY DEF IInv, TypeOK, Tab, Maybe
<1>2. tab' \in [Tabs -> Tab]
  BY <1>1 DEF BeatLost, IInv, TypeOK
<1> QED BY <1>2, RowsKept DEF BeatLost, IInv, TypeOK

LEMMA BeaconIsLate == ASSUME IInv, NEW t \in Tabs PROVE Beacon(t) \in Late
BY DEF Beacon, Late, IInv, TypeOK, Tab, Maybe

LEMMA OrphansAreLate == ASSUME IInv, NEW t \in Tabs PROVE Orphans(t) \subseteq Late
<1>1. CASE tab[t].req # None
  <2>1. tab[t].req \in Requests /\ tab[t].token \in Tabs
    BY <1>1 DEF IInv, TypeOK, Tab, Maybe
  <2> QED BY <2>1 DEF Orphans, Late, Requests
<1>2. CASE tab[t].req = None
  BY <1>2 DEF Orphans
<1> QED BY <1>1, <1>2

LEMMA LeaveIsLate ==
    ASSUME IInv, NEW t \in Tabs, NEW said, said \subseteq Late, Leave(t, said)
    PROVE  late' \subseteq Late
BY OrphansAreLate DEF Leave, IInv, TypeOK

LEMMA ReloadInv == ASSUME IInv, NEW t \in Tabs, Reload(t) PROVE IInv'
<1>1. [tab[t] EXCEPT !.phase = "open",
                     !.req = [kind |-> "first", sid |-> tab[t].sid, answer |-> "sent"]] \in Tab
  <2>1. [kind |-> "first", sid |-> tab[t].sid, answer |-> "sent"] \in Maybe(Requests)
    BY SentIsRequest DEF IInv, TypeOK, Tab
  <2>2. tab[t] \in Tab
    BY DEF IInv, TypeOK
  <2> QED BY <2>1, <2>2 DEF Tab, Phases
<1>2. tab' \in [Tabs -> Tab]
  BY <1>1 DEF Reload, IInv, TypeOK
<1>3. late' \subseteq Late
  BY BeaconIsLate, LeaveIsLate DEF Reload
<1> QED BY <1>2, <1>3, RowsKept DEF Reload, Leave, Act, IInv, TypeOK

LEMMA GoneInv ==
    ASSUME IInv, NEW t \in Tabs, NEW said, said \subseteq Late, Leave(t, said),
           tab' = [tab EXCEPT ![t] = Blank(t, "gone")], UNCHANGED acts
    PROVE  IInv'
<1>1. tab' \in [Tabs -> Tab]
  BY BlankIsTab DEF Phases, IInv, TypeOK
<1>2. late' \subseteq Late
  BY LeaveIsLate
<1> QED BY <1>1, <1>2, RowsKept DEF Leave, IInv, TypeOK

LEMMA SleepInv ==
    ASSUME IInv, NEW t \in Tabs, Sleep(t) \/ Wake(t)
    PROVE  IInv'
<1>1. ASSUME NEW phase \in Phases PROVE [tab[t] EXCEPT !.phase = phase] \in Tab
  BY DEF IInv, TypeOK, Tab
<1>2. tab' \in [Tabs -> Tab]
  BY <1>1 DEF Sleep, Wake, Phases, IInv, TypeOK
<1> QED BY <1>2, RowsKept DEF Sleep, Wake, Act, IInv, TypeOK

LEMMA DeleteReadInv == ASSUME IInv, NEW s \in Ids, DeleteRead(s) PROVE IInv'
BY RowsKept DEF DeleteRead, Act, Live, IInv, TypeOK

-----------------------------------------------------------------------------
(* The theorems.                                                            *)

LEMMA InitInv == Init => IInv
<1> SUFFICES ASSUME Init PROVE IInv
  OBVIOUS
<1>1. [by |-> None, seen |-> TTL + 1, idle |-> TTL + 1, named |-> FALSE] \in Row
  BY Numbers DEF Row, Maybe
<1>2. rows \in [Ids -> Maybe(Row)] /\ rows[Agent] # None
  BY <1>1, RowIsNotNone, SessionsAssumption DEF Init, Maybe
<1>3. tab \in [Tabs -> Tab]
  BY BlankIsTab DEF Init, Phases
<1>4. OneClaimPerTab
  BY <1>2 DEF Init, OneClaimPerTab, Live
<1> QED BY <1>2, <1>3, <1>4, SessionsAssumption DEF Init, IInv, TypeOK

LEMMA StutterInv == IInv /\ UNCHANGED vars => IInv'
BY DEF IInv, TypeOK, OneClaimPerTab, Live, vars

LEMMA NextInv == ASSUME IInv, Next PROVE IInv'
<1>1. ASSUME NEW t \in Tabs, Open(t) \/ Serve(t) \/ Receive(t) \/ Beat(t) \/ BeatLost(t)
      PROVE  IInv'
  BY <1>1, OpenInv, ServeHandled, ReceiveInv, BeatInv, BeatLostInv
<1>2. ASSUME NEW t \in Tabs, NEW kind \in {"select", "force"}, NEW s \in Maybe(Ids),
             Switch(t, kind, s)
      PROVE  IInv'
  BY <1>2, SwitchInv
<1>3. ASSUME NEW t \in Tabs, Reload(t) \/ Close(t) \/ CrashTab(t) \/ Sleep(t) \/ Wake(t)
      PROVE  IInv'
  <2>1. CASE Close(t)
    BY <2>1, BeaconIsLate, GoneInv DEF Close
  <2>2. CASE CrashTab(t)
    BY <2>2, GoneInv DEF CrashTab
  <2> QED BY <1>3, <2>1, <2>2, ReloadInv, SleepInv
<1>4. ASSUME NEW t \in Tabs, NEW named \in BOOLEAN, Rename(t, named)
      PROVE  IInv'
  BY <1>4, RenameHandled
<1>5. ASSUME NEW t \in Tabs, NEW u \in Tabs, Duplicate(t, u)
      PROVE  IInv'
  BY <1>5, DuplicateInv
<1>6. ASSUME NEW m \in late, ServeLate(m)
      PROVE  IInv'
  BY <1>6, ServeLateHandled
<1>7. ASSUME NEW s \in Ids, DeleteRead(s) \/ Delete(s)
      PROVE  IInv'
  BY <1>7, DeleteReadInv, DeleteHandled
<1>8. CASE Tick
  BY <1>8, TickHandled
<1> QED BY <1>1, <1>2, <1>3, <1>4, <1>5, <1>6, <1>7, <1>8 DEF Next

\* The types, the Agent session's row and one claim per tab together are inductive: they
\* hold in every state, whatever tabs do, lose and leave behind.
THEOREM Inductive == Spec => []IInv
<1>1. IInv /\ [Next]_vars => IInv'
  BY NextInv, StutterInv
<1> QED BY <1>1, InitInv, PTL DEF Spec

\* The types; the Agent session is never swept or deleted, and an id that was not given
\* out has no row.
THEOREM TypeCorrect == Spec => []TypeOK
BY Inductive, PTL DEF IInv

\* A tab holds one session at a time, whatever late requests of its former pages the
\* server still handles (_claim).
THEOREM OneClaim == Spec => []OneClaimPerTab
BY Inductive, PTL DEF IInv

\* A fresh claim passes to another tab only by "Use it here".
THEOREM ClaimsRespected == Spec => ClaimRespected
<1> DEFINE Respects == \A s \in Ids :
             IsHeld(rows[s]) /\ rows'[s] # None /\ rows'[s].by \notin {None, rows[s].by} => Forced
<1>1. IInv /\ [Next]_vars => Respects
  <2> SUFFICES ASSUME IInv, [Next]_vars, NEW s \in Ids,
                      IsHeld(rows[s]), rows'[s] # None, rows'[s].by \notin {None, rows[s].by}
               PROVE  Forced
    OBVIOUS
  <2>1. ~Handled(FALSE)
    BY DEF Handled
  <2>2. rows' # rows
    BY DEF IsHeld
  <2>3. ASSUME NEW t \in Tabs, Serve(t) PROVE Forced
    <3>1. tab[t].req.kind = "force"
      BY <2>1, <2>3, ServeHandled DEF Handled
    <3>2. tab[t].req \in Requests /\ tab[t].req.answer = "sent"
      BY <2>3 DEF Serve, IInv, TypeOK, Tab, Maybe
    <3>3. PICK answer \in Answers, sid \in Maybe(Ids) :
            tab' = [tab EXCEPT ![t].req = [@ EXCEPT !.answer = answer, !.sid = sid],
                               ![t].heard = IF answer = "ok" THEN 0 ELSE @]
      BY <2>3 DEF Serve
    <3>4. tab'[t].req = [tab[t].req EXCEPT !.answer = answer, !.sid = sid]
      BY <3>3 DEF IInv, TypeOK, Tab
    <3>5. tab'[t].req.answer # "sent"
      BY <3>2, <3>4 DEF Answers, Requests
    <3> QED BY <3>1, <3>2, <3>5 DEF Forced
  <2>4. ASSUME NEW m \in late, ServeLate(m) PROVE Forced
    <3>1. m.kind = "force" /\ m \notin late'
      BY <2>1, <2>4, ServeLateHandled DEF Handled
    <3> QED BY <3>1 DEF Forced
  <2>5. ASSUME NEW t \in Tabs, NEW named \in BOOLEAN, Rename(t, named) PROVE FALSE
    BY <2>1, <2>5, RenameHandled
  <2>6. ASSUME NEW q \in Ids, Delete(q) PROVE FALSE
    BY <2>1, <2>6, DeleteHandled
  <2>7. CASE Tick
    BY <2>1, <2>7, TickHandled
  <2>8. CASE UNCHANGED vars
    BY <2>2, <2>8 DEF vars
  <2>9. ASSUME NEW t \in Tabs, Open(t) \/ Receive(t) \/ Beat(t) \/ BeatLost(t) PROVE FALSE
    BY <2>2, <2>9 DEF Open, Receive, Beat, BeatLost
  <2>10. ASSUME NEW t \in Tabs, Reload(t) \/ Close(t) \/ CrashTab(t) \/ Sleep(t) \/ Wake(t)
         PROVE  FALSE
    BY <2>2, <2>10 DEF Reload, Close, CrashTab, Leave, Sleep, Wake
  <2>11. ASSUME NEW t \in Tabs, NEW kind \in {"select", "force"}, NEW q \in Maybe(Ids),
                Switch(t, kind, q)
         PROVE  FALSE
    BY <2>2, <2>11 DEF Switch
  <2>12. ASSUME NEW t \in Tabs, NEW u \in Tabs, Duplicate(t, u) PROVE FALSE
    BY <2>2, <2>12 DEF Duplicate
  <2>13. ASSUME NEW q \in Ids, DeleteRead(q) PROVE FALSE
    BY <2>2, <2>13 DEF DeleteRead
  <2> QED BY <2>3, <2>4, <2>5, <2>6, <2>7, <2>8, <2>9, <2>10, <2>11, <2>12, <2>13 DEF Next
<1> QED BY <1>1, Inductive, PTL DEF ClaimRespected, Spec

-----------------------------------------------------------------------------
(* What a page has heard, and how long its session has been idle.           *)

\* The session has not been idle for longer than the page has heard nothing.
Heard(t, s) == s \in Live(rows) => rows[s].idle <= tab[t].heard

\* A heartbeat is about the page's session, and its answer brings another only when that
\* one is gone; the first request of a page is never turned away.
Asked(t) ==
    LET r == tab[t].req IN
    r # None =>
       /\ r.answer = "ok" => r.sid \in used /\ Heard(t, r.sid)
       /\ r.kind = "first" => r.answer \in {"sent", "ok"}
       /\ r.kind = "beat" =>
             /\ tab[t].sid \in used
             /\ r.answer = "sent" => r.sid = tab[t].sid
             /\ r.answer = "ok" => r.sid = tab[t].sid \/ rows[tab[t].sid] = None

\* The page's session is the one it was last answered with.
Settled(t) == LET r == tab[t].req IN r = None \/ (r.kind # "first" /\ r.answer # "ok")

PageOK(t) ==
    /\ tab[t].sid \in used \cup {None}
    /\ tab[t].phase = "unopened" => tab[t].req = None
    /\ Asked(t)
    /\ tab[t].phase \in {"open", "asleep"} /\ Settled(t) => Heard(t, tab[t].sid)

PInv == IInv /\ \A t \in Tabs : PageOK(t)

\* Sessions that are there were there, and are no longer idle than before.
Younger ==
    /\ used \subseteq used'
    /\ \A s \in used : rows'[s] # None => rows[s] # None /\ rows'[s].idle \in {rows[s].idle, 0}

\* Sessions that are no longer there were idle for longer than the TTL.
Swept == \A s \in Ids : rows[s] # None /\ rows'[s] = None => rows[s].idle = TTL + 1

\* What the answer to a request says.
Answered(r, answer, sid) ==
    /\ answer = "ok" => sid \in used' /\ rows'[sid] # None /\ rows'[sid].idle = 0
    /\ r.kind = "first" => answer = "ok"
    /\ r.kind = "beat" /\ answer = "ok" => sid = r.sid \/ r.sid \notin Live(rows)

LEMMA FreeAges ==
    ASSUME NEW rs \in Table, NEW token, NEW keep, NEW s \in Ids, rs[s] # None
    PROVE  Free(rs, token, keep)[s].idle = rs[s].idle
<1>1. rs[s] \in Row
  BY DEF Table, Maybe
<1>2. [rs[s] EXCEPT !.by = None, !.seen = TTL + 1].idle = rs[s].idle
  BY <1>1 DEF Row
<1> QED BY <1>2 DEF Free

LEMMA SweepAges ==
    ASSUME NEW rs, NEW s \in Ids
    PROVE  \/ Sweep(rs)[s] = rs[s]
           \/ Sweep(rs)[s] = None /\ rs[s].by = None /\ rs[s].idle = TTL + 1
<1>1. CASE /\ rs[s] # None /\ ~rs[s].named /\ s # Agent /\ rs[s].by = None
           /\ rs[s].idle = TTL + 1
  BY <1>1 DEF Sweep
<1>2. CASE ~(/\ rs[s] # None /\ ~rs[s].named /\ s # Agent /\ rs[s].by = None
             /\ rs[s].idle = TTL + 1)
  BY <1>2 DEF Sweep
<1> QED BY <1>1, <1>2

\* A claim makes its session fresh, ages no other, and sweeps what is past its time.
LEMMA ClaimAges ==
    ASSUME NEW rs \in Table, NEW s \in Ids, NEW token \in Tabs, rs[s] \in Row
    PROVE  LET after == Claim(rs, s, token) IN
           /\ after[s] # None /\ after[s].idle = 0
           /\ \A r \in Ids \ {s} : after[r] # None => rs[r] # None /\ after[r].idle = rs[r].idle
           /\ \A r \in Ids \ {s} : rs[r] # None /\ after[r] = None => rs[r].idle = TTL + 1
<1> DEFINE f == Free(rs, token, s)
           c == [f EXCEPT ![s] = [@ EXCEPT !.by = token, !.seen = 0, !.idle = 0]]
<1>1. f \in Table /\ f[s] = rs[s]
  BY FreeFacts
<1>2. c[s] \in Row /\ c[s].by = token /\ c[s].idle = 0
  <2>1. c[s] = [rs[s] EXCEPT !.by = token, !.seen = 0, !.idle = 0]
    BY <1>1 DEF Table
  <2> HIDE DEF c, f
  <2>2. token \in Maybe(Tabs)
    BY DEF Maybe
  <2> QED BY <2>1, <2>2, Numbers DEF Row
<1>3. c \in Table /\ \A r \in Ids \ {s} : c[r] = f[r]
  BY <1>1, <1>2 DEF Table, Maybe
<1>4. Claim(rs, s, token) = Sweep(c)
  BY DEF Claim
<1> HIDE DEF c
<1>5. \A r \in Ids : \/ Sweep(c)[r] = c[r]
                     \/ Sweep(c)[r] = None /\ c[r].by = None /\ c[r].idle = TTL + 1
  BY SweepAges
<1>6. Sweep(c)[s] = c[s] /\ c[s] # None
  BY <1>2, <1>5, RowIsNotNone, SessionsAssumption
<1>7. ASSUME NEW r \in Ids \ {s}
      PROVE  /\ Sweep(c)[r] # None => rs[r] # None /\ Sweep(c)[r].idle = rs[r].idle
             /\ rs[r] # None /\ Sweep(c)[r] = None => rs[r].idle = TTL + 1
  <2>1. f[r] = None <=> rs[r] = None
    BY FreeFacts
  <2>2. rs[r] # None => f[r].idle = rs[r].idle
    BY FreeAges
  <2> QED BY <1>3, <1>5, <2>1, <2>2
<1> QED BY <1>2, <1>4, <1>6, <1>7

LEMMA TakeAges ==
    ASSUME IInv, NEW s \in Live(rows), NEW token \in Tabs,
           NEW answer, NEW sid, Take(token, s, answer, sid)
    PROVE  Younger /\ Swept /\ s \in used /\ rows'[s] # None /\ rows'[s].idle = 0
<1>1. s \in Ids /\ rows[s] \in Row /\ s \in used /\ rows \in Table /\ used \subseteq Ids
  BY DEF Live, IInv, TypeOK, Maybe, Table
<1>2. rows' = Claim(rows, s, token) /\ used' = used
  BY DEF Take
<1>3. /\ rows'[s] # None /\ rows'[s].idle = 0
      /\ \A r \in Ids \ {s} : rows'[r] # None => rows[r] # None /\ rows'[r].idle = rows[r].idle
      /\ \A r \in Ids \ {s} : rows[r] # None /\ rows'[r] = None => rows[r].idle = TTL + 1
  BY <1>1, <1>2, ClaimAges
<1> QED BY <1>1, <1>2, <1>3, RowIsNotNone DEF Younger, Swept

LEMMA CreateAges ==
    ASSUME IInv, NEW token \in Tabs, NEW answer, NEW sid, Create(token, answer, sid)
    PROVE  Younger /\ Swept /\ sid \in used' \ used /\ rows'[sid] # None /\ rows'[sid].idle = 0
<1> DEFINE n == NewId
           rs == [rows EXCEPT ![n] = Fresh]
<1>1. n \in Ids \ used /\ rows[n] = None /\ rows \in Table /\ used \subseteq Ids
  <2>1. n \in Unused
    BY DEF Create, NewId
  <2> QED BY <2>1 DEF Unused, IInv, TypeOK, Table
<1>2. Fresh \in Row
  BY Numbers DEF Fresh, Row, Maybe
<1>3. rs \in Table /\ rs[n] \in Row /\ \A s \in Ids \ {n} : rs[s] = rows[s]
  BY <1>1, <1>2 DEF Table, Maybe
<1>4. rows' = Claim(rs, n, token) /\ used' = used \cup {n} /\ sid = n
  BY DEF Create
<1> HIDE DEF n, rs
<1>5. /\ rows'[n] # None /\ rows'[n].idle = 0
      /\ \A r \in Ids \ {n} : rows'[r] # None => rs[r] # None /\ rows'[r].idle = rs[r].idle
      /\ \A r \in Ids \ {n} : rs[r] # None /\ rows'[r] = None => rs[r].idle = TTL + 1
  BY <1>1, <1>3, <1>4, ClaimAges
<1> QED BY <1>1, <1>3, <1>4, <1>5 DEF Younger, Swept

LEMMA ElsewhereAges ==
    ASSUME IInv, NEW token \in Tabs, NEW answer, NEW sid, Elsewhere(token, answer, sid)
    PROVE  /\ Younger /\ Swept /\ sid \in used' /\ rows'[sid] # None /\ rows'[sid].idle = 0
           /\ answer = "ok"
<1>1. CASE \E s \in Resumable : Take(token, s, answer, sid)
  <2>1. PICK s \in Resumable : Take(token, s, answer, sid)
    BY <1>1
  <2>2. s \in Live(rows) /\ sid = s /\ used' = used /\ answer = "ok"
    BY <2>1 DEF Resumable, Unheld, Take
  <2> QED BY <2>1, <2>2, TakeAges
<1>2. CASE Create(token, answer, sid)
  <2>1. answer = "ok"
    BY <1>2 DEF Create
  <2> QED BY <1>2, <2>1, CreateAges
<1> QED BY <1>1, <1>2 DEF Elsewhere

LEMMA NothingAges == ASSUME UNCHANGED <<rows, used>> PROVE Younger /\ Swept
BY DEF Younger, Swept

LEMMA RequestAges ==
    ASSUME IInv, NEW r, NEW token \in Tabs, NEW answer, NEW sid, Handle(r, token, answer, sid)
    PROVE  Younger /\ Swept /\ Answered(r, answer, sid)
<1>1. ASSUME NEW keep \in BOOLEAN, Attach(token, r.sid, keep, answer, sid)
      PROVE  /\ Younger /\ Swept
             /\ answer = "ok" => sid \in used' /\ rows'[sid] # None /\ rows'[sid].idle = 0
             /\ ~keep => answer = "ok"
             /\ answer = "ok" => sid = r.sid \/ r.sid \notin Live(rows) \/ ~keep
  <2>1. CASE MayReclaim(token, r.sid) /\ Take(token, r.sid, answer, sid)
    <3>1. r.sid \in Live(rows) /\ sid = r.sid /\ answer = "ok" /\ used' = used
      BY <2>1 DEF MayReclaim, Take
    <3> QED BY <2>1, <3>1, TakeAges
  <2>2. CASE keep /\ answer = "taken" /\ UNCHANGED <<rows, used>>
    BY <2>2, NothingAges
  <2>3. CASE ~(keep /\ r.sid \in Live(rows)) /\ Elsewhere(token, answer, sid)
    BY <2>3, ElsewhereAges
  <2> QED BY <1>1, <2>1, <2>2, <2>3 DEF Attach
<1>2. ASSUME NEW force \in BOOLEAN, Select(token, r.sid, force, answer, sid)
      PROVE  /\ Younger /\ Swept
             /\ answer = "ok" => sid \in used' /\ rows'[sid] # None /\ rows'[sid].idle = 0
  <2>1. CASE Create(token, answer, sid)
    BY <2>1, CreateAges
  <2>2. CASE r.sid \in Live(rows) /\ Take(token, r.sid, answer, sid)
    <3>1. sid = r.sid /\ used' = used
      BY <2>2 DEF Take
    <3> QED BY <2>2, <3>1, TakeAges
  <2>3. CASE answer = "refused" /\ UNCHANGED <<rows, used>>
    BY <2>3, NothingAges
  <2> QED BY <1>2, <2>1, <2>2, <2>3 DEF Select
<1>3. CASE r.kind = "first" /\ Attach(token, r.sid, FALSE, answer, sid)
  BY <1>1, <1>3 DEF Answered
<1>4. CASE r.kind = "beat" /\ Attach(token, r.sid, TRUE, answer, sid)
  BY <1>1, <1>4 DEF Answered
<1>5. CASE r.kind = "select" /\ Select(token, r.sid, FALSE, answer, sid)
  BY <1>2, <1>5 DEF Answered
<1>6. CASE r.kind = "force" /\ Select(token, r.sid, TRUE, answer, sid)
  BY <1>2, <1>6 DEF Answered
<1> QED BY <1>3, <1>4, <1>5, <1>6 DEF Handle

LEMMA HeardStays ==
    ASSUME IInv, NEW t \in Tabs, NEW s \in used \cup {None}, Younger, Heard(t, s),
           tab'[t].heard = tab[t].heard
    PROVE  Heard(t, s)'
<1>1. tab[t] \in Tab /\ used \subseteq Ids /\ None \notin Ids /\ \A q \in Ids : rows[q] \in Maybe(Row)
  BY SessionsAssumption DEF IInv, TypeOK
<1>2. SUFFICES ASSUME s \in used, rows'[s] # None PROVE rows'[s].idle <= tab'[t].heard
  BY <1>1 DEF Heard, Live
<1>3. rows[s] # None /\ rows'[s].idle \in {rows[s].idle, 0}
  BY <1>2 DEF Younger
<1>4. rows[s].idle <= tab[t].heard
  BY <1>1, <1>2, <1>3 DEF Heard, Live
<1>5. tab[t].heard \in Nat
  BY <1>1, Numbers DEF Tab, Ages
<1> QED BY <1>3, <1>4, <1>5

\* A page that the step leaves alone.
LEMMA PageStays ==
    ASSUME IInv, NEW t \in Tabs, PageOK(t), Younger, tab'[t] = tab[t]
    PROVE  PageOK(t)'
<1>1. \A s \in used \cup {None} : Heard(t, s) => Heard(t, s)'
  BY HeardStays
<1>2. \A s \in used : rows[s] = None => rows'[s] = None
  BY DEF Younger
<1>3. Settled(t)' = Settled(t)
  BY DEF Settled
<1>4. Asked(t)'
  BY <1>1, <1>2 DEF PageOK, Asked, Younger
<1>5. Heard(t, tab[t].sid) => Heard(t, tab[t].sid)'
  <2>1. PICK s \in used \cup {None} : s = tab[t].sid
    BY DEF PageOK
  <2>2. Heard(t, s) => Heard(t, s)'
    BY <1>1
  <2> QED BY <2>1, <2>2 DEF Heard
<1> QED BY <1>3, <1>4, <1>5 DEF PageOK, Younger

\* A page of which the step changes what it knows, and no row.
LEMMA PageOver ==
    ASSUME PInv, UNCHANGED <<rows, used>>, NEW t \in Tabs,
           \A u \in Tabs \ {t} : tab'[u] = tab[u],
           tab'[t].sid \in used \cup {None},
           tab'[t].phase = "unopened" => tab'[t].req = None,
           Asked(t)',
           tab'[t].phase \in {"open", "asleep"} /\ Settled(t)' => Heard(t, tab[t].sid)'
    PROVE  \A u \in Tabs : PageOK(u)'
<1>1. \A u \in Tabs \ {t} : PageOK(u)'
  BY NothingAges, PageStays DEF PInv
<1>2. PageOK(t)'
  BY DEF PageOK, Heard
<1> QED BY <1>1, <1>2

LEMMA SameHeard ==
    ASSUME UNCHANGED rows, NEW t, NEW s, tab'[t].heard = tab[t].heard
    PROVE  Heard(t, s)' <=> Heard(t, s)
BY DEF Heard, Live

\* A request that has just been sent for the first time, on a page that is new or again.
LEMMA FirstAsked ==
    ASSUME NEW t, NEW sid, tab'[t].req = [kind |-> "first", sid |-> sid, answer |-> "sent"],
           None \notin Requests, sid \in Maybe(Ids)
    PROVE  Asked(t)' /\ ~Settled(t)'
<1>1. tab'[t].req \in Requests
  BY DEF Requests
<1> QED BY <1>1 DEF Asked, Settled

LEMMA OpenPages ==
    ASSUME PInv, NEW t \in Tabs, Open(t)
    PROVE  \A u \in Tabs : PageOK(u)'
<1>1. tab \in [Tabs -> Tab] /\ PageOK(t) /\ UNCHANGED <<rows, used>>
  BY DEF PInv, IInv, TypeOK, Open
<1>2. /\ tab'[t].phase = "open" /\ tab'[t].sid = tab[t].sid
      /\ tab'[t].req = [kind |-> "first", sid |-> None, answer |-> "sent"]
      /\ \A u \in Tabs \ {t} : tab'[u] = tab[u]
  BY <1>1 DEF Open, Tab
<1>3. Asked(t)' /\ ~Settled(t)'
  BY <1>2, FirstAsked, NoneAssumption DEF Maybe
<1> QED BY <1>1, <1>2, <1>3, PageOver DEF PageOK

LEMMA DuplicatePages ==
    ASSUME PInv, NEW t \in Tabs, NEW u \in Tabs, Duplicate(t, u)
    PROVE  \A v \in Tabs : PageOK(v)'
<1>1. tab \in [Tabs -> Tab] /\ PageOK(t) /\ UNCHANGED <<rows, used>>
  BY DEF PInv, IInv, TypeOK, Duplicate
<1>2. /\ tab'[u].phase = "open" /\ tab'[u].sid = tab[t].sid
      /\ tab'[u].req = [kind |-> "first", sid |-> tab[t].sid, answer |-> "sent"]
      /\ \A v \in Tabs \ {u} : tab'[v] = tab[v]
  BY <1>1 DEF Duplicate, Tab
<1>3. tab[t].sid \in Maybe(Ids)
  BY <1>1 DEF Tab
<1>4. Asked(u)' /\ ~Settled(u)'
  BY <1>2, <1>3, FirstAsked, NoneAssumption
<1> QED BY <1>1, <1>2, <1>4, PageOver DEF PageOK

LEMMA ReloadPages ==
    ASSUME PInv, NEW t \in Tabs, Reload(t)
    PROVE  \A u \in Tabs : PageOK(u)'
<1>1. tab \in [Tabs -> Tab] /\ PageOK(t) /\ UNCHANGED <<rows, used>>
  BY DEF PInv, IInv, TypeOK, Reload, Leave
<1>2. /\ tab'[t].phase = "open" /\ tab'[t].sid = tab[t].sid
      /\ tab'[t].req = [kind |-> "first", sid |-> tab[t].sid, answer |-> "sent"]
      /\ \A u \in Tabs \ {t} : tab'[u] = tab[u]
  BY <1>1 DEF Reload, Tab
<1>3. tab[t].sid \in Maybe(Ids)
  BY <1>1 DEF Tab
<1>4. Asked(t)' /\ ~Settled(t)'
  BY <1>2, <1>3, FirstAsked, NoneAssumption
<1> QED BY <1>1, <1>2, <1>4, PageOver DEF PageOK

LEMMA BeatPages ==
    ASSUME PInv, NEW t \in Tabs, Beat(t)
    PROVE  \A u \in Tabs : PageOK(u)'
<1>1. tab \in [Tabs -> Tab] /\ PageOK(t) /\ UNCHANGED <<rows, used>>
  BY DEF PInv, IInv, TypeOK, Beat
<1>2. /\ tab'[t].phase = tab[t].phase /\ tab'[t].sid = tab[t].sid
      /\ tab'[t].heard = tab[t].heard
      /\ tab'[t].req = [kind |-> "beat", sid |-> tab[t].sid, answer |-> "sent"]
      /\ \A u \in Tabs \ {t} : tab'[u] = tab[u]
  BY <1>1 DEF Beat, Send, Tab
<1>3. tab[t].phase = "open" /\ tab[t].req = None /\ tab[t].sid \in used
  BY <1>1 DEF Beat, Page, PageOK
<1>4. Heard(t, tab[t].sid)'
  <2>1. Heard(t, tab[t].sid)
    BY <1>1, <1>3 DEF PageOK, Settled
  <2> QED BY <1>1, <1>2, <2>1 DEF Heard, Live
<1>5. Asked(t)'
  BY <1>1, <1>2, <1>3 DEF Asked
<1> QED BY <1>1, <1>2, <1>3, <1>4, <1>5, PageOver

LEMMA SwitchPages ==
    ASSUME PInv, NEW t \in Tabs, NEW kind \in {"select", "force"}, NEW s \in Maybe(Ids),
           Switch(t, kind, s)
    PROVE  \A u \in Tabs : PageOK(u)'
<1>1. tab \in [Tabs -> Tab] /\ PageOK(t) /\ UNCHANGED <<rows, used>> /\ tab[t].req = None
  BY DEF PInv, IInv, TypeOK, Switch
<1>2. /\ tab'[t].phase = tab[t].phase /\ tab'[t].sid = tab[t].sid
      /\ tab'[t].heard = tab[t].heard
      /\ tab'[t].req = [kind |-> kind, sid |-> s, answer |-> "sent"]
      /\ \A u \in Tabs \ {t} : tab'[u] = tab[u]
  BY <1>1 DEF Switch, Send, Tab
<1>3. tab[t].phase \in {"open", "taken"}
  BY DEF Switch, Page
<1>4. tab[t].phase = "open" => Heard(t, tab[t].sid)'
  <2>1. tab[t].phase = "open" => Heard(t, tab[t].sid)
    BY <1>1 DEF PageOK, Settled
  <2> QED BY <1>1, <1>2, <2>1 DEF Heard, Live
<1>5. Asked(t)'
  BY <1>2 DEF Asked
<1> QED BY <1>1, <1>2, <1>3, <1>4, <1>5, PageOver DEF PageOK

LEMMA ReceivePages ==
    ASSUME PInv, NEW t \in Tabs, Receive(t)
    PROVE  \A u \in Tabs : PageOK(u)'
<1> PICK r : r = tab[t].req
  OBVIOUS
<1>1. /\ tab \in [Tabs -> Tab] /\ PageOK(t) /\ UNCHANGED <<rows, used>>
      /\ r # None /\ r.answer # "sent" /\ tab[t].phase \in {"open", "taken"}
      /\ r \in Requests /\ used \subseteq Ids
  BY DEF PInv, IInv, TypeOK, Receive, Tab, Maybe
<1>2. /\ tab'[t].req = None /\ tab'[t].heard = tab[t].heard
      /\ tab'[t].sid = IF r.answer = "ok" THEN r.sid ELSE tab[t].sid
      /\ tab'[t].phase = CASE r.answer = "ok" -> "open"
                           [] r.answer = "taken" -> "taken"
                           [] OTHER -> tab[t].phase
      /\ \A u \in Tabs \ {t} : tab'[u] = tab[u]
  BY <1>1 DEF Receive, Tab
<1>3. Asked(t)'
  BY <1>2 DEF Asked
<1>4. \A s : Heard(t, s)' <=> Heard(t, s)
  BY <1>1, <1>2, SameHeard
<1>5. CASE r.answer = "ok"
  <2>1. r.sid \in used /\ Heard(t, r.sid)
    BY <1>1, <1>5 DEF PageOK, Asked
  <2>2. Heard(t, tab[t].sid)'
    BY <1>1, <1>2, <1>5, <2>1 DEF Heard, Live
  <2> QED BY <1>1, <1>2, <1>3, <1>5, <2>1, <2>2, PageOver
<1>6. CASE r.answer = "taken"
  BY <1>1, <1>2, <1>3, <1>6, PageOver DEF PageOK
<1>7. CASE r.answer = "refused"
  <2>1. r.kind # "first"
    BY <1>1, <1>7 DEF PageOK, Asked
  <2>2. Settled(t) /\ tab'[t].phase = tab[t].phase /\ tab'[t].sid = tab[t].sid
    BY <1>2, <1>7, <2>1 DEF Settled
  <2>3. tab[t].phase = "open" => Heard(t, tab[t].sid)'
    BY <1>1, <1>2, <2>2 DEF PageOK, Heard, Live
  <2> QED BY <1>1, <1>2, <1>3, <2>2, <2>3, PageOver DEF PageOK
<1> QED BY <1>1, <1>5, <1>6, <1>7 DEF Requests

\* A heartbeat whose answer is lost has renewed the session it was for.
LEMMA BeatLostPages ==
    ASSUME PInv, NEW t \in Tabs, BeatLost(t)
    PROVE  \A u \in Tabs : PageOK(u)'
<1>1. /\ tab \in [Tabs -> Tab] /\ PageOK(t) /\ UNCHANGED <<rows, used>>
      /\ tab[t].req # None /\ tab[t].req.kind = "beat"
  BY DEF PInv, IInv, TypeOK, BeatLost
<1>2. /\ tab'[t].phase = tab[t].phase /\ tab'[t].sid = tab[t].sid
      /\ tab'[t].heard = tab[t].heard /\ tab'[t].req = None
      /\ \A u \in Tabs \ {t} : tab'[u] = tab[u]
  BY <1>1 DEF BeatLost, Tab
<1>3. tab[t].phase \in {"open", "asleep"} => Heard(t, tab[t].sid)
  <2>1. CASE tab[t].req.answer = "ok"
    <3>1. /\ Heard(t, tab[t].req.sid)
          /\ tab[t].req.sid = tab[t].sid \/ rows[tab[t].sid] = None
      BY <1>1, <2>1 DEF PageOK, Asked
    <3> QED BY <3>1 DEF Heard, Live
  <2>2. CASE tab[t].req.answer # "ok"
    BY <1>1, <2>2 DEF PageOK, Settled
  <2> QED BY <2>1, <2>2
<1>4. tab[t].phase \in {"open", "asleep"} => Heard(t, tab[t].sid)'
  BY <1>1, <1>2, <1>3 DEF Heard, Live
<1>5. Asked(t)'
  BY <1>2 DEF Asked
<1> QED BY <1>1, <1>2, <1>4, <1>5, PageOver DEF PageOK

LEMMA GonePages ==
    ASSUME PInv, NEW t \in Tabs, UNCHANGED <<rows, used>>,
           tab' = [tab EXCEPT ![t] = Blank(t, "gone")]
    PROVE  \A u \in Tabs : PageOK(u)'
<1>1. tab \in [Tabs -> Tab]
  BY DEF PInv, IInv, TypeOK
<1>2. /\ tab'[t].phase = "gone" /\ tab'[t].sid = None /\ tab'[t].req = None
      /\ \A u \in Tabs \ {t} : tab'[u] = tab[u]
  BY <1>1 DEF Blank
<1>3. Asked(t)'
  BY <1>2 DEF Asked
<1> QED BY <1>2, <1>3, PageOver

LEMMA SleepPages ==
    ASSUME PInv, NEW t \in Tabs, Sleep(t) \/ Wake(t)
    PROVE  \A u \in Tabs : PageOK(u)'
<1>1. /\ tab \in [Tabs -> Tab] /\ PageOK(t) /\ UNCHANGED <<rows, used>>
      /\ tab[t].phase \in {"open", "asleep"}
  BY DEF PInv, IInv, TypeOK, Sleep, Wake, Page
<1>2. /\ tab'[t].phase \in {"open", "asleep"} /\ tab'[t].sid = tab[t].sid
      /\ tab'[t].heard = tab[t].heard /\ tab'[t].req = tab[t].req
      /\ \A u \in Tabs \ {t} : tab'[u] = tab[u]
  BY <1>1 DEF Sleep, Wake, Tab
<1>3. Settled(t)' = Settled(t) /\ Asked(t)'
  BY <1>1, <1>2 DEF Settled, Asked, PageOK, Heard, Live
<1>4. Settled(t) => Heard(t, tab[t].sid)'
  BY <1>1, <1>2 DEF PageOK, Heard, Live
<1> QED BY <1>1, <1>2, <1>3, <1>4, PageOver DEF PageOK

\* The page hears the answer; every other page's session is no longer idle than it was.
LEMMA ServePages ==
    ASSUME PInv, NEW t \in Tabs, Serve(t)
    PROVE  Swept /\ \A u \in Tabs : PageOK(u)'
<1> PICK r : r = tab[t].req
  OBVIOUS
<1>1. /\ tab \in [Tabs -> Tab] /\ tab[t] \in Tab /\ IInv /\ PageOK(t) /\ tab[t].token \in Tabs
      /\ r # None /\ r.answer = "sent" /\ r \in Requests
  BY DEF PInv, IInv, TypeOK, Serve, Tab, Maybe
<1>2. PICK answer \in Answers, sid \in Maybe(Ids) :
        /\ Handle(r, tab[t].token, answer, sid)
        /\ tab' = [tab EXCEPT ![t].req = [@ EXCEPT !.answer = answer, !.sid = sid],
                              ![t].heard = IF answer = "ok" THEN 0 ELSE @]
  BY DEF Serve
<1>3. /\ tab'[t].phase = tab[t].phase /\ tab'[t].sid = tab[t].sid
      /\ tab'[t].heard = IF answer = "ok" THEN 0 ELSE tab[t].heard
      /\ tab'[t].req = [r EXCEPT !.answer = answer, !.sid = sid]
      /\ \A u \in Tabs \ {t} : tab'[u] = tab[u]
  BY <1>1, <1>2 DEF Tab
<1>4. /\ tab'[t].req.kind = r.kind /\ tab'[t].req.answer = answer /\ tab'[t].req.sid = sid
      /\ tab'[t].req # None
  <2>1. tab'[t].req \in Requests
    BY <1>1, <1>3 DEF Requests, Answers
  <2> QED BY <1>1, <1>3, <2>1, NoneAssumption DEF Requests
<1>5. Younger /\ Swept /\ Answered(r, answer, sid)
  BY <1>1, <1>2, RequestAges
<1>6. \A u \in Tabs \ {t} : PageOK(u)'
  BY <1>1, <1>3, <1>5, PageStays DEF PInv
<1>7. Asked(t)'
  <2>1. answer = "ok" => sid \in used' /\ Heard(t, sid)'
    BY <1>3, <1>5 DEF Answered, Heard, Live
  <2>2. r.kind = "beat" =>
           /\ tab[t].sid \in used' /\ answer # "sent"
           /\ answer = "ok" => sid = tab[t].sid \/ rows'[tab[t].sid] = None
    <3>1. SUFFICES ASSUME r.kind = "beat"
                   PROVE  /\ tab[t].sid \in used' /\ answer # "sent"
                          /\ answer = "ok" => sid = tab[t].sid \/ rows'[tab[t].sid] = None
      OBVIOUS
    <3>2. tab[t].sid \in used /\ r.sid = tab[t].sid
      BY <1>1, <3>1 DEF PageOK, Asked
    <3>3. tab[t].sid \in Ids
      BY <1>1, <3>2 DEF IInv, TypeOK
    <3>4. r.sid \notin Live(rows) => rows'[tab[t].sid] = None
      BY <1>5, <3>2, <3>3 DEF Live, Younger
    <3> QED BY <1>5, <3>1, <3>2, <3>4 DEF Younger, Answered, Answers
  <2>3. r.kind = "first" => answer = "ok"
    BY <1>5 DEF Answered
  <2> QED BY <1>3, <1>4, <2>1, <2>2, <2>3 DEF Asked, Heard
<1>8. tab[t].phase \in {"open", "asleep"} /\ Settled(t)' => Heard(t, tab[t].sid)'
  <2>1. SUFFICES ASSUME tab[t].phase \in {"open", "asleep"}, Settled(t)' PROVE Heard(t, tab[t].sid)'
    OBVIOUS
  <2>2. r.kind # "first" /\ answer # "ok"
    BY <1>4, <2>1 DEF Settled
  <2>3. Heard(t, tab[t].sid) /\ tab'[t].heard = tab[t].heard /\ tab[t].sid \in used \cup {None}
    BY <1>1, <1>3, <2>1, <2>2 DEF PageOK, Settled
  <2>4. PICK s \in used \cup {None} : s = tab[t].sid
    BY <2>3
  <2>5. Heard(t, s)'
    BY <1>1, <1>5, <2>3, <2>4, HeardStays
  <2> QED BY <1>3, <2>4, <2>5 DEF Heard
<1>9. PageOK(t)'
  BY <1>1, <1>3, <1>5, <1>7, <1>8 DEF PageOK, Younger
<1> QED BY <1>5, <1>6, <1>9

\* Pages that are as they were, over rows that are no longer idle than they were.
LEMMA PagesStay ==
    ASSUME PInv, Younger, UNCHANGED tab
    PROVE  \A u \in Tabs : PageOK(u)'
BY PageStays DEF PInv

\* A request of a page that is gone: a beacon's patch and release age nothing.
LEMMA ServeLatePages ==
    ASSUME PInv, NEW m \in late, ServeLate(m)
    PROVE  Swept /\ \A u \in Tabs : PageOK(u)'
<1>1. m.token \in Tabs /\ IInv /\ UNCHANGED tab /\ rows \in Table /\ used \subseteq Ids
  BY DEF PInv, IInv, TypeOK, Late, ServeLate, Table
<1>2. CASE \E answer \in Answers, sid \in Maybe(Ids) : Handle(m, m.token, answer, sid)
  BY <1>1, <1>2, RequestAges, PagesStay
<1>3. CASE /\ rows' = IF m.sid \in Live(rows) THEN [rows EXCEPT ![m.sid].idle = 0] ELSE rows
           /\ UNCHANGED used
  <2>1. ASSUME NEW s \in Ids
        PROVE  /\ rows'[s] = None <=> rows[s] = None
               /\ rows'[s] # None => rows'[s].idle \in {rows[s].idle, 0}
    <3>1. CASE m.sid \in Live(rows) /\ s = m.sid
      <4>1. rows[s] \in Row /\ rows'[s] = [rows[s] EXCEPT !.idle = 0]
        BY <1>1, <1>3, <3>1 DEF Live, Table, Maybe
      <4>2. rows'[s] \in Row /\ rows'[s].idle = 0
        BY <4>1, Numbers DEF Row
      <4> QED BY <4>1, <4>2, RowIsNotNone
    <3>2. CASE ~(m.sid \in Live(rows) /\ s = m.sid)
      BY <1>1, <1>3, <3>2 DEF Table
    <3> QED BY <3>1, <3>2
  <2>2. Younger /\ Swept
    BY <1>1, <1>3, <2>1 DEF Younger, Swept
  <2> QED BY <1>1, <2>2, PagesStay
<1>4. CASE rows' = Free(rows, m.token, None) /\ UNCHANGED used
  <2>1. \A s \in Ids : rows'[s] = None <=> rows[s] = None
    BY <1>1, <1>4, FreeFacts
  <2>2. \A s \in Ids : rows[s] # None => rows'[s].idle = rows[s].idle
    BY <1>1, <1>4, FreeAges
  <2>3. Younger /\ Swept
    BY <1>1, <1>4, <2>1, <2>2 DEF Younger, Swept
  <2> QED BY <1>1, <2>3, PagesStay
<1> QED BY <1>2, <1>3, <1>4 DEF ServeLate

LEMMA RenamePages ==
    ASSUME PInv, NEW t \in Tabs, NEW named \in BOOLEAN, Rename(t, named)
    PROVE  Swept /\ \A u \in Tabs : PageOK(u)'
<1> DEFINE s == tab[t].sid
<1>1. /\ s \in Ids /\ rows[s] \in Row /\ UNCHANGED <<used, tab>> /\ used \subseteq Ids
      /\ rows \in Table
      /\ rows' = [rows EXCEPT ![s] = [rows[s] EXCEPT !.named = named, !.idle = 0]]
  BY DEF Rename, Live, PInv, IInv, TypeOK, Maybe, Table
<1>2. rows'[s] \in Row /\ rows'[s].idle = 0
  <2>1. [rows[s] EXCEPT !.named = named, !.idle = 0] \in Row
    BY <1>1, Numbers DEF Row
  <2> QED BY <1>1, <2>1 DEF Table, Row
<1>3. \A q \in Ids \ {s} : rows'[q] = rows[q]
  BY <1>1 DEF Table
<1>4. rows[s] # None /\ rows'[s] # None
  BY <1>1, <1>2, RowIsNotNone
<1> HIDE DEF s
<1>5. Younger /\ Swept
  BY <1>1, <1>2, <1>3, <1>4 DEF Younger, Swept
<1> QED BY <1>1, <1>5, PagesStay

LEMMA DeletePages ==
    ASSUME PInv, NEW s \in Ids, Delete(s)
    PROVE  \A u \in Tabs : PageOK(u)'
<1>1. rows' = [rows EXCEPT ![s] = None] /\ UNCHANGED <<used, tab>> /\ rows \in Table /\ used \subseteq Ids
  BY DEF Delete, PInv, IInv, TypeOK, Table
<1>2. Younger
  BY <1>1 DEF Younger, Table
<1> QED BY <1>1, <1>2, PagesStay

LEMMA OlderStill ==
    ASSUME NEW a \in Ages, NEW b \in Ages, a <= b
    PROVE  Older(a) <= Older(b)
BY Numbers DEF Older, Ages

\* Rows and pages age together.
LEMMA TickPages ==
    ASSUME PInv, Tick
    PROVE  Swept /\ \A u \in Tabs : PageOK(u)'
<1>1. /\ rows' = [s \in Ids |-> IF rows[s] = None THEN None
                               ELSE [rows[s] EXCEPT !.seen = Older(@), !.idle = Older(@)]]
      /\ tab' = [t \in Tabs |-> [tab[t] EXCEPT !.heard = Older(@)]]
      /\ used' = used /\ used \subseteq Ids /\ rows \in Table
  BY DEF Tick, PInv, IInv, TypeOK, Table
<1>2. ASSUME NEW s \in Ids
      PROVE  /\ rows'[s] = None <=> rows[s] = None
             /\ rows[s] # None => rows[s].idle \in Ages /\ rows'[s].idle = Older(rows[s].idle)
  <2>1. CASE rows[s] = None
    BY <1>1, <2>1
  <2>2. CASE rows[s] # None
    <3>1. rows[s] \in Row /\ rows'[s] = [rows[s] EXCEPT !.seen = Older(@), !.idle = Older(@)]
      BY <1>1, <2>2 DEF Table, Maybe
    <3>2. rows'[s] \in Row /\ rows'[s].idle = Older(rows[s].idle) /\ rows[s].idle \in Ages
      BY <3>1, OlderIsAge DEF Row
    <3> QED BY <2>2, <3>2, RowIsNotNone
  <2> QED BY <2>1, <2>2
<1>3. Swept /\ used' = used
  BY <1>1, <1>2 DEF Swept
<1>4. ASSUME NEW t \in Tabs PROVE PageOK(t)'
  <2>1. /\ tab'[t].phase = tab[t].phase /\ tab'[t].sid = tab[t].sid /\ tab'[t].req = tab[t].req
        /\ tab'[t].heard = Older(tab[t].heard) /\ tab[t].heard \in Ages
    <3>1. tab[t] \in Tab
      BY DEF PInv, IInv, TypeOK
    <3>2. tab'[t] = [tab[t] EXCEPT !.heard = Older(@)]
      BY <1>1
    <3> QED BY <3>1, <3>2 DEF Tab
  <2>2. ASSUME NEW s, Heard(t, s) PROVE Heard(t, s)'
    <3>1. SUFFICES ASSUME s \in Ids, rows'[s] # None PROVE rows'[s].idle <= tab'[t].heard
      BY DEF Heard, Live
    <3>2. rows[s] # None /\ rows[s].idle <= tab[t].heard
      BY <1>2, <2>2, <3>1 DEF Heard, Live
    <3>3. rows[s].idle \in Ages /\ rows'[s].idle = Older(rows[s].idle)
      BY <1>2, <3>1, <3>2
    <3>4. Older(rows[s].idle) <= Older(tab[t].heard)
      BY <2>1, <3>2, <3>3, OlderStill
    <3> QED BY <2>1, <3>3, <3>4
  <2>3. PageOK(t)
    BY DEF PInv
  <2>4. \A s \in used : rows[s] = None => rows'[s] = None
    BY <1>1, <1>2
  <2>5. Asked(t)'
    <3>1. tab[t].req # None /\ tab[t].req.answer = "ok" => Heard(t, tab[t].req.sid)'
      <4>1. PICK q : q = tab[t].req.sid
        OBVIOUS
      <4>2. tab[t].req # None /\ tab[t].req.answer = "ok" => Heard(t, q)
        BY <2>3, <4>1 DEF PageOK, Asked
      <4>3. Heard(t, q) => Heard(t, q)'
        BY <2>2
      <4> QED BY <2>1, <4>1, <4>2, <4>3 DEF Heard
    <3>2. Asked(t)
      BY <2>3 DEF PageOK
    <3>3. tab'[t].req # None /\ tab'[t].req.answer = "ok" => tab'[t].req.sid \in used'
      BY <1>3, <2>1, <3>2 DEF Asked
    <3>4. tab'[t].req # None /\ tab'[t].req.kind = "first" => tab'[t].req.answer \in {"sent", "ok"}
      BY <2>1, <3>2 DEF Asked
    <3>5. tab'[t].req # None /\ tab'[t].req.kind = "beat" =>
             /\ tab'[t].sid \in used'
             /\ tab'[t].req.answer = "sent" => tab'[t].req.sid = tab'[t].sid
             /\ tab'[t].req.answer = "ok" =>
                   tab'[t].req.sid = tab'[t].sid \/ rows'[tab'[t].sid] = None
      BY <1>3, <2>1, <2>4, <3>2 DEF Asked
    <3> QED BY <2>1, <3>1, <3>3, <3>4, <3>5 DEF Asked, Heard
  <2>6. Heard(t, tab[t].sid) => Heard(t, tab[t].sid)'
    <3>1. PICK q : q = tab[t].sid
      OBVIOUS
    <3>2. Heard(t, q) => Heard(t, q)'
      BY <2>2
    <3> QED BY <2>1, <3>1, <3>2 DEF Heard
  <2>7. Settled(t)' = Settled(t)
    BY <2>1 DEF Settled
  <2> QED BY <1>3, <2>1, <2>3, <2>5, <2>6, <2>7 DEF PageOK
<1> QED BY <1>3, <1>4

-----------------------------------------------------------------------------
(* The theorems about pages.                                                *)

LEMMA PagesInit == Init => PInv
<1> SUFFICES ASSUME Init PROVE \A t \in Tabs : PageOK(t)
  BY InitInv DEF PInv
<1>1. \A t \in Tabs : tab[t].phase = "unopened" /\ tab[t].sid = None /\ tab[t].req = None
  BY DEF Init, Blank
<1> QED BY <1>1 DEF PageOK, Asked

\* What a step does to the pages, and to the rows unless it carries out a deletion.
LEMMA PagesNext ==
    ASSUME PInv, Next
    PROVE  /\ \A u \in Tabs : PageOK(u)'
           /\ Swept \/ deleting' # deleting
<1>1. ASSUME NEW t \in Tabs,
             Open(t) \/ Receive(t) \/ Beat(t) \/ BeatLost(t) \/ Reload(t) \/ Sleep(t) \/ Wake(t)
      PROVE  Swept /\ \A u \in Tabs : PageOK(u)'
  <2>1. UNCHANGED <<rows, used>>
    BY <1>1 DEF Open, Receive, Beat, BeatLost, Reload, Leave, Sleep, Wake
  <2> QED BY <1>1, <2>1, NothingAges, OpenPages, ReceivePages, BeatPages, BeatLostPages,
             ReloadPages, SleepPages
<1>2. ASSUME NEW t \in Tabs, Close(t) \/ CrashTab(t)
      PROVE  Swept /\ \A u \in Tabs : PageOK(u)'
  <2>1. UNCHANGED <<rows, used>> /\ tab' = [tab EXCEPT ![t] = Blank(t, "gone")]
    BY <1>2 DEF Close, CrashTab, Leave
  <2> QED BY <2>1, NothingAges, GonePages
<1>3. ASSUME NEW t \in Tabs, NEW kind \in {"select", "force"}, NEW s \in Maybe(Ids),
             Switch(t, kind, s)
      PROVE  Swept /\ \A u \in Tabs : PageOK(u)'
  <2>1. UNCHANGED <<rows, used>>
    BY <1>3 DEF Switch
  <2> QED BY <1>3, <2>1, NothingAges, SwitchPages
<1>4. ASSUME NEW t \in Tabs, NEW u \in Tabs, Duplicate(t, u)
      PROVE  Swept /\ \A v \in Tabs : PageOK(v)'
  <2>1. UNCHANGED <<rows, used>>
    BY <1>4 DEF Duplicate
  <2> QED BY <1>4, <2>1, NothingAges, DuplicatePages
<1>5. ASSUME NEW s \in Ids, DeleteRead(s)
      PROVE  Swept /\ \A u \in Tabs : PageOK(u)'
  <2>1. UNCHANGED <<rows, used, tab>>
    BY <1>5 DEF DeleteRead
  <2> QED BY <2>1, NothingAges, PagesStay
<1>6. ASSUME NEW s \in Ids, Delete(s)
      PROVE  deleting' # deleting /\ \A u \in Tabs : PageOK(u)'
  <2>1. deleting' # deleting
    BY <1>6 DEF Delete
  <2> QED BY <1>6, <2>1, DeletePages
<1>7. ASSUME NEW t \in Tabs, Serve(t)
      PROVE  Swept /\ \A u \in Tabs : PageOK(u)'
  BY <1>7, ServePages
<1>8. ASSUME NEW m \in late, ServeLate(m)
      PROVE  Swept /\ \A u \in Tabs : PageOK(u)'
  BY <1>8, ServeLatePages
<1>9. ASSUME NEW t \in Tabs, NEW named \in BOOLEAN, Rename(t, named)
      PROVE  Swept /\ \A u \in Tabs : PageOK(u)'
  BY <1>9, RenamePages
<1>10. CASE Tick
  BY <1>10, TickPages
<1> QED BY <1>1, <1>2, <1>3, <1>4, <1>5, <1>6, <1>7, <1>8, <1>9, <1>10 DEF Next

LEMMA PagesInductive == ASSUME PInv, [Next]_vars PROVE PInv'
<1>1. IInv'
  BY NextInv, StutterInv DEF PInv
<1>2. CASE Next
  BY <1>1, <1>2, PagesNext DEF PInv
<1>3. CASE UNCHANGED vars
  <2>1. UNCHANGED <<rows, used, tab>>
    BY <1>3 DEF vars
  <2> QED BY <1>1, <2>1, NothingAges, PagesStay DEF PInv
<1> QED BY <1>2, <1>3

\* In every reachable state a heartbeat, sent or answered, is about the session its page
\* shows, and a session is never idle for longer than the page that was last answered with
\* it has heard nothing: whatever is lost, late, reloaded, duplicated or deleted.
THEOREM PagesKnow == Spec => []PInv
<1>1. PInv /\ [Next]_vars => PInv'
  BY PagesInductive
<1> QED BY <1>1, PagesInit, PTL DEF Spec

\* "A running tab is never moved silently": only the answer to a heartbeat that found its
\* session gone brings another (sessions.py, attach with keep; session.ts, the heartbeat).
THEOREM NotMovedSilently == Spec => NeverMovedSilently
<1> DEFINE Stays == \A t \in Tabs :
             tab[t].req # None /\ tab[t].req.kind = "beat"
                /\ tab'[t].phase = "open" /\ tab'[t].sid # tab[t].sid =>
                   tab[t].sid \notin Live(rows)
<1>1. PInv /\ [Next]_vars => Stays
  <2> SUFFICES ASSUME PInv, [Next]_vars, NEW t \in Tabs,
                      tab[t].req # None, tab[t].req.kind = "beat",
                      tab'[t].phase = "open", tab'[t].sid # tab[t].sid
               PROVE  tab[t].sid \notin Live(rows)
    OBVIOUS
  <2>1. tab \in [Tabs -> Tab] /\ PageOK(t)
    BY DEF PInv, IInv, TypeOK
  <2>2. CASE Receive(t)
    <3>1. tab[t].req.answer = "ok" /\ tab[t].req.sid # tab[t].sid
      BY <2>1, <2>2 DEF Receive, Tab
    <3>2. rows[tab[t].sid] = None
      BY <2>1, <3>1 DEF PageOK, Asked
    <3> QED BY <3>2 DEF Live
  <2>3. ASSUME NEW u \in Tabs, u # t, Receive(u) PROVE FALSE
    BY <2>1, <2>3 DEF Receive
  <2>4. ASSUME NEW u \in Tabs, Open(u) \/ Beat(u) \/ BeatLost(u) \/ Reload(u) \/ Sleep(u) \/ Wake(u)
        PROVE  FALSE
    BY <2>1, <2>4 DEF Open, Beat, Send, BeatLost, Reload, Sleep, Wake, Tab
  <2>5. ASSUME NEW u \in Tabs, Close(u) \/ CrashTab(u) PROVE FALSE
    BY <2>1, <2>5 DEF Close, CrashTab, Blank
  <2>6. ASSUME NEW u \in Tabs, Serve(u) PROVE FALSE
    BY <2>1, <2>6 DEF Serve, Tab
  <2>7. ASSUME NEW u \in Tabs, NEW kind \in {"select", "force"}, NEW s \in Maybe(Ids),
               Switch(u, kind, s)
        PROVE  FALSE
    BY <2>1, <2>7 DEF Switch, Send, Tab
  <2>8. ASSUME NEW v \in Tabs, NEW u \in Tabs, Duplicate(v, u) PROVE FALSE
    <3>1. u = t
      BY <2>1, <2>8 DEF Duplicate
    <3> QED BY <2>1, <2>8, <3>1 DEF Duplicate, Page, PageOK
  <2>9. CASE Tick
    <3>1. tab'[t] = [tab[t] EXCEPT !.heard = Older(@)]
      BY <2>9 DEF Tick
    <3> QED BY <2>1, <3>1 DEF Tab
  <2>10. CASE UNCHANGED tab
    BY <2>10
  <2> QED
    BY <2>2, <2>3, <2>4, <2>5, <2>6, <2>7, <2>8, <2>9, <2>10
    DEF Next, ServeLate, Rename, DeleteRead, Delete, vars
<1> QED BY <1>1, PagesKnow, PTL DEF NeverMovedSilently, Spec

\* "The delay is the reload grace": a session that a tab shows and was heard for within the
\* TTL is not swept, even when a late beacon of an earlier page has freed its claim
\* (sessions.py, _sweep).
THEOREM GraceKept == Spec => ReloadGrace
<1> DEFINE Grace == \A t \in Tabs, s \in Ids :
             tab[t].phase \in {"open", "asleep"} /\ tab[t].sid = s /\ tab[t].req = None
                /\ s \in Live(rows) /\ rows'[s] = None /\ deleting' = deleting =>
                   tab[t].heard > TTL
<1>1. PInv /\ [Next]_vars => Grace
  <2> SUFFICES ASSUME PInv, [Next]_vars, NEW t \in Tabs, NEW s \in Ids,
                      tab[t].phase \in {"open", "asleep"}, tab[t].sid = s, tab[t].req = None,
                      s \in Live(rows), rows'[s] = None, deleting' = deleting
               PROVE  tab[t].heard > TTL
    OBVIOUS
  <2>1. rows[s] # None
    BY DEF Live
  <2>2. Next
    BY <2>1 DEF vars
  <2>3. rows[s].idle = TTL + 1
    BY <2>1, <2>2, PagesNext DEF Swept
  <2>4. rows[s].idle <= tab[t].heard
    BY DEF PInv, PageOK, Settled, Heard
  <2>5. tab[t].heard \in Ages
    BY DEF PInv, IInv, TypeOK, Tab
  <2> QED BY <2>3, <2>4, <2>5, Numbers DEF Ages
<1> QED BY <1>1, PagesKnow, PTL DEF ReloadGrace, Spec
=============================================================================
