--------------------------- MODULE ConnLocks_proofs ---------------------------
(* TLAPS proofs about ConnLocks: what memory says of a lock is what the row    *)
(* says, a lock goes by its passphrase, a locked connection serves the tab     *)
(* that unlocked it, and guesses queue, for any number of sessions, names,     *)
(* passphrases, requests in flight and restarts.                               *)
EXTENDS ConnLocks, TLAPS

-----------------------------------------------------------------------------
(* The inductive invariant.                                                 *)

Hash == Locks \cup {None, NoLock}

Done == {"ran", "done"}

\* What a request in flight carries, whatever the row has become.
Shape(q) ==
    /\ q.op \in {"lock", "unlock", "remove"} => q.pass # None
    /\ q.pc # "gate" => q.name # None
    /\ q.pc \in {"lock", "delete"} => q.op = q.pc
    /\ q.pc = "verify" => q.op \in {"unlock", "remove", "delete"}
    /\ q.pc = "check" => q.op \in {"unlock", "remove", "delete"} /\ q.seen \in Locks
    /\ q.pc \in {"commit", "mark"} => q.op \in {"lock", "remove", "delete"}
    /\ q.pc \in {"check", "commit"} /\ q.op = "remove" => q.seen \in Locks

\* What it has read of the row is what the row says, and it may do what it is about to do.
Fresh(r, q) ==
    q.name \notin stale =>
       /\ q.pc \in {"save", "check", "commit"} => q.seen = row[q.name]
       /\ q.pc = "enter" => (q.seen \in Locks <=> row[q.name] \in Locks)
       /\ q.pc = "commit" /\ q.op = "lock" => q.seen = NoLock
       /\ q.pc = "commit" /\ q.op # "lock" /\ q.seen \in Locks => q.pass = q.seen.pass
       /\ q.pc = "mark" /\ q.op = "lock" => row[q.name] = [pass |-> q.pass, by |-> r]
       /\ q.pc = "mark" /\ q.op # "lock" => row[q.name] \notin Locks

\* An attempt under way was counted.
Counted(q) == q.pc = "check" => q.era <= era[q.name] /\ (q.era = era[q.name] => q.tries <= fails[q.name])

Good(r, q) == Shape(q) /\ Fresh(r, q) /\ Counted(q)

\* n is about to be taken from every token.
Leaving(n) == \E r \in InFlight : req[r].name = n /\ req[r].pc = "mark" /\ req[r].op # "lock"

\* What sessions have unlocked was given the passphrase of a lock, and of this one.
Unlocks ==
    \A s \in Sids : \A n \in unlocked[s] :
       /\ proved[s][n] \in Locks
       /\ n \notin stale /\ ~Leaving(n) => proved[s][n] = row[n]

IInv ==
    /\ TypeOK
    /\ \A r \in InFlight : Good(r, req[r])
    /\ CacheKnowsLock
    /\ Unlocks
    /\ BurstQueues

-----------------------------------------------------------------------------
(* Requests.                                                                *)

LEMMA InFlightIs ==
    ASSUME TypeOK, NEW r \in InFlight
    PROVE  r \in Reqs /\ req[r] \in Req /\ req[r].pc \notin Done
BY DEF InFlight, TypeOK, Maybe, Done

LEMMA MovedFacts ==
    ASSUME NEW q \in Req, NEW pc \in Phases
    PROVE  /\ Moved(q, pc) \in Req
           /\ Moved(q, pc).pc = pc
           /\ pc \notin Done => Moved(q, pc) = [q EXCEPT !.pc = pc]
           /\ pc = "ran" => /\ Moved(q, pc).name = q.name
                            /\ Moved(q, pc).sid = q.sid /\ Moved(q, pc).tok = q.tok
<1>1. /\ "query" \in Ops /\ "ran" \in Phases /\ "done" \in Phases
      /\ None \in Maybe(Names) /\ None \in Maybe(Passphrases) /\ None \in Maybe(Reqs)
  BY DEF Ops, Phases, Maybe
<1>2. CASE pc = "ran"
  BY <1>1, <1>2 DEF Moved, Req, Done
<1>3. CASE pc = "done"
  BY <1>1, <1>3 DEF Moved, Req, Done
<1>4. CASE pc \notin Done
  <2>1. Moved(q, pc) = [q EXCEPT !.pc = pc]
    BY <1>4 DEF Moved, Done
  <2> QED BY <1>4, <2>1 DEF Req, Done
<1> QED BY <1>2, <1>3, <1>4 DEF Done

\* Who is in flight after a step of r.
LEMMA StepOf ==
    ASSUME TypeOK, NEW r \in Reqs, NEW q \in Req, req' = [req EXCEPT ![r] = q]
    PROVE  /\ req' \in [Reqs -> Maybe(Req)]
           /\ req'[r] = q /\ q # None
           /\ r \in InFlight' <=> q.pc \notin Done
           /\ \A o \in Reqs \ {r} : req'[o] = req[o] /\ (o \in InFlight' <=> o \in InFlight)
BY NoneAssumption DEF TypeOK, InFlight, Maybe, Done

\* A step that changes only where r is, and neither comes from nor goes to a mark.
LEMMA RequestStep ==
    ASSUME IInv, NEW r \in Reqs, NEW q \in Req, req' = [req EXCEPT ![r] = q],
           UNCHANGED <<row, on, memory, history, stale>>,
           r \in InFlight => req[r].pc # "mark",
           q.pc \notin {"mark", "check"},
           q.pc \notin Done => Shape(q) /\ Fresh(r, q)
    PROVE  IInv'
<1> USE DEF memory, history
<1>0. TypeOK
  BY DEF IInv
<1>1. /\ req' \in [Reqs -> Maybe(Req)]
      /\ req'[r] = q /\ q # None
      /\ r \in InFlight' <=> q.pc \notin Done
      /\ \A o \in Reqs \ {r} : req'[o] = req[o] /\ (o \in InFlight' <=> o \in InFlight)
  BY <1>0, StepOf
<1>2. TypeOK'
  BY <1>0, <1>1 DEF TypeOK
<1>3. ASSUME NEW o \in InFlight'
      PROVE  Good(o, req[o])'
  <2>1. CASE o = r
    BY <1>1, <1>3, <2>1 DEF Good, Shape, Fresh, Counted
  <2>2. CASE o # r
    <3>1. o \in InFlight /\ req'[o] = req[o]
      BY <1>1, <1>3, <2>2 DEF InFlight
    <3> QED BY <3>1 DEF IInv, Good, Shape, Fresh, Counted
  <2> QED BY <2>1, <2>2
<1>4. \A o \in InFlight' : req'[o].pc = "mark" => o \in InFlight /\ req'[o] = req[o]
  BY <1>1 DEF InFlight
<1>5. \A o \in InFlight : req[o].pc = "mark" => o \in InFlight' /\ req'[o] = req[o]
  BY <1>1 DEF InFlight
<1>6. \A n \in Names : Settled(n)' <=> Settled(n)
  BY <1>4, <1>5 DEF Settled
<1>7. \A n \in Names : Leaving(n)' <=> Leaving(n)
  BY <1>4, <1>5 DEF Leaving
<1>8. CacheKnowsLock'
  <2>1. \A s \in Sids : cache[s] # None => cache[s].name \in Names
    BY <1>0 DEF TypeOK, Maybe
  <2> QED BY <1>6, <2>1 DEF IInv, CacheKnowsLock
<1>9. Unlocks'
  <2>1. \A s \in Sids : unlocked[s] \subseteq Names
    BY <1>0 DEF TypeOK
  <2> QED BY <1>7, <2>1 DEF IInv, Unlocks
<1>10. BurstQueues'
  <2>1. \A o \in InFlight' : At(o, "check")' => At(o, "check") /\ req'[o] = req[o] /\ o \in InFlight
    BY <1>1 DEF At, InFlight
  <2> QED BY <2>1 DEF IInv, BurstQueues
<1> QED BY <1>2, <1>3, <1>8, <1>9, <1>10 DEF IInv

LEMMA ArriveStep == ASSUME IInv, NEW r \in Reqs, Arrive(r) PROVE IInv'
<1>1. PICK op \in Ops, s \in Sids, n \in Names, p \in Maybe(Passphrases) : \E t \in Maybe(held[s]) :
         /\ p # None => op \in {"lock", "unlock", "remove", "delete"}
         /\ p = None => op \notin {"lock", "unlock", "remove"}
         /\ t # None => op \in {"query", "config", "save"}
         /\ req' = [req EXCEPT ![r] =
               [op |-> op, sid |-> s, name |-> IF op = "query" THEN None ELSE n, pass |-> p, tok |-> t,
                pc |-> FirstPhase(op), seen |-> None, tries |-> 0, era |-> 0]]
  BY Zenon DEF Arrive
<1>2. PICK t \in Maybe(held[s]) :
         req' = [req EXCEPT ![r] =
               [op |-> op, sid |-> s, name |-> IF op = "query" THEN None ELSE n, pass |-> p, tok |-> t,
                pc |-> FirstPhase(op), seen |-> None, tries |-> 0, era |-> 0]]
  BY <1>1
<1> DEFINE q == [op |-> op, sid |-> s, name |-> IF op = "query" THEN None ELSE n, pass |-> p, tok |-> t,
                 pc |-> FirstPhase(op), seen |-> None, tries |-> 0, era |-> 0]
<1>3. t \in Maybe(Reqs)
  BY DEF IInv, TypeOK, Maybe
<1>4. /\ FirstPhase(op) \in {"gate", "config", "agent", "build", "lock", "delete", "verify"}
      /\ FirstPhase(op) # "gate" => op # "query"
      /\ FirstPhase(op) \in {"lock", "delete"} => op = FirstPhase(op)
      /\ FirstPhase(op) = "verify" => op \in {"unlock", "remove"}
  BY DEF FirstPhase, Ops
<1>5. q \in Req
  BY <1>3, <1>4 DEF Req, Phases, Maybe
<1>6. Shape(q) /\ Fresh(r, q)
  BY <1>1, <1>4, ConnLocksAssumption DEF Shape, Fresh, Ops, Maybe
<1>7. r \notin InFlight
  BY DEF Arrive, InFlight
<1>8. req' = [req EXCEPT ![r] = q]
  BY <1>2
<1>9. q.pc \notin {"mark", "check"}
  BY <1>4
<1>10. UNCHANGED <<row, on, memory, history, stale>>
  BY DEF Arrive
<1> HIDE DEF q
<1> QED BY <1>5, <1>6, <1>7, <1>8, <1>9, <1>10, RequestStep

\* What r carries when it goes on to `pc` with what it had, but for `name` and `seen`.
Gone(r, name, seen, pc) == [req[r] EXCEPT !.name = name, !.seen = seen, !.pc = pc]

LEMMA GoesOn ==
    ASSUME IInv, NEW r \in InFlight, req[r].pc # "mark",
           NEW name \in Maybe(Names), NEW seen \in Hash,
           NEW pc \in Phases \ {"mark", "check"},
           req' = [req EXCEPT ![r] = Moved([@ EXCEPT !.name = name, !.seen = seen], pc)],
           UNCHANGED <<row, on, memory, history, stale>>,
           pc \notin Done => Shape(Gone(r, name, seen, pc)) /\ Fresh(r, Gone(r, name, seen, pc))
    PROVE  IInv'
<1>1. r \in Reqs /\ req[r] \in Req
  BY InFlightIs DEF IInv
<1> DEFINE a == [req[r] EXCEPT !.name = name, !.seen = seen]
           q == Moved(a, pc)
<1>2. a \in Req
  BY <1>1 DEF Req, Hash
<1>3. q \in Req /\ q.pc = pc /\ (pc \notin Done => q = [a EXCEPT !.pc = pc])
  BY <1>2, MovedFacts
<1>4. pc \notin Done => q = Gone(r, name, seen, pc)
  BY <1>3 DEF Gone
<1>5. req' = [req EXCEPT ![r] = q]
  BY <1>1 DEF IInv, TypeOK
<1> HIDE DEF q
<1>6. q.pc \notin Done => Shape(q) /\ Fresh(r, q)
  BY <1>3, <1>4
<1>7. q.pc \notin {"mark", "check"}
  BY <1>3
<1> QED BY <1>1, <1>3, <1>5, <1>6, <1>7, RequestStep

LEMMA SimpleSteps ==
    ASSUME IInv, NEW r \in Reqs,
           Gate(r) \/ Config(r) \/ AgentAsk(r) \/ Build(r) \/ LockRead(r) \/ CheckWrong(r) \/ DeleteRead(r)
    PROVE  IInv'
<1> DEFINE n == req[r].name
           s == req[r].sid
<1>1. r \in InFlight /\ req[r] \in Req /\ Shape(req[r])
  BY InFlightIs DEF IInv, Good, Gate, Config, AgentAsk, Build, LockRead, CheckWrong, DeleteRead, At
<1>2. n \in Maybe(Names) /\ s \in Sids /\ req[r].seen \in Hash
  BY <1>1 DEF Req, Hash
<1>3. req[r] = [req[r] EXCEPT !.name = n, !.seen = req[r].seen]
  BY <1>1 DEF Req
<1>4. req[r].pc # "gate" => n \in Names /\ row[n] \in Hash
  BY <1>1, <1>2 DEF Shape, Maybe, IInv, TypeOK, Hash
<1>5. CASE Gate(r)
  <2> DEFINE name == IF cache[s] # None THEN cache[s].name ELSE on[s]
             pc == CASE cache[s] # None -> Serve(r, cache[s].name, cache[s].locked)
                     [] cache[s] = None /\ on[s] # None -> "build"
                     [] OTHER -> "done"
  <2>1. name \in Maybe(Names)
    BY <1>2 DEF IInv, TypeOK, Maybe
  <2>2. pc \in {"build", "ran", "done"} /\ (pc = "build" => name # None)
    BY DEF Serve
  <2>3. req' = [req EXCEPT ![r] = Moved([@ EXCEPT !.name = name, !.seen = req[r].seen], pc)]
    <3>1. [req[r] EXCEPT !.name = name] = [req[r] EXCEPT !.name = name, !.seen = req[r].seen]
      BY <1>1 DEF Req
    <3>2. req' = [req EXCEPT ![r] = Moved([req[r] EXCEPT !.name = name], pc)]
      BY <1>1, <1>5 DEF Gate, IInv, TypeOK
    <3> HIDE DEF name, pc
    <3> QED BY <1>1, <3>1, <3>2 DEF IInv, TypeOK
  <2>4. req[r].pc = "gate" /\ UNCHANGED <<row, on, memory, history, stale>>
    BY <1>5 DEF Gate, At
  <2> HIDE DEF name, pc
  <2>5. pc \notin Done => Shape(Gone(r, name, req[r].seen, pc)) /\ Fresh(r, Gone(r, name, req[r].seen, pc))
    BY <1>1, <2>2 DEF Shape, Fresh, Done, Req, Gone
  <2> QED BY <1>1, <1>2, <2>1, <2>2, <2>3, <2>4, <2>5, GoesOn DEF Phases
<1>6. CASE Config(r) \/ AgentAsk(r) \/ CheckWrong(r)
  <2>1. PICK pc \in {"build", "ran", "done"} :
           /\ req' = [req EXCEPT ![r] = Moved(@, pc)]
           /\ req[r].pc \in {"config", "agent", "check"}
           /\ UNCHANGED <<row, on, memory, history, stale>>
    BY <1>6 DEF Config, AgentAsk, CheckWrong, Goto, At, Serve
  <2>2. req' = [req EXCEPT ![r] = Moved([@ EXCEPT !.name = n, !.seen = req[r].seen], pc)]
    BY <1>3, <2>1
  <2>3. pc \notin Done => Shape(Gone(r, n, req[r].seen, pc)) /\ Fresh(r, Gone(r, n, req[r].seen, pc))
    BY <1>1, <2>1 DEF Shape, Fresh, Done, Req, Gone
  <2>4. pc \in Phases \ {"mark", "check"}
    BY <2>1 DEF Phases
  <2>5. req[r].pc # "mark" /\ UNCHANGED <<row, on, memory, history, stale>>
    BY <2>1
  <2> HIDE DEF n
  <2> QED BY <1>1, <1>2, <2>2, <2>3, <2>4, <2>5, GoesOn
<1>7. CASE Build(r) \/ LockRead(r) \/ DeleteRead(r)
  <2>1. PICK pc \in {"save", "enter", "commit", "verify", "done"} :
           /\ req' = [req EXCEPT ![r] = Moved([@ EXCEPT !.seen = row[n]], pc)]
           /\ req[r].pc \in {"build", "lock", "delete"}
           /\ pc = "verify" => req[r].pc = "delete"
           /\ pc = "commit" => \/ req[r].pc = "lock" /\ row[n] = NoLock
                               \/ req[r].pc = "delete" /\ row[n] \notin Locks
           /\ UNCHANGED <<row, on, memory, history, stale>>
    <3>1. CASE Build(r)
      BY <3>1 DEF Build, See, At, IsLocked
    <3>2. CASE LockRead(r)
      BY <3>2 DEF LockRead, See, At, IsLocked
    <3>3. CASE DeleteRead(r)
      <4>1. /\ req[r].pc = "delete"
            /\ UNCHANGED <<row, on, memory, history, stale>>
            /\ See(r, CASE row[n] = None \/ (IsLocked(row[n]) /\ req[r].pass = None) -> "done"
                        [] IsLocked(row[n]) /\ req[r].pass # None -> "verify"
                        [] OTHER -> "commit")
        BY <3>3 DEF DeleteRead, At
      <4>2. CASE row[n] = None \/ (IsLocked(row[n]) /\ req[r].pass = None)
        <5>1. See(r, "done")
          BY <4>1, <4>2, ConnLocksAssumption DEF IsLocked
        <5> QED BY <4>1, <5>1 DEF See
      <4>3. CASE row[n] # None /\ IsLocked(row[n]) /\ req[r].pass # None
        <5>1. See(r, "verify")
          BY <4>1, <4>3
        <5> QED BY <4>1, <5>1 DEF See
      <4>4. CASE row[n] # None /\ ~IsLocked(row[n])
        <5>1. See(r, "commit")
          BY <4>1, <4>4
        <5> QED BY <4>1, <4>4, <5>1 DEF See, IsLocked
      <4> QED BY <4>2, <4>3, <4>4
    <3> QED BY <1>7, <3>1, <3>2, <3>3
  <2>2. n \in Names /\ row[n] \in Hash
    BY <1>4, <2>1
  <2>3. req' = [req EXCEPT ![r] = Moved([@ EXCEPT !.name = n, !.seen = row[n]], pc)]
    <3>1. [req[r] EXCEPT !.seen = row[n]] = [req[r] EXCEPT !.name = n, !.seen = row[n]]
      BY <1>1 DEF Req
    <3> QED BY <1>1, <2>1, <3>1 DEF IInv, TypeOK
  <2>4. NoLock \notin Locks
    BY ConnLocksAssumption
  <2>5. pc \notin Done => Shape(Gone(r, n, row[n], pc)) /\ Fresh(r, Gone(r, n, row[n], pc))
    <3> DEFINE q == Gone(r, n, row[n], pc)
    <3>1. /\ q.op = req[r].op /\ q.pc = pc /\ q.name = n /\ q.seen = row[n]
          /\ q.pass = req[r].pass
      BY <1>1 DEF Req, Gone
    <3>2. n # None
      BY <2>2, ConnLocksAssumption
    <3> HIDE DEF q
    <3>3. Shape(q)
      BY <1>1, <2>1, <2>4, <3>1, <3>2 DEF Shape
    <3>4. Fresh(r, q)
      BY <1>1, <2>1, <2>4, <3>1, <3>2 DEF Shape, Fresh
    <3> QED BY <3>3, <3>4 DEF q
  <2>6. pc \in Phases \ {"mark", "check"} /\ n \in Maybe(Names)
    BY <2>1, <2>2 DEF Phases, Maybe
  <2>7. req[r].pc # "mark" /\ UNCHANGED <<row, on, memory, history, stale>>
    BY <2>1
  <2> HIDE DEF n
  <2> QED BY <1>1, <2>2, <2>3, <2>5, <2>6, <2>7, GoesOn
<1> QED BY <1>5, <1>6, <1>7

-----------------------------------------------------------------------------
(* Steps that leave the rows as they are.                                   *)

\* r goes on; what it and the others carry still holds.
LEMMA RowsStand ==
    ASSUME IInv, NEW r \in InFlight, NEW q \in Req, req' = [req EXCEPT ![r] = q],
           UNCHANGED <<row, stale>>,
           fails' \in [Names -> Nat], era' \in [Names -> Nat],
           \A n \in Names : \/ era'[n] = era[n] /\ fails[n] <= fails'[n]
                            \/ era[n] < era'[n],
           q.pc \notin Done => Shape(q) /\ Fresh(r, q),
           q.pc = "check" => /\ q.era <= era'[q.name]
                             /\ q.era = era'[q.name] => q.tries <= fails'[q.name]
    PROVE  /\ req' \in [Reqs -> Maybe(Req)]
           /\ req'[r] = q
           /\ r \in InFlight' <=> q.pc \notin Done
           /\ \A o \in Reqs \ {r} : req'[o] = req[o] /\ (o \in InFlight' <=> o \in InFlight)
           /\ \A o \in InFlight' : Good(o, req[o])'
<1>1. TypeOK /\ r \in Reqs
  BY InFlightIs DEF IInv
<1>2. /\ req' \in [Reqs -> Maybe(Req)]
      /\ req'[r] = q
      /\ r \in InFlight' <=> q.pc \notin Done
      /\ \A o \in Reqs \ {r} : req'[o] = req[o] /\ (o \in InFlight' <=> o \in InFlight)
  BY <1>1, StepOf
<1>3. ASSUME NEW o \in InFlight'
      PROVE  Good(o, req[o])'
  <2>1. CASE o = r
    BY <1>2, <2>1 DEF Good, Shape, Fresh, Counted
  <2>2. CASE o # r
    <3>1. o \in InFlight /\ req'[o] = req[o] /\ o \in Reqs
      BY <1>2, <1>3, <2>2 DEF InFlight
    <3>2. Good(o, req[o]) /\ req[o] \in Req
      BY <1>1, <3>1, InFlightIs DEF IInv
    <3>3. Shape(req[o])' /\ Fresh(o, req[o])'
      BY <3>1, <3>2 DEF Good, Shape, Fresh
    <3>4. Counted(req[o])'
      <4>1. SUFFICES ASSUME req[o].pc = "check"
                     PROVE  Counted(req[o])'
        BY <3>1 DEF Counted
      <4> DEFINE n == req[o].name
      <4>2. n \in Names
        BY <3>2, <4>1, ConnLocksAssumption DEF Good, Shape, Req, Maybe
      <4>3. /\ req[o].era \in Nat /\ req[o].tries \in Nat
            /\ era[n] \in Nat /\ fails[n] \in Nat /\ era'[n] \in Nat /\ fails'[n] \in Nat
        BY <1>1, <3>2, <4>2 DEF Req, TypeOK
      <4>4. req[o].era <= era[n] /\ (req[o].era = era[n] => req[o].tries <= fails[n])
        BY <3>2, <4>1 DEF Good, Counted
      <4>5. \/ era'[n] = era[n] /\ fails[n] <= fails'[n]
            \/ era[n] < era'[n]
        BY <4>2
      <4> HIDE DEF n
      <4>6. req[o].era <= era'[n] /\ (req[o].era = era'[n] => req[o].tries <= fails'[n])
        BY <4>3, <4>4, <4>5
      <4> QED BY <3>1, <4>6 DEF Counted, n
    <3> QED BY <3>3, <3>4 DEF Good
  <2> QED BY <2>1, <2>2
<1> QED BY <1>2, <1>3

\* A request that ends, or goes on elsewhere, leaves the other marks to come as they are.
LEMMA MarksStand ==
    ASSUME IInv, NEW r \in InFlight, NEW q \in Req, req' = [req EXCEPT ![r] = q],
           q.pc # "mark", NEW n \in Names
    PROVE  /\ Settled(n)' /\ (n # req[r].name \/ req[r].pc # "mark") => Settled(n)
           /\ Leaving(n) /\ (n # req[r].name \/ req[r].pc # "mark" \/ req[r].op = "lock") => Leaving(n)'
<1>1. TypeOK /\ r \in Reqs
  BY InFlightIs DEF IInv
<1>2. \A o \in Reqs \ {r} : req'[o] = req[o] /\ (o \in InFlight' <=> o \in InFlight)
  BY <1>1, StepOf
<1>3. InFlight \subseteq Reqs
  BY DEF InFlight
<1>4. ASSUME Settled(n)', n # req[r].name \/ req[r].pc # "mark"
      PROVE  Settled(n)
  BY <1>2, <1>3, <1>4 DEF Settled
<1>5. ASSUME Leaving(n), n # req[r].name \/ req[r].pc # "mark" \/ req[r].op = "lock"
      PROVE  Leaving(n)'
  BY <1>2, <1>3, <1>5 DEF Leaving
<1> QED BY <1>4, <1>5

\* Attempts under way stay apart when none begins.
LEMMA BurstStands ==
    ASSUME IInv, NEW r \in InFlight, NEW q \in Req, req' = [req EXCEPT ![r] = q], q.pc # "check"
    PROVE  BurstQueues'
<1>1. TypeOK /\ r \in Reqs
  BY InFlightIs DEF IInv
<1>2. /\ req'[r] = q
      /\ \A o \in Reqs \ {r} : req'[o] = req[o] /\ (o \in InFlight' <=> o \in InFlight)
  BY <1>1, StepOf
<1>3. \A o \in InFlight' : At(o, "check")' => o \in InFlight /\ At(o, "check") /\ req'[o] = req[o]
  BY <1>2 DEF At, InFlight
<1> QED BY <1>3 DEF IInv, BurstQueues

\* The request ends.
LEMMA Ends ==
    ASSUME IInv, NEW r \in InFlight, NEW pc \in Done, Goto(r, pc),
           UNCHANGED <<row, fails, era, stale>>
    PROVE  /\ req' \in [Reqs -> Maybe(Req)]
           /\ \A o \in InFlight' : Good(o, req[o])'
           /\ BurstQueues'
           /\ \A n \in Names :
                 /\ Settled(n)' /\ (n # req[r].name \/ req[r].pc # "mark") => Settled(n)
                 /\ Leaving(n) /\ (n # req[r].name \/ req[r].pc # "mark" \/ req[r].op = "lock")
                       => Leaving(n)'
<1>1. TypeOK /\ r \in Reqs /\ req[r] \in Req
  BY InFlightIs DEF IInv
<1> DEFINE q == Moved(req[r], pc)
<1>2. q \in Req /\ q.pc \in Done
  BY <1>1, MovedFacts DEF Done, Phases
<1>3. req' = [req EXCEPT ![r] = q]
  BY <1>1 DEF Goto, TypeOK
<1>4. q.pc # "check" /\ q.pc # "mark"
  BY <1>2 DEF Done
<1>5. /\ fails' \in [Names -> Nat] /\ era' \in [Names -> Nat]
      /\ \A n \in Names : era'[n] = era[n] /\ fails[n] <= fails'[n]
  BY <1>1 DEF TypeOK
<1> HIDE DEF q
<1>6. /\ req' \in [Reqs -> Maybe(Req)]
      /\ \A o \in InFlight' : Good(o, req[o])'
  BY <1>2, <1>3, <1>4, <1>5, RowsStand
<1>7. BurstQueues'
  BY <1>2, <1>3, <1>4, BurstStands
<1>8. ASSUME NEW n \in Names
      PROVE  /\ Settled(n)' /\ (n # req[r].name \/ req[r].pc # "mark") => Settled(n)
             /\ Leaving(n) /\ (n # req[r].name \/ req[r].pc # "mark" \/ req[r].op = "lock")
                   => Leaving(n)'
  BY <1>2, <1>3, <1>4, MarksStand
<1> QED BY <1>6, <1>7, <1>8

LEMMA EnterStep == ASSUME IInv, NEW r \in Reqs, Enter(r) PROVE IInv'
<1> DEFINE n == req[r].name
           s == req[r].sid
<1>1. TypeOK /\ r \in InFlight /\ req[r] \in Req /\ Good(r, req[r]) /\ req[r].pc = "enter"
  BY InFlightIs DEF IInv, Enter, At
<1>2. n \in Names /\ s \in Sids
  BY <1>1, ConnLocksAssumption DEF Good, Shape, Req, Maybe
<1>3. PICK pc \in Done : Goto(r, pc)
  BY DEF Enter, Serve, Done
<1>4. /\ cache' = [cache EXCEPT ![s] = [name |-> n, locked |-> IsLocked(req[r].seen)]]
      /\ on' = [on EXCEPT ![s] = IF req[r].op = "query" THEN @ ELSE n]
      /\ UNCHANGED <<row, unlocked, token, held, fails, proved, era, restarts, stale>>
  BY DEF Enter, history
<1>5. /\ req' \in [Reqs -> Maybe(Req)]
      /\ \A o \in InFlight' : Good(o, req[o])'
      /\ BurstQueues'
      /\ \A m \in Names : (Settled(m)' => Settled(m)) /\ (Leaving(m) => Leaving(m)')
  BY <1>1, <1>3, <1>4, Ends
<1>6. [name |-> n, locked |-> IsLocked(req[r].seen)] \in [name: Names, locked: BOOLEAN]
  BY <1>2 DEF IsLocked
<1> HIDE DEF n, s
<1>7. TypeOK'
  <2>1. on' \in [Sids -> Maybe(Names)]
    BY <1>1, <1>2, <1>4 DEF TypeOK, Maybe
  <2>2. cache' \in [Sids -> Maybe([name: Names, locked: BOOLEAN])]
    BY <1>1, <1>4, <1>6 DEF TypeOK, Maybe
  <2> QED BY <1>1, <1>4, <1>5, <2>1, <2>2 DEF TypeOK
<1>8. CacheKnowsLock'
  <2>1. SUFFICES ASSUME NEW u \in Sids, cache'[u] # None, Settled(cache[u].name)',
                        cache'[u].name \notin stale'
                 PROVE  cache'[u].locked = IsLocked(row[cache'[u].name])
    BY <1>4 DEF CacheKnowsLock, IsLocked
  <2>2. CASE u = s
    <3>1. cache'[u] = [name |-> n, locked |-> IsLocked(req[r].seen)]
      BY <1>1, <1>2, <1>4, <2>2 DEF TypeOK
    <3>2. req[r].seen \in Locks <=> row[n] \in Locks
      BY <1>1, <1>4, <2>1, <3>1 DEF Good, Fresh, n
    <3> QED BY <3>1, <3>2 DEF IsLocked
  <2>3. CASE u # s
    <3>1. cache'[u] = cache[u] /\ cache[u].name \in Names
      BY <1>1, <1>4, <2>1, <2>3 DEF TypeOK, Maybe
    <3>2. Settled(cache[u].name)
      BY <1>5, <2>1, <3>1
    <3> QED BY <1>4, <2>1, <3>1, <3>2 DEF IInv, CacheKnowsLock
  <2> QED BY <2>2, <2>3
<1>9. Unlocks'
  <2>1. \A u \in Sids : unlocked[u] \subseteq Names
    BY <1>1 DEF TypeOK
  <2> QED BY <1>4, <1>5, <2>1 DEF IInv, Unlocks
<1> QED BY <1>5, <1>7, <1>8, <1>9 DEF IInv

\* The tab is given its token: a session's token is one its tabs hold.
LEMMA Issued ==
    ASSUME TypeOK, NEW r \in InFlight, req[r].name \in Names, IssueToken(r)
    PROVE  /\ unlocked' \in [Sids -> SUBSET Names]
           /\ token' \in [Sids -> Maybe(Reqs)]
           /\ held' \in [Sids -> SUBSET Reqs]
           /\ \A u \in Sids : unlocked'[u] # {} => token'[u] \in held'[u]
           /\ \A u \in Sids : unlocked'[u] \subseteq unlocked[u] \cup
                 IF u = req[r].sid THEN {req[r].name} ELSE {}
<1> DEFINE s == req[r].sid
           t == IF token[s] = None THEN r ELSE token[s]
<1>1. r \in Reqs /\ s \in Sids
  BY InFlightIs DEF Req
<1>2. t \in Reqs
  BY <1>1 DEF TypeOK, Maybe
<1>3. /\ unlocked' = [unlocked EXCEPT ![s] = @ \cup {req[r].name}]
      /\ token' = [token EXCEPT ![s] = t]
      /\ held' = [held EXCEPT ![s] = @ \cup {t}]
  BY DEF IssueToken
<1> HIDE DEF s, t
<1>4. unlocked' \in [Sids -> SUBSET Names]
  BY <1>1, <1>3 DEF TypeOK
<1>5. token' \in [Sids -> Maybe(Reqs)]
  BY <1>1, <1>2, <1>3 DEF TypeOK, Maybe
<1>6. held' \in [Sids -> SUBSET Reqs]
  BY <1>1, <1>2, <1>3 DEF TypeOK
<1>7. ASSUME NEW u \in Sids, unlocked'[u] # {}
      PROVE  token'[u] \in held'[u]
  BY <1>1, <1>3, <1>7 DEF TypeOK
<1>8. ASSUME NEW u \in Sids
      PROVE  unlocked'[u] \subseteq unlocked[u] \cup IF u = s THEN {req[r].name} ELSE {}
  BY <1>1, <1>3 DEF TypeOK
<1> QED BY <1>4, <1>5, <1>6, <1>7, <1>8 DEF s

LEMMA LockMarkStep == ASSUME IInv, NEW r \in Reqs, LockMark(r) PROVE IInv'
<1> DEFINE n == req[r].name
           s == req[r].sid
           mine == [pass |-> req[r].pass, by |-> r]
<1>1. /\ TypeOK /\ r \in InFlight /\ req[r] \in Req /\ Good(r, req[r])
      /\ req[r].pc = "mark" /\ req[r].op = "lock"
  BY InFlightIs DEF IInv, LockMark, At
<1>2. n \in Names /\ s \in Sids /\ mine \in Locks
  BY <1>1, ConnLocksAssumption DEF Good, Shape, Req, Maybe, Locks
<1>3. /\ cache' = [u \in Sids |-> IF cache[u] # None /\ cache[u].name = n
                                 THEN [cache[u] EXCEPT !.locked = TRUE] ELSE cache[u]]
      /\ IssueToken(r)
      /\ proved' = [proved EXCEPT ![s][n] = mine]
      /\ Goto(r, "done")
      /\ UNCHANGED <<row, on, fails, era, stale, restarts>>
  BY DEF LockMark
<1>4. /\ req' \in [Reqs -> Maybe(Req)]
      /\ \A o \in InFlight' : Good(o, req[o])'
      /\ BurstQueues'
      /\ \A m \in Names : (Settled(m)' /\ m # n => Settled(m)) /\ (Leaving(m) => Leaving(m)')
  BY <1>1, <1>3, Ends DEF Done
<1>5. /\ unlocked' \in [Sids -> SUBSET Names]
      /\ token' \in [Sids -> Maybe(Reqs)]
      /\ held' \in [Sids -> SUBSET Reqs]
      /\ \A u \in Sids : unlocked'[u] # {} => token'[u] \in held'[u]
      /\ \A u \in Sids : unlocked'[u] \subseteq unlocked[u] \cup IF u = s THEN {n} ELSE {}
  BY <1>1, <1>2, <1>3, Issued
<1>6. n \notin stale => row[n] = mine
  BY <1>1 DEF Good, Fresh
<1> HIDE DEF n, s, mine
<1>7. /\ proved' \in [Sids -> [Names -> Maybe(Locks)]]
      /\ proved'[s][n] = mine
      /\ \A u \in Sids, m \in Names : u # s \/ m # n => proved'[u][m] = proved[u][m]
  BY <1>1, <1>2, <1>3 DEF TypeOK, Maybe
<1>8. ASSUME NEW u \in Sids
      PROVE  /\ cache'[u] \in Maybe([name: Names, locked: BOOLEAN])
             /\ cache'[u] # None => /\ cache[u] # None /\ cache'[u].name = cache[u].name
                                    /\ cache[u].name \in Names
                                    /\ cache[u].name = n => cache'[u].locked = TRUE
                                    /\ cache[u].name # n => cache'[u] = cache[u]
  <2>1. cache[u] \in Maybe([name: Names, locked: BOOLEAN])
    BY <1>1 DEF TypeOK
  <2>2. cache'[u] = IF cache[u] # None /\ cache[u].name = n
                    THEN [cache[u] EXCEPT !.locked = TRUE] ELSE cache[u]
    BY <1>3
  <2>3. CASE cache[u] = None
    BY <2>1, <2>2, <2>3
  <2>4. CASE cache[u] # None
    BY <2>1, <2>2, <2>4 DEF Maybe
  <2> QED BY <2>3, <2>4
<1>9. TypeOK'
  <2>1. cache' \in [Sids -> Maybe([name: Names, locked: BOOLEAN])]
    BY <1>3, <1>8
  <2> QED BY <1>1, <1>3, <1>4, <1>5, <1>7, <2>1 DEF TypeOK
<1>10. CacheKnowsLock'
  <2>1. SUFFICES ASSUME NEW u \in Sids, cache'[u] # None, Settled(cache[u].name)',
                        cache'[u].name \notin stale'
                 PROVE  cache'[u].locked = IsLocked(row[cache'[u].name])
    BY <1>3 DEF CacheKnowsLock, IsLocked
  <2>2. CASE cache[u].name = n
    <3>1. cache'[u].locked = TRUE /\ cache'[u].name = n
      BY <1>8, <2>1, <2>2
    <3>2. n \notin stale
      BY <1>3, <2>1, <3>1
    <3>3. row[n] \in Locks
      BY <1>2, <1>6, <3>2
    <3> QED BY <3>1, <3>3 DEF IsLocked
  <2>3. CASE cache[u].name # n
    <3>1. Settled(cache[u].name) /\ cache'[u] = cache[u] /\ cache[u] # None
      BY <1>4, <1>8, <2>1, <2>3
    <3>2. stale' = stale
      BY <1>3
    <3>3. cache[u].locked = IsLocked(row[cache[u].name])
      BY <2>1, <3>1, <3>2 DEF IInv, CacheKnowsLock
    <3> QED BY <3>1, <3>3
  <2> QED BY <2>2, <2>3
<1>11. Unlocks'
  <2>1. SUFFICES ASSUME NEW u \in Sids, NEW m \in unlocked'[u]
                 PROVE  /\ proved'[u][m] \in Locks
                        /\ m \notin stale' /\ ~Leaving(m)' => proved'[u][m] = row'[m]
    BY DEF Unlocks
  <2>2. m \in Names
    BY <1>5
  <2>3. CASE u = s /\ m = n
    BY <1>2, <1>3, <1>6, <1>7, <2>3
  <2>4. CASE u # s \/ m # n
    <3>1. m \in unlocked[u] /\ proved'[u][m] = proved[u][m]
      BY <1>5, <1>7, <2>2, <2>4
    <3> QED BY <1>3, <1>4, <2>2, <3>1 DEF IInv, Unlocks
  <2> QED BY <2>3, <2>4
<1> QED BY <1>4, <1>9, <1>10, <1>11 DEF IInv

\* A lock that is gone is taken from every token and every cached object.
LEMMA ForgetStep == ASSUME IInv, NEW r \in Reqs, RemoveMark(r) \/ DeleteMark(r) PROVE IInv'
<1> DEFINE n == req[r].name
<1>1. /\ TypeOK /\ r \in InFlight /\ req[r] \in Req /\ Good(r, req[r])
      /\ req[r].pc = "mark" /\ req[r].op \in {"remove", "delete"}
  BY InFlightIs DEF IInv, RemoveMark, DeleteMark, At
<1>2. n \in Names
  BY <1>1, ConnLocksAssumption DEF Good, Shape, Req, Maybe
<1>3. /\ unlocked' = [u \in Sids |-> unlocked[u] \ {n}]
      /\ Goto(r, "done")
      /\ UNCHANGED <<row, token, held, fails, proved, era, restarts, stale>>
  BY DEF RemoveMark, DeleteMark, history
<1>4. /\ req' \in [Reqs -> Maybe(Req)]
      /\ \A o \in InFlight' : Good(o, req[o])'
      /\ BurstQueues'
      /\ \A m \in Names : m # n => (Settled(m)' => Settled(m)) /\ (Leaving(m) => Leaving(m)')
  BY <1>1, <1>3, Ends DEF Done
<1>5. n \notin stale => row[n] \notin Locks
  BY <1>1 DEF Good, Fresh
<1>6. ASSUME NEW u \in Sids
      PROVE  /\ cache'[u] \in Maybe([name: Names, locked: BOOLEAN])
             /\ cache'[u] # None => /\ cache[u] # None /\ cache'[u].name = cache[u].name
                                    /\ cache[u].name \in Names
                                    /\ cache[u].name = n => cache'[u].locked = FALSE
                                    /\ cache[u].name # n => cache'[u] = cache[u]
  <2>1. cache[u] \in Maybe([name: Names, locked: BOOLEAN])
    BY <1>1 DEF TypeOK
  <2>2. \/ cache'[u] = IF cache[u] # None /\ cache[u].name = n
                       THEN [cache[u] EXCEPT !.locked = FALSE] ELSE cache[u]
        \/ cache'[u] = IF cache[u] # None /\ cache[u].name = n THEN None ELSE cache[u]
    BY DEF RemoveMark, DeleteMark
  <2> HIDE DEF n
  <2>3. CASE cache[u] = None
    BY <2>1, <2>2, <2>3
  <2>4. CASE cache[u] # None
    BY <2>1, <2>2, <2>4 DEF Maybe
  <2> QED BY <2>3, <2>4
<1>7. \E f : cache' = [u \in Sids |-> f[u]]
  <2>1. CASE RemoveMark(r)
    <3>1. cache' = [u \in Sids |-> [w \in Sids |-> IF cache[w] # None /\ cache[w].name = n
                                THEN [cache[w] EXCEPT !.locked = FALSE] ELSE cache[w]][u]]
      BY <2>1 DEF RemoveMark
    <3> QED BY <3>1
  <2>2. CASE DeleteMark(r)
    <3>1. cache' = [u \in Sids |-> [w \in Sids |-> IF cache[w] # None /\ cache[w].name = n
                                THEN None ELSE cache[w]][u]]
      BY <2>2 DEF DeleteMark
    <3> QED BY <3>1
  <2> QED BY <2>1, <2>2
<1>8. on' \in [Sids -> Maybe(Names)]
  BY <1>1 DEF TypeOK, Maybe, RemoveMark, DeleteMark
<1> HIDE DEF n
<1>9. TypeOK'
  <2>1. cache' \in [Sids -> Maybe([name: Names, locked: BOOLEAN])]
    BY <1>6, <1>7
  <2>2. unlocked' \in [Sids -> SUBSET Names]
    BY <1>1, <1>3 DEF TypeOK
  <2>3. \A u \in Sids : unlocked'[u] # {} => token'[u] \in held'[u]
    BY <1>1, <1>3 DEF TypeOK
  <2> QED BY <1>1, <1>3, <1>4, <1>8, <2>1, <2>2, <2>3 DEF TypeOK
<1>10. CacheKnowsLock'
  <2>1. SUFFICES ASSUME NEW u \in Sids, cache'[u] # None, Settled(cache[u].name)',
                        cache'[u].name \notin stale'
                 PROVE  cache'[u].locked = IsLocked(row[cache'[u].name])
    BY <1>3 DEF CacheKnowsLock, IsLocked
  <2>2. CASE cache[u].name = n
    <3>1. cache'[u].locked = FALSE /\ cache'[u].name = n
      BY <1>6, <2>1, <2>2
    <3>2. n \notin stale
      BY <1>3, <2>1, <3>1
    <3>3. IsLocked(row[n]) = FALSE
      BY <1>5, <3>2 DEF IsLocked
    <3> QED BY <3>1, <3>3
  <2>3. CASE cache[u].name # n
    <3>1. Settled(cache[u].name) /\ cache'[u] = cache[u] /\ cache[u] # None
      BY <1>4, <1>6, <2>1, <2>3
    <3>2. stale' = stale
      BY <1>3
    <3>3. cache[u].locked = IsLocked(row[cache[u].name])
      BY <2>1, <3>1, <3>2 DEF IInv, CacheKnowsLock
    <3> QED BY <3>1, <3>3
  <2> QED BY <2>2, <2>3
<1>11. Unlocks'
  <2>1. ASSUME NEW u \in Sids, NEW m \in unlocked'[u]
        PROVE  m \in unlocked[u] /\ m \in Names /\ m # n
    BY <1>1, <1>3 DEF TypeOK
  <2> QED BY <1>3, <1>4, <2>1 DEF IInv, Unlocks
<1> QED BY <1>4, <1>9, <1>10, <1>11 DEF IInv

Counting(q, h, t, e) == [q EXCEPT !.seen = h, !.tries = t, !.era = e]

LEMMA AttemptRecord ==
    ASSUME NEW q \in Req, NEW h \in Hash, NEW t \in Nat, NEW e \in Nat
    PROVE  LET a == Counting(q, h, t, e) IN
           /\ a \in Req /\ a.name = q.name /\ a.seen = h /\ a.tries = t /\ a.era = e
           /\ a.op = q.op /\ a.pass = q.pass
<1> DEFINE a == Counting(q, h, t, e)
           b == [q EXCEPT !.seen = h]
           c == [b EXCEPT !.tries = t]
<1>1. b \in Req /\ b.name = q.name /\ b.seen = h /\ b.op = q.op /\ b.pass = q.pass
  BY DEF Req, Hash
<1>2. a = [c EXCEPT !.era = e]
  BY DEF Counting
<1> HIDE DEF a, b
<1>3. c \in Req /\ c.name = b.name /\ c.seen = b.seen /\ c.tries = t /\ c.op = b.op /\ c.pass = b.pass
  BY <1>1 DEF Req
<1> HIDE DEF c
<1>4. /\ a \in Req /\ a.name = c.name /\ a.seen = c.seen /\ a.tries = c.tries /\ a.era = e
      /\ a.op = c.op /\ a.pass = c.pass
  BY <1>2, <1>3 DEF Req
<1> QED BY <1>1, <1>3, <1>4 DEF a

LEMMA AttemptStep == ASSUME IInv, NEW r \in Reqs, Attempt(r) PROVE IInv'
<1> DEFINE n == req[r].name
           a == [req[r] EXCEPT !.seen = row[n], !.tries = fails[n] + 1, !.era = era[n]]
<1>1. TypeOK /\ r \in InFlight /\ req[r] \in Req /\ Good(r, req[r]) /\ req[r].pc = "verify"
  BY InFlightIs DEF IInv, Attempt, At
<1>2. n \in Names
  BY <1>1, ConnLocksAssumption DEF Good, Shape, Req, Maybe
<1>3. row[n] \in Hash /\ fails[n] \in Nat /\ era[n] \in Nat
  BY <1>1, <1>2 DEF TypeOK, Hash
<1>4. /\ a \in Req /\ a.name = n /\ a.seen = row[n] /\ a.tries = fails[n] + 1 /\ a.era = era[n]
      /\ a.op = req[r].op /\ a.pass = req[r].pass
  <2>1. fails[n] + 1 \in Nat /\ n = req[r].name
    BY <1>3
  <2>2. a = Counting(req[r], row[n], fails[n] + 1, era[n])
    BY DEF Counting
  <2> HIDE DEF a, n
  <2>3. /\ a \in Req /\ a.name = req[r].name /\ a.seen = row[n] /\ a.tries = fails[n] + 1 /\ a.era = era[n]
        /\ a.op = req[r].op /\ a.pass = req[r].pass
    <3>1. req[r] \in Req
      BY <1>1
    <3> DEFINE f == fails[n] + 1
               h == row[n]
               e == era[n]
    <3>2. f \in Nat /\ h \in Hash /\ e \in Nat
      BY <1>3, <2>1
    <3> HIDE DEF f, h, e
    <3>3. LET c == Counting(req[r], h, f, e) IN
          /\ c \in Req /\ c.name = req[r].name /\ c.seen = h /\ c.tries = f /\ c.era = e
          /\ c.op = req[r].op /\ c.pass = req[r].pass
      BY <3>1, <3>2, AttemptRecord
    <3> QED BY <2>2, <3>3, Zenon DEF f, h, e
  <2> QED BY <2>1, <2>3
<1> DEFINE pc == IF IsLocked(row[n]) THEN "check" ELSE "done"
           q == Moved(a, pc)
<1>5. /\ req' = [req EXCEPT ![r] = q]
      /\ fails' = [fails EXCEPT ![n] = IF IsLocked(row[n]) THEN @ + 1 ELSE @]
      /\ UNCHANGED <<row, on, cache, unlocked, token, held, proved, era, restarts, stale>>
  BY <1>1 DEF Attempt, history, InFlight
<1> HIDE DEF n, a
<1>6. q \in Req /\ q.pc = pc /\ (IsLocked(row[n]) => q = [a EXCEPT !.pc = "check"])
  BY <1>4, MovedFacts DEF Done, Phases
<1>7. IsLocked(row[n]) =>
        /\ q.name = n /\ q.seen = row[n] /\ q.tries = fails[n] + 1 /\ q.era = era[n]
        /\ q.op = req[r].op /\ q.pass = req[r].pass
  BY <1>4, <1>6 DEF Req
<1>8. q.pc # "mark" /\ (q.pc = "check" <=> IsLocked(row[n])) /\ (q.pc \notin Done <=> IsLocked(row[n]))
  BY <1>6 DEF Done
<1> HIDE DEF q, pc
<1>9. /\ fails' \in [Names -> Nat] /\ era' \in [Names -> Nat]
      /\ \A m \in Names : era'[m] = era[m] /\ fails[m] <= fails'[m]
      /\ IsLocked(row[n]) => fails'[n] = fails[n] + 1
  BY <1>1, <1>2, <1>3, <1>5 DEF TypeOK
<1>10. q.pc \notin Done => Shape(q) /\ Fresh(r, q)
  <2>1. SUFFICES ASSUME IsLocked(row[n])
                 PROVE  Shape(q) /\ Fresh(r, q)
    BY <1>8
  <2>2. n # None
    BY <1>2, ConnLocksAssumption
  <2>3. Shape(q)
    BY <1>1, <1>7, <1>8, <2>1, <2>2 DEF Good, Shape, IsLocked
  <2>4. Fresh(r, q)
    BY <1>7, <1>8, <2>1 DEF Fresh
  <2> QED BY <2>3, <2>4
<1>11. q.pc = "check" => /\ q.era <= era'[q.name]
                         /\ q.era = era'[q.name] => q.tries <= fails'[q.name]
  BY <1>3, <1>5, <1>7, <1>8, <1>9
<1>12. /\ req' \in [Reqs -> Maybe(Req)]
       /\ req'[r] = q
       /\ r \in InFlight' <=> q.pc \notin Done
       /\ \A o \in Reqs \ {r} : req'[o] = req[o] /\ (o \in InFlight' <=> o \in InFlight)
       /\ \A o \in InFlight' : Good(o, req[o])'
  BY <1>1, <1>5, <1>6, <1>9, <1>10, <1>11, RowsStand
<1>13. \A m \in Names : (Settled(m)' => Settled(m)) /\ (Leaving(m) => Leaving(m)')
  BY <1>1, <1>5, <1>6, <1>8, MarksStand
<1>14. TypeOK'
  BY <1>1, <1>5, <1>9, <1>12 DEF TypeOK
<1>15. CacheKnowsLock'
  <2>1. \A u \in Sids : cache[u] # None => cache[u].name \in Names
    BY <1>1 DEF TypeOK, Maybe
  <2> QED BY <1>5, <1>13, <2>1 DEF IInv, CacheKnowsLock
<1>16. Unlocks'
  <2>1. \A u \in Sids : unlocked[u] \subseteq Names
    BY <1>1 DEF TypeOK
  <2> QED BY <1>5, <1>13, <2>1 DEF IInv, Unlocks
<1>17. BurstQueues'
  <2>1. ASSUME NEW o \in InFlight', o # r, At(o, "check")'
        PROVE  /\ o \in InFlight /\ At(o, "check") /\ req'[o] = req[o]
               /\ IsLocked(row[n]) /\ req[o].name = n =>
                     req[o].era # era[n] \/ req[o].tries # fails[n] + 1
    <3>1. o \in InFlight /\ At(o, "check") /\ req'[o] = req[o]
      BY <1>12, <2>1 DEF At, InFlight
    <3>2. Good(o, req[o]) /\ req[o] \in Req /\ req[o].pc = "check"
      BY <1>1, <3>1, InFlightIs DEF IInv, At
    <3>3. req[o].name = n /\ req[o].era = era[n] => req[o].tries <= fails[n]
      BY <3>2 DEF Good, Counted
    <3>4. req[o].tries \in Nat
      BY <3>2 DEF Req
    <3> QED BY <1>3, <3>1, <3>3, <3>4
  <2>2. At(r, "check")' => /\ IsLocked(row[n]) /\ req'[r].name = n
                           /\ req'[r].era = era[n] /\ req'[r].tries = fails[n] + 1
    BY <1>7, <1>8, <1>12 DEF At
  <2>3. SUFFICES ASSUME NEW x \in InFlight', NEW o \in InFlight', x # o, At(x, "check")', At(o, "check")',
                        req'[x].name = req'[o].name
                 PROVE  req'[x].tries # req'[o].tries \/ req'[x].era # req'[o].era
    BY DEF BurstQueues
  <2>4. CASE x # r /\ o # r
    BY <2>1, <2>3, <2>4 DEF IInv, BurstQueues
  <2>5. CASE x = r
    BY <2>1, <2>2, <2>3, <2>5
  <2>6. CASE o = r
    BY <2>1, <2>2, <2>3, <2>6
  <2> QED BY <2>4, <2>5, <2>6
<1> QED BY <1>12, <1>14, <1>15, <1>16, <1>17 DEF IInv

LEMMA CheckRightStep == ASSUME IInv, NEW r \in Reqs, CheckRight(r) PROVE IInv'
<1> DEFINE n == req[r].name
           s == req[r].sid
           seen == req[r].seen
           pc == IF req[r].op = "unlock" THEN "done" ELSE "commit"
           q == Moved(req[r], pc)
<1>1. /\ TypeOK /\ r \in InFlight /\ req[r] \in Req /\ Good(r, req[r])
      /\ req[r].pc = "check" /\ req[r].pass = seen.pass
  BY InFlightIs DEF IInv, CheckRight, At
<1>2. n \in Names /\ s \in Sids /\ seen \in Locks
  BY <1>1, ConnLocksAssumption DEF Good, Shape, Req, Maybe
<1>3. /\ req' = [req EXCEPT ![r] = q]
      /\ fails' = [fails EXCEPT ![n] = 0]
      /\ era' = [era EXCEPT ![n] = @ + 1]
      /\ UNCHANGED <<row, on, cache, stale, restarts>>
  BY <1>1 DEF CheckRight, Goto, InFlight
<1>4. q \in Req /\ q.pc = pc /\ (pc = "commit" => q = [req[r] EXCEPT !.pc = "commit"])
  BY <1>1, MovedFacts DEF Done, Phases
<1>5. n \notin stale => seen = row[n]
  BY <1>1 DEF Good, Fresh
<1>6. q.pc # "check" /\ q.pc # "mark"
  BY <1>4
<1>7. q.pc \notin Done => Shape(q) /\ Fresh(r, q)
  <2>1. SUFFICES ASSUME q.pc \notin Done
                 PROVE  Shape(q) /\ Fresh(r, q)
    OBVIOUS
  <2>2. /\ q.pc = "commit" /\ q.name = n /\ q.op = req[r].op /\ q.seen = seen
        /\ q.pass = req[r].pass /\ req[r].op # "unlock"
    BY <1>1, <1>4, <2>1 DEF Done, Req
  <2> HIDE DEF q, pc
  <2>3. Shape(q)
    BY <1>1, <1>2, <2>2 DEF Good, Shape
  <2>4. Fresh(r, q)
    BY <1>1, <1>5, <2>2, <2>3 DEF Fresh, Good, Shape
  <2> QED BY <2>3, <2>4
<1> HIDE DEF q, pc
<1>8. /\ fails' \in [Names -> Nat] /\ era' \in [Names -> Nat]
      /\ \A m \in Names : \/ era'[m] = era[m] /\ fails[m] <= fails'[m]
                          \/ era[m] < era'[m]
  BY <1>1, <1>2, <1>3 DEF TypeOK
<1>9. /\ req' \in [Reqs -> Maybe(Req)]
      /\ \A o \in InFlight' : Good(o, req[o])'
  BY <1>1, <1>3, <1>4, <1>6, <1>7, <1>8, RowsStand
<1>10. \A m \in Names : (Settled(m)' => Settled(m)) /\ (Leaving(m) => Leaving(m)')
  BY <1>1, <1>3, <1>4, <1>6, MarksStand
<1>11. BurstQueues'
  BY <1>1, <1>3, <1>4, <1>6, BurstStands
<1>12. CacheKnowsLock'
  <2>1. \A u \in Sids : cache[u] # None => cache[u].name \in Names
    BY <1>1 DEF TypeOK, Maybe
  <2> QED BY <1>3, <1>10, <2>1 DEF IInv, CacheKnowsLock
<1>13. CASE req[r].op = "unlock"
  <2>1. IssueToken(r) /\ proved' = [proved EXCEPT ![s][n] = seen]
    BY <1>13 DEF CheckRight
  <2>2. /\ unlocked' \in [Sids -> SUBSET Names]
        /\ token' \in [Sids -> Maybe(Reqs)]
        /\ held' \in [Sids -> SUBSET Reqs]
        /\ \A u \in Sids : unlocked'[u] # {} => token'[u] \in held'[u]
        /\ \A u \in Sids : unlocked'[u] \subseteq unlocked[u] \cup IF u = s THEN {n} ELSE {}
    BY <1>1, <1>2, <2>1, Issued
  <2> HIDE DEF n, s, seen
  <2>3. /\ proved' \in [Sids -> [Names -> Maybe(Locks)]]
        /\ proved'[s][n] = seen
        /\ \A u \in Sids, m \in Names : u # s \/ m # n => proved'[u][m] = proved[u][m]
    BY <1>1, <1>2, <2>1 DEF TypeOK, Maybe
  <2>4. TypeOK'
    BY <1>1, <1>3, <1>8, <1>9, <2>2, <2>3 DEF TypeOK
  <2>5. Unlocks'
    <3>1. SUFFICES ASSUME NEW u \in Sids, NEW m \in unlocked'[u]
                   PROVE  /\ proved'[u][m] \in Locks
                          /\ m \notin stale' /\ ~Leaving(m)' => proved'[u][m] = row'[m]
      BY DEF Unlocks
    <3>2. m \in Names
      BY <2>2
    <3>3. CASE u = s /\ m = n
      BY <1>2, <1>3, <1>5, <2>3, <3>3
    <3>4. CASE u # s \/ m # n
      <4>1. m \in unlocked[u] /\ proved'[u][m] = proved[u][m]
        BY <2>2, <2>3, <3>2, <3>4
      <4> QED BY <1>3, <1>10, <3>2, <4>1 DEF IInv, Unlocks
    <3> QED BY <3>3, <3>4
  <2> QED BY <1>9, <1>11, <1>12, <2>4, <2>5 DEF IInv
<1>14. CASE req[r].op # "unlock"
  <2>1. UNCHANGED <<unlocked, token, held, proved>>
    BY <1>14 DEF CheckRight
  <2> HIDE DEF n, s, seen
  <2>2. TypeOK'
    BY <1>1, <1>3, <1>8, <1>9, <2>1 DEF TypeOK
  <2>3. Unlocks'
    <3>1. \A u \in Sids : unlocked[u] \subseteq Names
      BY <1>1 DEF TypeOK
    <3> QED BY <1>3, <1>10, <2>1, <3>1 DEF IInv, Unlocks
  <2> QED BY <1>9, <1>11, <1>12, <2>2, <2>3 DEF IInv
<1> QED BY <1>13, <1>14

-----------------------------------------------------------------------------
(* Steps that write the row: who had read it is stale.                      *)

\* The row of n is written, then memory is told; a row that is saved again stands.
LEMMA CommitStep ==
    ASSUME IInv, NEW r \in InFlight, NEW n \in Names, n = req[r].name,
           NEW lock \in Hash, Commit(r, n, lock),
           NEW pc \in {"enter", "mark"}, Goto(r, pc), UNCHANGED <<on, memory, history>>,
           pc = "enter" => /\ req[r].pc = "save"
                           /\ lock = IF row[n] = None THEN NoLock ELSE row[n],
           pc = "mark" => /\ req[r].pc = "commit"
                          /\ req[r].op = "lock" => lock = [pass |-> req[r].pass, by |-> r]
                          /\ req[r].op # "lock" => lock \notin Locks
    PROVE  IInv'
<1> USE DEF memory, history
<1> DEFINE q == [req[r] EXCEPT !.pc = pc]
<1>1. TypeOK /\ r \in Reqs /\ req[r] \in Req /\ Good(r, req[r])
  BY InFlightIs DEF IInv
<1>2. q \in Req /\ req' = [req EXCEPT ![r] = q]
  <2>1. Moved(req[r], pc) = q /\ Moved(req[r], pc) \in Req
    BY <1>1, MovedFacts DEF Done, Phases
  <2> QED BY <1>1, <2>1 DEF Goto, TypeOK
<1>3. q.pc = pc /\ q.name = n /\ q.op = req[r].op /\ q.seen = req[r].seen /\ q.pass = req[r].pass
  BY <1>1 DEF Req
<1> HIDE DEF q
<1>4. /\ req' \in [Reqs -> Maybe(Req)]
      /\ req'[r] = q /\ q # None
      /\ r \in InFlight'
      /\ \A o \in Reqs \ {r} : req'[o] = req[o] /\ (o \in InFlight' <=> o \in InFlight)
  BY <1>1, <1>2, <1>3, StepOf DEF Done
<1>5. /\ row' \in [Names -> Hash]
      /\ row'[n] = lock
      /\ \A m \in Names \ {n} : row'[m] = row[m] /\ (m \in stale' <=> m \in stale)
      /\ stale \subseteq stale' /\ stale' \subseteq Names
      /\ n \notin stale' => \/ row[n] = lock
                            \/ ~\E o \in InFlight \ {r} :
                                  /\ req[o].name = n
                                  /\ req[o].pc \in {"save", "enter", "check", "commit", "mark"}
  BY <1>1 DEF Commit, TypeOK, Hash
<1>6. /\ n \notin stale /\ pc = "enter" => req[r].seen = row[n]
      /\ n \notin stale /\ pc = "mark" /\ req[r].op = "lock" => row[n] = NoLock
  BY <1>1 DEF Good, Fresh
<1>7. NoLock \notin Locks /\ None \notin Locks /\ None \notin Names
  BY ConnLocksAssumption
<1>8. TypeOK'
  BY <1>1, <1>4, <1>5 DEF TypeOK, Hash
<1>9. ASSUME NEW o \in InFlight'
      PROVE  Good(o, req[o])'
  <2>1. CASE o = r
    <3>1. /\ req'[r].pc = pc /\ req'[r].name = n /\ req'[r].op = req[r].op
          /\ req'[r].seen = req[r].seen /\ req'[r].pass = req[r].pass
      BY <1>3, <1>4
    <3>2. Shape(req[r])'
      BY <1>1, <1>7, <3>1 DEF Good, Shape
    <3>3. Fresh(r, req[r])'
      <4>1. CASE pc = "enter"
        BY <1>5, <1>6, <1>7, <3>1, <4>1 DEF Fresh
      <4>2. CASE pc = "mark"
        BY <1>5, <1>7, <3>1, <4>2 DEF Fresh
      <4> QED BY <4>1, <4>2
    <3>4. Counted(req[r])'
      BY <3>1 DEF Counted
    <3> QED BY <2>1, <3>2, <3>3, <3>4 DEF Good
  <2>2. CASE o # r
    <3>1. o \in InFlight /\ req'[o] = req[o] /\ o \in Reqs
      BY <1>4, <1>9, <2>2 DEF InFlight
    <3>2. Good(o, req[o]) /\ req[o] \in Req
      BY <1>1, <3>1, InFlightIs DEF IInv
    <3>3. Shape(req[o])' /\ Counted(req[o])'
      BY <3>1, <3>2 DEF Good, Shape, Counted
    <3>4. Fresh(o, req[o])'
      <4>1. CASE req[o].name = n
        <5>1. CASE row[n] = lock
          <6>1. row'[n] = row[n]
            BY <1>5, <5>1
          <6> QED BY <1>5, <3>1, <3>2, <4>1, <6>1 DEF Good, Fresh
        <5>2. CASE row[n] # lock
          <6>1. n \notin stale' => req[o].pc \notin {"save", "enter", "check", "commit", "mark"}
            BY <1>5, <2>2, <3>1, <4>1, <5>2
          <6> QED BY <3>1, <4>1, <6>1 DEF Fresh
        <5> QED BY <5>1, <5>2
      <4>2. CASE req[o].name # n
        <5>1. CASE req[o].name \in Names
          BY <1>5, <3>1, <3>2, <4>2, <5>1 DEF Good, Fresh
        <5>2. CASE req[o].name \notin Names
          <6>1. req[o].pc = "gate"
            BY <3>2, <5>2 DEF Good, Shape, Req, Maybe
          <6> QED BY <3>1, <6>1 DEF Fresh
        <5> QED BY <5>1, <5>2
      <4> QED BY <4>1, <4>2
    <3> QED BY <3>3, <3>4 DEF Good
  <2> QED BY <2>1, <2>2
<1>10. ASSUME NEW m \in Names
       PROVE  /\ Settled(m)' => m # n \/ pc = "enter"
              /\ Settled(m)' => Settled(m)
              /\ Leaving(m) => Leaving(m)'
              /\ Leaving(n)' \/ req[r].op = "lock" \/ pc = "enter"
  <2>1. req[r].pc # "mark"
    OBVIOUS
  <2>2. \A o \in InFlight : o # r => o \in InFlight' /\ req'[o] = req[o]
    BY <1>4 DEF InFlight
  <2>3. Settled(m)' => Settled(m)
    BY <2>1, <2>2 DEF Settled
  <2>4. Leaving(m) => Leaving(m)'
    BY <2>1, <2>2 DEF Leaving
  <2>5. pc = "mark" => ~Settled(n)'
    BY <1>3, <1>4 DEF Settled
  <2>6. pc = "mark" /\ req[r].op # "lock" => Leaving(n)'
    BY <1>3, <1>4 DEF Leaving
  <2> QED BY <2>3, <2>4, <2>5, <2>6
<1>11. CacheKnowsLock'
  <2>1. SUFFICES ASSUME NEW u \in Sids, cache[u] # None, Settled(cache[u].name)',
                        cache[u].name \notin stale'
                 PROVE  cache[u].locked = IsLocked(row'[cache[u].name])
    BY DEF CacheKnowsLock, IsLocked
  <2>2. cache[u].name \in Names
    BY <1>1, <2>1 DEF TypeOK, Maybe
  <2>3. cache[u].locked = IsLocked(row[cache[u].name])
    BY <1>5, <1>10, <2>1, <2>2 DEF IInv, CacheKnowsLock
  <2>4. IsLocked(row[cache[u].name]) = IsLocked(row'[cache[u].name])
    <3>1. CASE cache[u].name = n
      BY <1>5, <1>7, <1>10, <2>1, <2>2, <3>1 DEF IsLocked
    <3>2. CASE cache[u].name # n
      BY <1>5, <2>2, <3>2
    <3> QED BY <3>1, <3>2
  <2> QED BY <2>3, <2>4
<1>12. Unlocks'
  <2>1. SUFFICES ASSUME NEW u \in Sids, NEW m \in unlocked[u], m \notin stale', ~Leaving(m)'
                 PROVE  proved[u][m] = row'[m]
    BY DEF IInv, Unlocks
  <2>2. m \in Names
    BY <1>1 DEF TypeOK
  <2>3. proved[u][m] = row[m] /\ row[m] \in Locks
    BY <1>5, <1>10, <2>1, <2>2 DEF IInv, Unlocks
  <2>4. CASE m = n
    BY <1>5, <1>6, <1>7, <1>10, <2>1, <2>3, <2>4
  <2>5. CASE m # n
    BY <1>5, <2>2, <2>3, <2>5
  <2> QED BY <2>4, <2>5
<1>13. BurstQueues'
  <2>1. \A o \in InFlight' : At(o, "check")' => At(o, "check") /\ req'[o] = req[o] /\ o \in InFlight
    BY <1>3, <1>4 DEF At, InFlight
  <2> QED BY <2>1 DEF IInv, BurstQueues
<1> QED BY <1>8, <1>9, <1>11, <1>12, <1>13 DEF IInv

LEMMA RowSteps ==
    ASSUME IInv, NEW r \in Reqs, Save(r) \/ LockCommit(r) \/ RemoveCommit(r) \/ DeleteCommit(r)
    PROVE  IInv'
<1> DEFINE n == req[r].name
<1>1. /\ TypeOK /\ r \in InFlight /\ req[r] \in Req /\ Good(r, req[r])
      /\ req[r].pc \in {"save", "commit"}
  BY InFlightIs DEF IInv, Save, LockCommit, RemoveCommit, DeleteCommit, At
<1>2. n \in Names /\ row[n] \in Hash
  BY <1>1, ConnLocksAssumption DEF Good, Shape, Req, Maybe, TypeOK, Hash
<1>3. UNCHANGED <<on, memory, history>>
  BY DEF Save, LockCommit, RemoveCommit, DeleteCommit
<1>4. ASSUME Goto(r, "done"), UNCHANGED <<row, stale>>
      PROVE  IInv'
  <2> DEFINE q == Moved(req[r], "done")
  <2>1. q \in Req /\ q.pc = "done" /\ req' = [req EXCEPT ![r] = q]
    BY <1>1, <1>4, MovedFacts DEF Goto, TypeOK, Phases
  <2> HIDE DEF q
  <2>2. q.pc \in Done /\ q.pc \notin {"mark", "check"} /\ req[r].pc # "mark"
    BY <1>1, <2>1 DEF Done
  <2> QED BY <1>1, <1>3, <1>4, <2>1, <2>2, RequestStep
<1>5. NoLock \in Hash /\ None \in Hash /\ NoLock \notin Locks /\ None \notin Locks
  BY ConnLocksAssumption DEF Hash
<1>6. CASE Save(r)
  <2> DEFINE lock == IF row[n] = None THEN NoLock ELSE row[n]
  <2>1. /\ req[r].pc = "save"
        /\ \/ Goto(r, "done") /\ UNCHANGED <<row, stale>>
           \/ Goto(r, "enter") /\ Commit(r, n, lock)
    <3>1. req[r].pc = "save"
      BY <1>6 DEF Save, At
    <3>2. CASE IsLocked(req[r].seen) /\ ~IsUnlocked(r, n)
      BY <1>6, <3>1, <3>2, Zenon DEF Save
    <3>3. CASE ~(IsLocked(req[r].seen) /\ ~IsUnlocked(r, n))
      BY <1>6, <3>1, <3>3, Zenon DEF Save
    <3> QED BY <3>2, <3>3
  <2>2. lock \in Hash
    BY <1>2, <1>5
  <2>3. ASSUME Goto(r, "enter"), Commit(r, n, lock)
        PROVE  IInv'
    <3> DEFINE pc == "enter"
    <3>1. pc \in {"enter", "mark"} /\ Goto(r, pc)
      BY <2>3
    <3>2. pc = "enter" => req[r].pc = "save" /\ lock = IF row[n] = None THEN NoLock ELSE row[n]
      BY <2>1
    <3>3. pc # "mark"
      OBVIOUS
    <3> HIDE DEF pc, lock, n
    <3>4. n = req[r].name
      BY DEF n
    <3> QED BY <1>1, <1>2, <1>3, <2>2, <2>3, <3>1, <3>2, <3>3, <3>4, CommitStep
  <2> QED BY <1>4, <2>1, <2>3
<1>7. CASE LockCommit(r)
  <2> DEFINE lock == [pass |-> req[r].pass, by |-> r]
  <2>1. /\ req[r].pc = "commit" /\ req[r].op = "lock"
        /\ \/ Goto(r, "done") /\ UNCHANGED <<row, stale>>
           \/ Goto(r, "mark") /\ Commit(r, n, lock)
    <3>1. req[r].pc = "commit" /\ req[r].op = "lock"
      BY <1>7 DEF LockCommit, At
    <3>2. CASE row[n] = None
      BY <1>7, <3>1, <3>2, Zenon DEF LockCommit
    <3>3. CASE row[n] # None
      BY <1>7, <3>1, <3>3, Zenon DEF LockCommit
    <3> QED BY <3>2, <3>3
  <2>2. lock \in Hash
    BY <1>1, <2>1 DEF Good, Shape, Req, Maybe, Locks, Hash
  <2>3. ASSUME Goto(r, "mark"), Commit(r, n, lock)
        PROVE  IInv'
    <3> DEFINE pc == "mark"
    <3>1. pc \in {"enter", "mark"} /\ Goto(r, pc) /\ pc # "enter"
      BY <2>3
    <3>2. pc = "mark" => /\ req[r].pc = "commit"
                         /\ req[r].op = "lock" => lock = [pass |-> req[r].pass, by |-> r]
                         /\ req[r].op # "lock" => lock \notin Locks
      BY <2>1
    <3> HIDE DEF pc, lock, n
    <3>3. n = req[r].name
      BY DEF n
    <3> QED BY <1>1, <1>2, <1>3, <2>2, <2>3, <3>1, <3>2, <3>3, CommitStep
  <2> QED BY <1>4, <2>1, <2>3
<1>8. CASE RemoveCommit(r) \/ DeleteCommit(r)
  <2>1. PICK lock \in {None, NoLock} :
          /\ req[r].pc = "commit" /\ req[r].op \in {"remove", "delete"}
          /\ Goto(r, "mark") /\ Commit(r, n, lock)
    BY <1>8 DEF RemoveCommit, DeleteCommit, At
  <2>2. lock \in Hash /\ lock \notin Locks
    BY <1>5
  <2> DEFINE pc == "mark"
  <2>3. pc \in {"enter", "mark"} /\ Goto(r, pc) /\ pc # "enter"
    BY <2>1
  <2>4. pc = "mark" => /\ req[r].pc = "commit"
                       /\ req[r].op = "lock" => lock = [pass |-> req[r].pass, by |-> r]
                       /\ req[r].op # "lock" => lock \notin Locks
    BY <2>1, <2>2
  <2> HIDE DEF pc, n
  <2>5. n = req[r].name
    BY DEF n
  <2> QED BY <1>1, <1>2, <1>3, <2>1, <2>2, <2>3, <2>4, <2>5, CommitStep
<1> QED BY <1>6, <1>7, <1>8

-----------------------------------------------------------------------------
(* What is not a request's step.                                            *)

LEMMA EvictStep == ASSUME IInv, NEW s \in Sids, Evict(s) PROVE IInv'
<1> USE DEF Evict, history
<1>1. TypeOK'
  BY DEF IInv, TypeOK, Maybe
<1>2. InFlight' = InFlight
  BY DEF InFlight
<1>3. \A r \in InFlight' : Good(r, req[r])'
  BY <1>2 DEF IInv, Good, Shape, Fresh, Counted
<1>4. CacheKnowsLock'
  <2>1. \A u \in Sids : cache'[u] # None => cache'[u] = cache[u]
    BY DEF IInv, TypeOK
  <2> QED BY <1>2, <2>1 DEF IInv, CacheKnowsLock, Settled, IsLocked
<1>5. Unlocks'
  BY <1>2 DEF IInv, Unlocks, Leaving
<1>6. BurstQueues'
  BY <1>2 DEF IInv, BurstQueues, At
<1> QED BY <1>1, <1>3, <1>4, <1>5, <1>6 DEF IInv

LEMMA RestartStep == ASSUME IInv, Restart PROVE IInv'
<1> USE DEF Restart
<1>1. ASSUME NEW r \in Reqs
      PROVE  req'[r] \in Maybe(Req) /\ (req'[r] # None => req'[r].pc \in Done)
  <2>1. req'[r] = IF r \in InFlight THEN Moved(req[r], "done") ELSE req[r]
    OBVIOUS
  <2>2. CASE r \in InFlight
    <3>1. req[r] \in Req
      BY <2>2, InFlightIs DEF IInv
    <3>2. Moved(req[r], "done") \in Req /\ Moved(req[r], "done").pc = "done"
      BY <3>1, MovedFacts DEF Phases
    <3> QED BY <2>1, <2>2, <3>2 DEF Maybe, Done
  <2>3. CASE r \notin InFlight
    BY <2>1, <2>3 DEF InFlight, IInv, TypeOK, Maybe, Done
  <2> QED BY <2>2, <2>3
<1>2. InFlight' = {}
  BY <1>1 DEF InFlight, Done
<1>3. TypeOK'
  <2>1. req' \in [Reqs -> Maybe(Req)]
    BY <1>1
  <2> QED BY <2>1 DEF IInv, TypeOK, Maybe
<1>4. CacheKnowsLock' /\ Unlocks'
  BY DEF CacheKnowsLock, Unlocks
<1>5. BurstQueues' /\ \A r \in InFlight' : Good(r, req[r])'
  BY <1>2 DEF BurstQueues
<1> QED BY <1>3, <1>4, <1>5 DEF IInv

LEMMA InitIInv == Init => IInv
<1> SUFFICES ASSUME Init PROVE IInv
  OBVIOUS
<1> USE DEF Init, Begin, NoRequest
<1>1. TypeOK
  BY DEF TypeOK, Maybe
<1>2. InFlight = {}
  BY DEF InFlight
<1>3. CacheKnowsLock /\ Unlocks /\ BurstQueues
  BY <1>2 DEF CacheKnowsLock, Unlocks, BurstQueues
<1> QED BY <1>1, <1>2, <1>3 DEF IInv

LEMMA NextIInv == IInv /\ [Next]_vars => IInv'
<1> SUFFICES ASSUME IInv, [Next]_vars PROVE IInv'
  OBVIOUS
<1>1. ASSUME NEW r \in Reqs,
             \/ Arrive(r) \/ Gate(r) \/ Config(r) \/ AgentAsk(r) \/ Build(r) \/ Save(r) \/ Enter(r)
             \/ LockRead(r) \/ LockCommit(r) \/ LockMark(r)
             \/ Attempt(r) \/ CheckWrong(r) \/ CheckRight(r) \/ RemoveCommit(r) \/ RemoveMark(r)
             \/ DeleteRead(r) \/ DeleteCommit(r) \/ DeleteMark(r)
      PROVE  IInv'
  BY <1>1, ArriveStep, SimpleSteps, RowSteps, EnterStep, LockMarkStep, AttemptStep,
     CheckRightStep, ForgetStep
<1>2. ASSUME NEW s \in Sids, Evict(s) PROVE IInv'
  BY <1>2, EvictStep
<1>3. CASE Restart
  BY <1>3, RestartStep
<1>4. CASE UNCHANGED vars
  <2> USE <1>4 DEF vars
  <2>1. TypeOK'
    BY DEF IInv, TypeOK
  <2>2. InFlight' = InFlight
    BY DEF InFlight
  <2>3. \A r \in InFlight' : Good(r, req[r])'
    BY <2>2 DEF IInv, Good, Shape, Fresh, Counted
  <2>4. CacheKnowsLock'
    BY <2>2 DEF IInv, CacheKnowsLock, Settled, IsLocked
  <2>5. Unlocks'
    BY <2>2 DEF IInv, Unlocks, Leaving
  <2>6. BurstQueues'
    BY <2>2 DEF IInv, BurstQueues, At
  <2> QED BY <2>1, <2>3, <2>4, <2>5, <2>6 DEF IInv
<1> QED BY <1>1, <1>2, <1>3, <1>4 DEF Next

-----------------------------------------------------------------------------
(* Theorems.                                                                *)

\* The inductive invariant holds in every reachable state.
THEOREM Inductive == Spec => []IInv
BY InitIInv, NextIInv, PTL DEF Spec

\* What cached objects and tokens say of a lock is what the row says, through every
\* order of opening, locking, unlocking, removing, deleting and restarting.
THEOREM MemoryTrue == Spec => []MemoryKnowsLocks
<1>1. IInv => MemoryKnowsLocks
  BY DEF IInv, MemoryKnowsLocks, UnlockIsForThisLock, Unlocks, Settled, Leaving
<1> QED BY <1>1, Inductive, PTL

\* "Counted before the wait": no two attempts on one lock wait for the same time.
THEOREM GuessesQueue == Spec => []BurstQueues
<1>1. IInv => BurstQueues
  BY DEF IInv
<1> QED BY <1>1, Inductive, PTL

LEMMA PassphraseStep ==
    ASSUME IInv, Next, NEW n \in Names, IsLocked(row[n]), row'[n] # row[n], n \notin stale'
    PROVE  \E r \in InFlight : At(r, "commit") /\ req[r].seen = row[n] /\ req[r].pass = row[n].pass
<1>1. PICK r \in Reqs : Save(r) \/ LockCommit(r) \/ RemoveCommit(r) \/ DeleteCommit(r)
  BY DEF Next, Arrive, Gate, Config, AgentAsk, Build, Enter, LockRead, LockMark, Attempt, CheckWrong,
     CheckRight, RemoveMark, DeleteRead, DeleteMark, Evict, Restart
<1>2. /\ TypeOK /\ r \in InFlight /\ req[r] \in Req /\ Good(r, req[r])
      /\ req[r].pc \in {"save", "commit"}
  BY <1>1, InFlightIs DEF IInv, Save, LockCommit, RemoveCommit, DeleteCommit, At
<1>3. req[r].name \in Names
  BY <1>2, ConnLocksAssumption DEF Good, Shape, Req, Maybe
<1>4. PICK lock : Commit(r, req[r].name, lock) /\ (Save(r) => lock = row[req[r].name] \/ row[req[r].name] = None)
  BY <1>1 DEF Save, LockCommit, RemoveCommit, DeleteCommit
<1>5. req[r].name = n /\ n \notin stale /\ row'[n] = lock
  BY <1>2, <1>3, <1>4 DEF Commit, TypeOK
<1>6. NoLock \notin Locks /\ None \notin Locks /\ row[n] \in Locks
  BY ConnLocksAssumption DEF IsLocked
<1>7. ~Save(r)
  BY <1>4, <1>5, <1>6
<1>8. At(r, "commit") /\ req[r].seen = row[n]
  BY <1>1, <1>2, <1>5, <1>7 DEF LockCommit, RemoveCommit, DeleteCommit, Good, Fresh, At
<1>9. req[r].op # "lock"
  BY <1>2, <1>5, <1>6, <1>8 DEF Good, Fresh, At
<1>10. req[r].pass = row[n].pass
  BY <1>2, <1>5, <1>6, <1>8, <1>9 DEF Good, Fresh, At
<1> QED BY <1>2, <1>8, <1>10

\* A lock goes only by a request that gave its passphrase, unless another request
\* changed the row under it.
THEOREM LockIsKept == Spec => LockGoesByPassphrase
<1>1. IInv /\ [Next]_vars =>
        [\A n \in Names : IsLocked(row[n]) /\ row'[n] # row[n] /\ n \notin stale' =>
           \E r \in InFlight : At(r, "commit") /\ req[r].seen = row[n] /\ req[r].pass = row[n].pass]_vars
  BY PassphraseStep DEF vars
<1> QED BY <1>1, Inductive, PTL DEF Spec, LockGoesByPassphrase

\* Only three steps serve a request.
LEMMA WhoServes ==
    ASSUME IInv, Next, NEW r \in InFlight, req'[r].pc = "ran"
    PROVE  Gate(r) \/ Config(r) \/ Enter(r)
<1>1. TypeOK /\ r \in Reqs /\ req[r] \in Req /\ Good(r, req[r]) /\ req[r].pc # "ran"
  BY InFlightIs DEF IInv, Done
<1>2. req'[r] # req[r]
  BY <1>1
<1>3. ~\E s \in Sids : Evict(s)
  BY <1>2 DEF Evict
<1>4. ~Restart
  <2>1. Moved(req[r], "done").pc = "done"
    BY <1>1, MovedFacts DEF Phases
  <2> QED BY <1>1, <2>1 DEF Restart
<1>5. ASSUME NEW a \in Req, NEW pc \in Phases \ {"ran"}, req' = [req EXCEPT ![r] = Moved(a, pc)]
      PROVE  FALSE
  <2>1. Moved(a, pc).pc = pc
    BY MovedFacts
  <2> QED BY <1>1, <1>5, <2>1 DEF TypeOK
<1>6. ASSUME NEW pc \in Phases \ {"ran"}, Goto(r, pc)
      PROVE  FALSE
  <2>1. req' = [req EXCEPT ![r] = Moved(req[r], pc)]
    BY <1>1, <1>6 DEF Goto, TypeOK
  <2> QED BY <1>1, <1>5, <2>1
<1>7. ASSUME NEW pc \in Phases \ {"ran"}, See(r, pc), req[r].pc # "gate"
      PROVE  FALSE
  <2> DEFINE a == [req[r] EXCEPT !.seen = row[req[r].name]]
  <2>1. req[r].name \in Names
    BY <1>1, <1>7, ConnLocksAssumption DEF Good, Shape, Req, Maybe
  <2>2. row[req[r].name] \in Hash
    BY <1>1, <2>1 DEF TypeOK, Hash
  <2>3. a \in Req
    BY <1>1, <2>2 DEF Req, Hash
  <2>4. req' = [req EXCEPT ![r] = Moved(a, pc)]
    BY <1>1, <1>7 DEF See, TypeOK
  <2> HIDE DEF a
  <2> QED BY <1>5, <2>3, <2>4
<1>8. PICK o \in Reqs :
        \/ Arrive(o) \/ Gate(o) \/ Config(o) \/ AgentAsk(o) \/ Build(o) \/ Save(o) \/ Enter(o)
        \/ LockRead(o) \/ LockCommit(o) \/ LockMark(o)
        \/ Attempt(o) \/ CheckWrong(o) \/ CheckRight(o) \/ RemoveCommit(o) \/ RemoveMark(o)
        \/ DeleteRead(o) \/ DeleteCommit(o) \/ DeleteMark(o)
  BY <1>3, <1>4 DEF Next
<1>9. o = r
  <2>1. ASSUME NEW q, req' = [req EXCEPT ![o] = q], o # r
        PROVE  FALSE
    BY <1>1, <1>2, <2>1 DEF TypeOK
  <2>2. CASE Arrive(o)
    BY <2>1, <2>2 DEF Arrive
  <2>3. CASE Gate(o)
    BY <2>1, <2>3 DEF Gate
  <2>4. CASE \/ Config(o) \/ AgentAsk(o) \/ Save(o) \/ Enter(o) \/ LockCommit(o) \/ LockMark(o)
             \/ CheckWrong(o) \/ CheckRight(o) \/ RemoveCommit(o) \/ RemoveMark(o)
             \/ DeleteCommit(o) \/ DeleteMark(o)
    <3>1. \E pc : Goto(o, pc)
      BY <2>4 DEF Config, AgentAsk, Save, Enter, LockCommit, LockMark, CheckWrong, CheckRight,
         RemoveCommit, RemoveMark, DeleteCommit, DeleteMark
    <3> QED BY <2>1, <3>1 DEF Goto
  <2>5. CASE Build(o) \/ LockRead(o) \/ DeleteRead(o)
    <3>1. \E pc : See(o, pc)
      BY <2>5 DEF Build, LockRead, DeleteRead
    <3> QED BY <2>1, <3>1 DEF See
  <2>6. CASE Attempt(o)
    BY <2>1, <2>6 DEF Attempt
  <2> QED BY <1>8, <2>2, <2>3, <2>4, <2>5, <2>6
<1>10. ~Arrive(r)
  BY DEF Arrive, InFlight
<1>11. CASE \/ AgentAsk(r) \/ Save(r) \/ LockCommit(r) \/ LockMark(r)
            \/ CheckWrong(r) \/ CheckRight(r) \/ RemoveCommit(r) \/ RemoveMark(r)
            \/ DeleteCommit(r) \/ DeleteMark(r)
  <2>1. \E pc \in {"build", "enter", "mark", "commit", "done"} : Goto(r, pc)
    BY <1>11 DEF AgentAsk, Save, LockCommit, LockMark, CheckWrong, CheckRight,
       RemoveCommit, RemoveMark, DeleteCommit, DeleteMark
  <2> QED BY <1>6, <2>1 DEF Phases
<1>12. CASE Build(r) \/ LockRead(r) \/ DeleteRead(r)
  <2>1. \E pc \in {"save", "enter", "commit", "verify", "done"} : See(r, pc)
    <3>1. CASE Build(r) \/ LockRead(r)
      BY <3>1 DEF Build, LockRead
    <3>2. CASE DeleteRead(r)
      BY <3>2, ConnLocksAssumption DEF DeleteRead, IsLocked
    <3> QED BY <1>12, <3>1, <3>2
  <2>2. req[r].pc # "gate"
    BY <1>12 DEF Build, LockRead, DeleteRead, At
  <2> QED BY <1>7, <2>1, <2>2 DEF Phases
<1>13. CASE Attempt(r)
  <2> DEFINE n == req[r].name
             a == [req[r] EXCEPT !.seen = row[n], !.tries = fails[n] + 1, !.era = era[n]]
             pc == IF IsLocked(row[n]) THEN "check" ELSE "done"
  <2>1. n \in Names
    BY <1>1, <1>13, ConnLocksAssumption DEF Attempt, At, Good, Shape, Req, Maybe
  <2>2. row[n] \in Hash /\ fails[n] \in Nat /\ era[n] \in Nat
    BY <1>1, <2>1 DEF TypeOK, Hash
  <2>3. a \in Req
    <3>1. fails[n] + 1 \in Nat
      BY <2>2
    <3>2. a = Counting(req[r], row[n], fails[n] + 1, era[n])
      BY DEF Counting
    <3> HIDE DEF a, n
    <3> QED BY <1>1, <2>2, <3>1, <3>2, AttemptRecord
  <2>4. req' = [req EXCEPT ![r] = Moved(a, pc)]
    BY <1>1, <1>13 DEF Attempt, TypeOK
  <2>5. pc \in Phases \ {"ran"}
    BY DEF Phases
  <2> HIDE DEF a, pc
  <2> QED BY <1>5, <2>3, <2>4, <2>5
<1> QED BY <1>8, <1>9, <1>10, <1>11, <1>12, <1>13

LEMMA ServedStep ==
    ASSUME IInv, Next, NEW r \in InFlight, req'[r].pc = "ran", IsLocked(row[req'[r].name]),
           Settled(req'[r].name), req'[r].name \notin stale
    PROVE  IsUnlocked(r, req'[r].name)
<1> DEFINE s == req[r].sid
<1>1. TypeOK /\ r \in Reqs /\ req[r] \in Req /\ Good(r, req[r])
  BY InFlightIs DEF IInv
<1>2. s \in Sids
  BY <1>1 DEF Req
<1>3. Gate(r) \/ Config(r) \/ Enter(r)
  BY WhoServes
<1>4. ASSUME NEW a \in Req, NEW locked, req' = [req EXCEPT ![r] = Moved(a, Serve(r, a.name, locked))]
      PROVE  req'[r].name = a.name /\ (locked => IsUnlocked(r, a.name))
  <2> DEFINE pc == Serve(r, a.name, locked)
  <2>1. pc \in {"done", "ran"} /\ pc \in Phases
    BY DEF Serve, Phases
  <2>2. req'[r] = Moved(a, pc)
    BY <1>1, <1>4 DEF TypeOK
  <2>3. pc = "ran" /\ req'[r].name = a.name
    BY <2>1, <2>2, MovedFacts
  <2> QED BY <2>3 DEF Serve
<1>5. CASE Gate(r)
  <2> DEFINE name == IF cache[s] # None THEN cache[s].name ELSE on[s]
             a == [req[r] EXCEPT !.name = name]
             pc == CASE cache[s] # None -> Serve(r, cache[s].name, cache[s].locked)
                     [] cache[s] = None /\ on[s] # None -> "build"
                     [] OTHER -> "done"
  <2>1. name \in Maybe(Names) /\ a \in Req /\ a.name = name
    BY <1>1, <1>2 DEF TypeOK, Maybe, Req
  <2>2. req' = [req EXCEPT ![r] = Moved(a, pc)]
    BY <1>1, <1>5 DEF Gate, TypeOK
  <2>3. pc \in Phases
    BY DEF Serve, Phases
  <2>4. pc = "ran"
    <3> HIDE DEF a, pc
    <3> QED BY <1>1, <2>1, <2>2, <2>3, MovedFacts DEF TypeOK
  <2>5. cache[s] # None /\ pc = Serve(r, a.name, cache[s].locked) /\ a.name = cache[s].name
    BY <2>1, <2>4
  <2> HIDE DEF a, pc, name
  <2>6. req'[r].name = cache[s].name /\ (cache[s].locked => IsUnlocked(r, cache[s].name))
    BY <1>4, <2>1, <2>2, <2>5
  <2>7. cache[s].locked = IsLocked(row[cache[s].name])
    BY <1>2, <2>5, <2>6 DEF IInv, CacheKnowsLock
  <2> QED BY <2>6, <2>7
<1>6. CASE Config(r)
  <2> DEFINE n == req[r].name
  <2>1. row[n] # None /\ req' = [req EXCEPT ![r] = Moved(req[r], Serve(r, n, IsLocked(row[n])))]
    <3>1. Moved(req[r], "done").pc = "done"
      BY <1>1, MovedFacts DEF Phases
    <3>2. req' = [req EXCEPT ![r] = Moved(req[r], IF row[n] = None THEN "done" ELSE Serve(r, n, IsLocked(row[n])))]
      BY <1>1, <1>6 DEF Config, Goto, TypeOK
    <3> QED BY <1>1, <3>1, <3>2 DEF TypeOK
  <2> QED BY <1>1, <1>4, <2>1
<1>7. CASE Enter(r)
  <2> DEFINE n == req[r].name
             locked == IsLocked(req[r].seen)
  <2>1. req' = [req EXCEPT ![r] = Moved(req[r], Serve(r, n, locked))]
    <3>1. Moved(req[r], "done").pc = "done"
      BY <1>1, MovedFacts DEF Phases
    <3>2. req' = [req EXCEPT ![r] = Moved(req[r], IF req[r].op = "query" THEN Serve(r, n, locked) ELSE "done")]
      BY <1>1, <1>7 DEF Enter, Goto, TypeOK
    <3> QED BY <1>1, <3>1, <3>2 DEF TypeOK
  <2>2. req'[r].name = n /\ (locked => IsUnlocked(r, n))
    BY <1>1, <1>4, <2>1
  <2>3. locked = IsLocked(row[n])
    BY <1>1, <1>7, <2>2 DEF Good, Fresh, Enter, At, IsLocked
  <2> QED BY <2>2, <2>3
<1> QED BY <1>3, <1>5, <1>6, <1>7

\* Locked rows are served only to a tab whose token unlocked them.
THEOREM ServesItsTab == Spec => LockedServesItsTab
<1>1. IInv /\ [Next]_vars =>
        [\A r \in Reqs :
            LET n == req'[r].name IN
            /\ r \in InFlight /\ req'[r].pc = "ran"
            /\ IsLocked(row[n]) /\ Settled(n) /\ n \notin stale
            => IsUnlocked(r, n)]_vars
  BY ServedStep DEF vars
<1> QED BY <1>1, Inductive, PTL DEF Spec, LockedServesItsTab

=============================================================================
