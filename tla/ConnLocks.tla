------------------------------ MODULE ConnLocks ------------------------------
(***************************************************************************)
(* Locked connections: backend/queryview/connect.py from `request_token`   *)
(* to `remove_lock`, and the gates of the operations that use a connection.*)
(*                                                                         *)
(* A handler is cut at its awaits, a transaction that decides nothing      *)
(* between its read and its commit is one step, and a passphrase that is   *)
(* hashed anew has another salt: a lock is the passphrase with the request *)
(* that set it. What a session is on, apart from locks, is in ConnState.   *)
(***************************************************************************)
EXTENDS Naturals, FiniteSets

CONSTANTS
    Sids,         \* sessions
    Names,        \* names of saved connections
    Passphrases,
    Reqs,         \* requests, each used at most once
    None,
    NoLock,       \* the lock_hash of a connection that is not locked
    MaxAtOnce,    \* bound: requests in flight at a time
    MaxRestarts   \* bound: restarts of the server

Maybe(S) == S \cup {None}

Locks == [pass: Passphrases, by: Reqs]

ASSUME ConnLocksAssumption ==
    /\ None \notin Names \cup Passphrases \cup Reqs
    /\ None # NoLock /\ {None, NoLock} \cap Locks = {}
    /\ MaxAtOnce \in Nat /\ MaxRestarts \in Nat

VARIABLES
    row,        \* the connections table: lock_hash of each name, None without a row
    on,         \* the connection of a session's row
    cache,      \* _sessions: name and `locked` of each session's object
    unlocked,   \* _unlocked: the names that a session's token opens
    token,      \* _tokens
    held,       \* the tokens that tabs of a session were given
    fails,      \* _unlock_failures
    req,        \* req[r]: the local variables of request r
    proved,     \* history: the lock that session s gave the passphrase of, or set
    era,        \* history: how often a passphrase was right
    stale,      \* history: names whose row changed while a request held what it had read of it
    restarts    \* bounded counter

vars == <<row, on, cache, unlocked, token, held, fails, req, proved, era, stale, restarts>>
memory == <<cache, unlocked, token, held, fails>>
history == <<proved, era, restarts>>

Ops == {"query", "config", "open", "agentOpen", "save", "lock", "unlock", "remove", "delete"}

Phases == {"gate", "config", "agent", "build", "save", "enter", "lock", "delete", "verify", "check",
           "commit", "mark", "ran", "done"}

\* `tok`: the X-QV-Token sent; `seen`: the lock_hash read; `tries`: which attempt it is.
Req == [op: Ops, sid: Sids, name: Maybe(Names), pass: Maybe(Passphrases), tok: Maybe(Reqs),
        pc: Phases, seen: Locks \cup {None, NoLock}, tries: Nat, era: Nat]

ASSUME NoneAssumption == None \notin Req

\* Types; a token opens names only once it was issued.
TypeOK ==
    /\ row \in [Names -> Locks \cup {None, NoLock}]
    /\ on \in [Sids -> Maybe(Names)]
    /\ cache \in [Sids -> Maybe([name: Names, locked: BOOLEAN])]
    /\ unlocked \in [Sids -> SUBSET Names]
    /\ token \in [Sids -> Maybe(Reqs)]
    /\ \A s \in Sids : unlocked[s] # {} => token[s] \in held[s]
    /\ held \in [Sids -> SUBSET Reqs]
    /\ fails \in [Names -> Nat]
    /\ req \in [Reqs -> Maybe(Req)]
    /\ proved \in [Sids -> [Names -> Maybe(Locks)]]
    /\ era \in [Names -> Nat]
    /\ stale \subseteq Names
    /\ restarts \in Nat

\* Names without a lock and a server that knows nothing, after n restarts.
Begin(first, n) ==
    /\ row = [m \in Names |-> NoLock]
    /\ on = [s \in Sids |-> None]
    /\ cache = [s \in Sids |-> None]
    /\ unlocked = [s \in Sids |-> {}]
    /\ token = [s \in Sids |-> None]
    /\ held = [s \in Sids |-> {}]
    /\ fails = [m \in Names |-> 0]
    /\ req = first
    /\ proved = [s \in Sids |-> [m \in Names |-> None]]
    /\ era = [m \in Names |-> 0]
    /\ stale = {}
    /\ restarts = n

NoRequest == [r \in Reqs |-> None]

Init == Begin(NoRequest, 0)

InFlight == {r \in Reqs : req[r] # None /\ req[r].pc \notin {"ran", "done"}}

At(r, pc) == r \in InFlight /\ req[r].pc = pc

IsLocked(lock) == lock \in Locks

\* _is_unlocked: the session has unlocked the name, and the request carries its token.
IsUnlocked(r, n) ==
    LET s == req[r].sid IN n \in unlocked[s] /\ req[r].tok = token[s]

\* q goes on to pc; of an answered request only what it was served remains.
Moved(q, pc) ==
    LET ended == [q EXCEPT !.pc = pc, !.op = "query", !.pass = None, !.seen = None, !.tries = 0, !.era = 0]
    IN CASE pc = "ran" -> ended
         [] pc = "done" -> [ended EXCEPT !.name = None, !.tok = None]
         [] OTHER -> [q EXCEPT !.pc = pc]

Goto(r, pc) == req' = [req EXCEPT ![r] = Moved(@, pc)]

See(r, pc) == req' = [req EXCEPT ![r] = Moved([@ EXCEPT !.seen = row[req[r].name]], pc)]

\* r commits a new row of n; other requests may hold what they read of the old one.
Commit(r, n, lock) ==
    /\ row' = [row EXCEPT ![n] = lock]
    /\ stale' = IF row[n] # lock /\ \E o \in InFlight \ {r} :
                      req[o].name = n /\ req[o].pc \in {"save", "enter", "check", "commit", "mark"}
                THEN stale \cup {n} ELSE stale

\* _issue_token: a session has one token, made when it first needs one.
IssueToken(r) ==
    LET s == req[r].sid
        t == IF token[s] = None THEN r ELSE token[s]
    IN /\ unlocked' = [unlocked EXCEPT ![s] = @ \cup {req[r].name}]
       /\ token' = [token EXCEPT ![s] = t]
       /\ held' = [held EXCEPT ![s] = @ \cup {t}]

-----------------------------------------------------------------------------
(* Requests.                                                                *)

FirstPhase(op) ==
    CASE op = "query" -> "gate"
      [] op \in {"open", "save"} -> "build"
      [] op = "agentOpen" -> "agent"
      [] op \in {"unlock", "remove"} -> "verify"
      [] OTHER -> op

\* A tab of the session may be one that was given no token; the agent never has one.
Arrive(r) ==
    /\ req[r] = None
    /\ Cardinality(InFlight) < MaxAtOnce
    /\ \E op \in Ops, s \in Sids, n \in Names, p \in Maybe(Passphrases) : \E t \in Maybe(held[s]) :
          /\ p # None => op \in {"lock", "unlock", "remove", "delete"}
          /\ p = None => op \notin {"lock", "unlock", "remove"}
          /\ t # None => op \in {"query", "config", "save"}
          /\ req' = [req EXCEPT ![r] =
                [op |-> op, sid |-> s, name |-> IF op = "query" THEN None ELSE n, pass |-> p, tok |-> t,
                 pc |-> FirstPhase(op), seen |-> None, tries |-> 0, era |-> 0]]
    /\ UNCHANGED <<row, on, memory, history, stale>>

\* Seeded bug: it is the name that must be unlocked, by any session.
ServeAnyone(r, n, locked) ==
    IF locked /\ ~\E s \in Sids : n \in unlocked[s] THEN "done" ELSE "ran"

\* Is r served on n, given what it takes for the lock of n?
Serve(r, n, locked) == IF locked /\ ~IsUnlocked(r, n) THEN "done" ELSE "ran"

\* _unlocked_session, for queries and pushes: the cached object decides, or one is built.
Gate(r) ==
    LET s == req[r].sid IN
    /\ At(r, "gate")
    /\ req' = [req EXCEPT ![r] = Moved([@ EXCEPT !.name = IF cache[s] # None THEN cache[s].name ELSE on[s]],
          CASE cache[s] # None -> Serve(r, cache[s].name, cache[s].locked)
            [] cache[s] = None /\ on[s] # None -> "build"
            [] OTHER -> "done")]
    /\ UNCHANGED <<row, on, memory, history, stale>>

\* saved_config asks the row.
Config(r) ==
    LET n == req[r].name IN
    /\ At(r, "config")
    /\ Goto(r, IF row[n] = None THEN "done" ELSE Serve(r, n, IsLocked(row[n])))
    /\ UNCHANGED <<row, on, memory, history, stale>>

\* open_saved asks for the lock first when it is the agent that opens.
AgentAsk(r) ==
    /\ At(r, "agent")
    /\ Goto(r, IF IsLocked(row[req[r].name]) THEN "done" ELSE "build")
    /\ UNCHANGED <<row, on, memory, history, stale>>

\* _build_session reads the lock last; only a new connection needs no row.
Build(r) ==
    LET n == req[r].name IN
    /\ At(r, "build")
    /\ See(r, CASE req[r].op = "save" -> "save"
                [] req[r].op # "save" /\ row[n] = None -> "done"
                [] OTHER -> "enter")
    /\ UNCHANGED <<row, on, memory, history, stale>>

\* Seeded bug: a connection that is saved again is a new row.
SaveAfresh(r) ==
    LET n == req[r].name IN
    /\ At(r, "save")
    /\ IF IsLocked(req[r].seen) /\ ~IsUnlocked(r, n)
       THEN Goto(r, "done") /\ UNCHANGED <<row, stale>>
       ELSE Goto(r, "enter") /\ Commit(r, n, NoLock)
    /\ UNCHANGED <<on, memory, history>>

\* connect_new: saving again keeps the lock, and needs its token.
Save(r) ==
    LET n == req[r].name IN
    /\ At(r, "save")
    /\ IF IsLocked(req[r].seen) /\ ~IsUnlocked(r, n)
       THEN Goto(r, "done") /\ UNCHANGED <<row, stale>>
       ELSE Goto(r, "enter") /\ Commit(r, n, IF row[n] = None THEN NoLock ELSE row[n])
    /\ UNCHANGED <<on, memory, history>>

\* The object is cached; a query goes on to its gate at once.
Enter(r) ==
    LET n == req[r].name
        s == req[r].sid
        locked == IsLocked(req[r].seen)
    IN /\ At(r, "enter")
       /\ cache' = [cache EXCEPT ![s] = [name |-> n, locked |-> locked]]
       /\ on' = [on EXCEPT ![s] = IF req[r].op = "query" THEN @ ELSE n]
       /\ Goto(r, IF req[r].op = "query" THEN Serve(r, n, locked) ELSE "done")
       /\ UNCHANGED <<row, unlocked, token, held, fails, history, stale>>

-----------------------------------------------------------------------------
(* Locking.                                                                 *)

LockRead(r) ==
    /\ At(r, "lock")
    /\ See(r, IF row[req[r].name] = NoLock THEN "commit" ELSE "done")
    /\ UNCHANGED <<row, on, memory, history, stale>>

\* The passphrase has been hashed in a thread; a row that is gone by now is an error.
LockCommit(r) ==
    LET n == req[r].name IN
    /\ At(r, "commit") /\ req[r].op = "lock"
    /\ IF row[n] = None
       THEN Goto(r, "done") /\ UNCHANGED <<row, stale>>
       ELSE Goto(r, "mark") /\ Commit(r, n, [pass |-> req[r].pass, by |-> r])
    /\ UNCHANGED <<on, memory, history>>

\* Seeded bug: only the session's own object is marked.
LockMarkOwn(r) ==
    LET n == req[r].name IN
    /\ At(r, "mark") /\ req[r].op = "lock"
    /\ cache' = [s \in Sids |-> IF s = req[r].sid /\ cache[s] # None /\ cache[s].name = n
                                THEN [cache[s] EXCEPT !.locked = TRUE] ELSE cache[s]]
    /\ IssueToken(r)
    /\ proved' = [proved EXCEPT ![req[r].sid][n] = [pass |-> req[r].pass, by |-> r]]
    /\ Goto(r, "done")
    /\ UNCHANGED <<row, on, fails, era, stale, restarts>>

\* Cached objects learn of the lock, and the locking tab gets the token.
LockMark(r) ==
    LET n == req[r].name IN
    /\ At(r, "mark") /\ req[r].op = "lock"
    /\ cache' = [s \in Sids |-> IF cache[s] # None /\ cache[s].name = n
                                THEN [cache[s] EXCEPT !.locked = TRUE] ELSE cache[s]]
    /\ IssueToken(r)
    /\ proved' = [proved EXCEPT ![req[r].sid][n] = [pass |-> req[r].pass, by |-> r]]
    /\ Goto(r, "done")
    /\ UNCHANGED <<row, on, fails, era, stale, restarts>>

\* Seeded bug: an attempt is counted when it has failed.
AttemptUncounted(r) ==
    LET n == req[r].name IN
    /\ At(r, "verify")
    /\ req' = [req EXCEPT ![r] = Moved([@ EXCEPT !.seen = row[n], !.tries = fails[n] + 1, !.era = era[n]],
                                      IF IsLocked(row[n]) THEN "check" ELSE "done")]
    /\ UNCHANGED <<row, on, cache, unlocked, token, held, fails, history, stale>>

\* _verify_passphrase reads the hash and counts the attempt, then waits its turn.
Attempt(r) ==
    LET n == req[r].name IN
    /\ At(r, "verify")
    /\ req' = [req EXCEPT ![r] = Moved([@ EXCEPT !.seen = row[n], !.tries = fails[n] + 1, !.era = era[n]],
                                      IF IsLocked(row[n]) THEN "check" ELSE "done")]
    /\ fails' = [fails EXCEPT ![n] = IF IsLocked(row[n]) THEN @ + 1 ELSE @]
    /\ UNCHANGED <<row, on, cache, unlocked, token, held, history, stale>>

CheckWrong(r) ==
    /\ At(r, "check") /\ req[r].pass # req[r].seen.pass
    /\ Goto(r, "done")
    /\ UNCHANGED <<row, on, memory, history, stale>>

\* The passphrase is that of the hash read before the wait.
CheckRight(r) ==
    LET n == req[r].name IN
    /\ At(r, "check") /\ req[r].pass = req[r].seen.pass
    /\ fails' = [fails EXCEPT ![n] = 0]
    /\ era' = [era EXCEPT ![n] = @ + 1]
    /\ IF req[r].op = "unlock"
       THEN /\ IssueToken(r)
            /\ proved' = [proved EXCEPT ![req[r].sid][n] = req[r].seen]
            /\ Goto(r, "done")
       ELSE Goto(r, "commit") /\ UNCHANGED <<unlocked, token, held, proved>>
    /\ UNCHANGED <<row, on, cache, stale, restarts>>

RemoveCommit(r) ==
    LET n == req[r].name IN
    /\ At(r, "commit") /\ req[r].op = "remove"
    /\ Goto(r, "mark")
    /\ Commit(r, n, IF row[n] = None THEN None ELSE NoLock)
    /\ UNCHANGED <<on, memory, history>>

RemoveMark(r) ==
    LET n == req[r].name IN
    /\ At(r, "mark") /\ req[r].op = "remove"
    /\ unlocked' = [s \in Sids |-> unlocked[s] \ {n}]
    /\ cache' = [s \in Sids |-> IF cache[s] # None /\ cache[s].name = n
                                THEN [cache[s] EXCEPT !.locked = FALSE] ELSE cache[s]]
    /\ Goto(r, "done")
    /\ UNCHANGED <<row, on, token, held, fails, history, stale>>

\* delete_connection: a locked one takes its passphrase.
DeleteRead(r) ==
    LET n == req[r].name IN
    /\ At(r, "delete")
    /\ See(r, CASE row[n] = None \/ (IsLocked(row[n]) /\ req[r].pass = None) -> "done"
                [] IsLocked(row[n]) /\ req[r].pass # None -> "verify"
                [] OTHER -> "commit")
    /\ UNCHANGED <<row, on, memory, history, stale>>

DeleteCommit(r) ==
    /\ At(r, "commit") /\ req[r].op = "delete"
    /\ Goto(r, "mark")
    /\ Commit(r, req[r].name, None)
    /\ UNCHANGED <<on, memory, history>>

\* Every session on it is disconnected.
DeleteMark(r) ==
    LET n == req[r].name IN
    /\ At(r, "mark") /\ req[r].op = "delete"
    /\ unlocked' = [s \in Sids |-> unlocked[s] \ {n}]
    /\ cache' = [s \in Sids |-> IF cache[s] # None /\ cache[s].name = n THEN None ELSE cache[s]]
    /\ on' = [s \in Sids |-> IF on[s] = n THEN None ELSE on[s]]
    /\ Goto(r, "done")
    /\ UNCHANGED <<row, token, held, fails, history, stale>>

Evict(s) ==
    /\ cache[s] # None
    /\ cache' = [cache EXCEPT ![s] = None]
    /\ UNCHANGED <<row, on, unlocked, token, held, fails, req, history, stale>>

\* Rows outlive a restart; tabs keep tokens that open nothing any more.
Restart ==
    /\ restarts < MaxRestarts
    /\ restarts' = restarts + 1
    /\ cache' = [s \in Sids |-> None]
    /\ unlocked' = [s \in Sids |-> {}]
    /\ token' = [s \in Sids |-> None]
    /\ fails' = [n \in Names |-> 0]
    /\ req' = [r \in Reqs |-> IF r \in InFlight THEN Moved(req[r], "done") ELSE req[r]]
    /\ stale' = {}
    /\ UNCHANGED <<row, on, held, proved, era>>

Next ==
    \/ \E r \in Reqs :
          \/ Arrive(r) \/ Gate(r) \/ Config(r) \/ AgentAsk(r) \/ Build(r) \/ Save(r) \/ Enter(r)
          \/ LockRead(r) \/ LockCommit(r) \/ LockMark(r)
          \/ Attempt(r) \/ CheckWrong(r) \/ CheckRight(r) \/ RemoveCommit(r) \/ RemoveMark(r)
          \/ DeleteRead(r) \/ DeleteCommit(r) \/ DeleteMark(r)
    \/ \E s \in Sids : Evict(s)
    \/ Restart

Spec == Init /\ [][Next]_vars

-----------------------------------------------------------------------------
(* Properties.  A row changes, then what memory says of it: they agree when *)
(* no request is in between.                                                *)

Settled(n) == ~\E r \in InFlight : req[r].name = n /\ req[r].pc = "mark"

\* A session's cached object is locked exactly when its connection is, through locks,
\* removals, deletions, evictions and restarts, unless a request acted on what it had read
\* of the row before it changed.
CacheKnowsLock ==
    \A s \in Sids : cache[s] # None =>
       LET n == cache[s].name IN
       Settled(n) /\ n \notin stale => cache[s].locked = IsLocked(row[n])

\* What a token opens was opened with the passphrase of the lock that is on now: none is
\* left over from a lock that was removed or deleted. The same exception.
UnlockIsForThisLock ==
    \A s \in Sids : \A n \in unlocked[s] :
       Settled(n) /\ n \notin stale => proved[s][n] = row[n]

\* What memory holds of the locks, in one invariant.
MemoryKnowsLocks == TypeOK /\ CacheKnowsLock /\ UnlockIsForThisLock

\* A lock goes only by a request that gave its passphrase. The same exception.
LockGoesByPassphrase ==
    [][\A n \in Names : IsLocked(row[n]) /\ row'[n] # row[n] /\ n \notin stale' =>
          \E r \in InFlight : At(r, "commit") /\ req[r].seen = row[n] /\ req[r].pass = row[n].pass]_vars

\* _verify_passphrase: "counted before the wait so a burst queues instead of racing": two
\* attempts under way on one connection wait for different times, unless a passphrase was
\* right in between.
BurstQueues ==
    \A r, o \in InFlight :
       r # o /\ At(r, "check") /\ At(o, "check") /\ req[r].name = req[o].name =>
          req[r].tries # req[o].tries \/ req[r].era # req[o].era

\* A query runs, and a config is shown, on a locked connection only for a tab of a session
\* that unlocked it. The same exception.
LockedServesItsTab ==
    [][\A r \in Reqs :
          LET n == req'[r].name IN
          /\ r \in InFlight /\ req'[r].pc = "ran"
          /\ IsLocked(row[n]) /\ Settled(n) /\ n \notin stale
          => IsUnlocked(r, n)]_vars
=============================================================================
