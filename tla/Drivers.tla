------------------------------- MODULE Drivers -------------------------------
(***************************************************************************)
(* A request that runs SQL, from its route to the database and back:       *)
(* backend/queryview/drivers, the operations of connect.py that call them, *)
(* dashboard_queries.py and the tools run_sql and run_script.              *)
(*                                                                         *)
(* All requests are on one database, of one driver; DuckDB counts as       *)
(* three: a file, a folder of data files and :memory:.  The connection     *)
(* gate is ConnState's, and where statements begin is Statements'.         *)
(***************************************************************************)
EXTENDS Naturals, Sequences, FiniteSetsExt

CONSTANTS
    Reqs,        \* requests, each used at most once
    DriverTypes, \* the drivers to look at
    Scripts,     \* what scripts and dashboards run: sequences of Kinds
    Cap,         \* SCRIPT_ROW_CAP, and the limit of the other requests
    MaxCrashes   \* bound: crashes of the server

Kinds == {"read", "write", "copy", "begin", "commit", "bad"}

ASSUME DriversAssumption ==
    /\ DriverTypes \subseteq {"clickhouse", "postgres", "sqlite", "duckdb", "folder", "memory"}
    /\ Scripts \subseteq Seq(Kinds) \ {<<>>}
    /\ Cap \in Nat \ {0}
    /\ MaxCrashes \in Nat

VARIABLES
    driver,    \* the type of the connection
    job,       \* job[r]: the operation of request r and its statements
    pc,        \* where request r is
    con,       \* the mode of the connection that r holds, or "none"
    txn,       \* r's connection is in a transaction of the script's own
    pending,   \* the writes of that transaction, by the statement's number
    next,      \* the statement in progress
    answers,   \* the results of the statements that r has seen done
    failed,    \* a statement, or the connection, has failed
    stored,    \* the writes of r that are in the database or on disk
    late,      \* writes of r that a server may still do although r has given up
    crashes    \* bounded counter

vars == <<driver, job, pc, con, txn, pending, next, answers, failed, stored, late, crashes>>
session == <<con, txn, pending>>
outcome == <<next, answers, failed>>
env == <<driver, job, crashes>>

Embedded == {"sqlite", "duckdb", "folder", "memory"}
Duck == {"duckdb", "folder", "memory"}

\* run_query, export_csv, run_sql, describe_query, execute_script of a driver, the queries
\* of a dashboard one by one, and list_tables (or test, or list_databases).
Ops == {"page", "csv", "sql", "describe", "script", "dashboard", "list"}

NoJob == [op |-> "none", stmts |-> <<>>]

TypeOK ==
    /\ driver \in DriverTypes
    /\ job \in [Reqs -> [op: Ops \cup {"none"}, stmts: Seq(Kinds)]]
    /\ pc \in [Reqs -> {"idle", "open", "sent", "ran", "left", "close", "done", "lost"}]
    /\ con \in [Reqs -> {"none", "ro", "rw"}]
    /\ txn \in [Reqs -> BOOLEAN]
    /\ pending \in [Reqs -> SUBSET Nat]
    /\ next \in [Reqs -> Nat]
    /\ answers \in [Reqs -> Seq([size: Nat, shown: Nat, truncated: BOOLEAN])]
    /\ failed \in [Reqs -> BOOLEAN]
    /\ stored \in [Reqs -> SUBSET Nat]
    /\ late \in [Reqs -> SUBSET Nat]
    /\ crashes \in Nat

Init ==
    /\ driver \in DriverTypes
    /\ job = [r \in Reqs |-> NoJob]
    /\ pc = [r \in Reqs |-> "idle"]
    /\ con = [r \in Reqs |-> "none"]
    /\ txn = [r \in Reqs |-> FALSE]
    /\ pending = [r \in Reqs |-> {}]
    /\ next = [r \in Reqs |-> 1]
    /\ answers = [r \in Reqs |-> <<>>]
    /\ failed = [r \in Reqs |-> FALSE]
    /\ stored = [r \in Reqs |-> {}]
    /\ late = [r \in Reqs |-> {}]
    /\ crashes = 0

-----------------------------------------------------------------------------
(* What a method of a driver makes of its SQL.  "wrapped": a subselect of a *)
(* query of its own; "parsed": refused unless it parses as one query;       *)
(* "prepared": not run at all; "plain": run as it is written.               *)

ChForm(op) ==
    CASE op \in {"page", "csv", "dashboard", "describe"} -> "wrapped"
      [] op \in {"sql", "script", "list"} -> "plain"

PgForm(op) ==
    CASE op \in {"page", "csv", "dashboard"} -> "wrapped"
      [] op = "describe" -> "prepared"
      [] op \in {"sql", "script", "list"} -> "plain"

SqliteForm(op) ==
    CASE op \in {"page", "csv", "dashboard", "describe"} -> "wrapped"
      [] op \in {"sql", "script", "list"} -> "plain"

DuckForm(op) ==
    CASE op \in {"page", "csv", "dashboard", "describe"} -> "wrapped"
      [] op = "sql" -> "parsed"
      [] op \in {"script", "list"} -> "plain"

Form(op) ==
    CASE driver = "clickhouse" -> ChForm(op)
      [] driver = "postgres" -> PgForm(op)
      [] driver = "sqlite" -> SqliteForm(op)
      [] driver \in Duck -> DuckForm(op)

\* Whether the connection lets a statement write: ClickHouse takes a GET as read-only.
ChMode(op) == IF op = "script" THEN "rw" ELSE "ro"

\* Only run_sql has a read-only transaction around its statement.
PgMode(op) == IF op = "sql" THEN "ro" ELSE "rw"

SqliteMode(op) == IF op = "script" THEN "rw" ELSE "ro"

\* A folder and :memory: are queried through an in-memory database, which cannot be read-only.
DuckMode(op) == IF op = "script" \/ driver # "duckdb" THEN "rw" ELSE "ro"

Mode(op) ==
    CASE driver = "clickhouse" -> ChMode(op)
      [] driver = "postgres" -> PgMode(op)
      [] driver = "sqlite" -> SqliteMode(op)
      [] driver \in Duck -> DuckMode(op)

\* What the database itself runs. ClickHouse has no transactions by default; Postgres only
\* warns of a BEGIN or COMMIT out of place; a DuckDB file has no access to other files.
Valid(k, intxn) ==
    CASE k = "begin" -> driver = "postgres" \/ (driver \in Embedded /\ ~intxn)
      [] k = "commit" -> driver = "postgres" \/ (driver \in Embedded /\ intxn)
      [] k = "copy" -> driver \in {"sqlite", "folder"}
      [] OTHER -> k # "bad"

\* Does a statement of kind k get through to be run (or prepared) by r's method?
Takes(r, k) ==
    /\ Valid(k, txn[r])
    /\ CASE Form(job[r].op) \in {"wrapped", "parsed"} -> k = "read"
         [] Form(job[r].op) = "prepared" -> TRUE
         [] Form(job[r].op) = "plain" -> con[r] = "rw" \/ k \in {"read", "begin", "commit"}

\* Seeded bug: run_sql without its interrupt.
LimitedNetwork(r) == driver \notin Duck

\* A DuckDB call has a time limit in run_sql only; the other drivers have one everywhere.
Limited(r) == driver \notin Duck \/ job[r].op = "sql"

-----------------------------------------------------------------------------
(* Rows.                                                                    *)

\* How many of `size` rows the driver hands over: the page's LIMIT, or one more than the
\* cap, past which ClickHouse stops only between blocks.
Fetched(op, size) ==
    CASE op \in {"page", "csv", "dashboard"} -> {Min({size, Cap})}
      [] op \in {"script", "sql"} -> Min({size, Cap + 1}) ..
                                     IF driver = "clickhouse" THEN size ELSE Min({size, Cap + 1})
      [] op \in {"describe", "list"} -> {0}

\* Seeded bug: one row past the cap is what tells a cut.
CutExact(n) == [shown |-> Min({n, Cap}), truncated |-> n = Cap + 1]

\* run_script's cut to the cap; run_sql's tool does the same with its limit.
Cut(n) == [shown |-> Min({n, Cap}), truncated |-> n > Cap]

Result(r, size, n) ==
    LET cut == IF job[r].op \in {"script", "sql"} THEN Cut(n) ELSE [shown |-> n, truncated |-> FALSE] IN
    [size |-> IF job[r].op \in {"describe", "list"} THEN 0 ELSE size,
     shown |-> cut.shown, truncated |-> cut.truncated]

-----------------------------------------------------------------------------
(* The steps of a request.                                                  *)

\* The routes take one statement, but for scripts and dashboards (whose queries are reads).
Arrive(r) ==
    /\ pc[r] = "idle"
    /\ \E op \in Ops, stmts \in Scripts :
          /\ op \in {"page", "csv", "sql", "describe", "list"} =>
                Len(stmts) = 1 /\ stmts[1] \notin {"begin", "commit"}
          /\ op \in {"list", "dashboard"} => \A n \in DOMAIN stmts : stmts[n] \in {"read", "bad"}
          /\ job' = [job EXCEPT ![r] = [op |-> op, stmts |-> stmts]]
    /\ pc' = [pc EXCEPT ![r] = "open"]
    /\ UNCHANGED <<driver, crashes, session, outcome, stored, late>>

\* DuckDB refuses a second open of a file in another mode.
Open(r) ==
    LET mode == Mode(job[r].op) IN
    /\ pc[r] = "open"
    /\ driver = "duckdb" => \A o \in Reqs \ {r} : con[o] \in {"none", mode}
    /\ con' = [con EXCEPT ![r] = mode]
    /\ pc' = [pc EXCEPT ![r] = "sent"]
    /\ UNCHANGED <<env, txn, pending, outcome, stored, late>>

\* The server or the file cannot be opened: one failure for the whole request.
OpenFails(r) ==
    /\ pc[r] = "open"
    /\ failed' = [failed EXCEPT ![r] = TRUE]
    /\ pc' = [pc EXCEPT ![r] = "close"]
    /\ UNCHANGED <<env, session, next, answers, stored, late>>

Stmt(r) == job[r].stmts[next[r]]

\* What becomes permanent when the database runs r's statement: its own write, outside a
\* transaction, or those of the transaction it commits. Files are written at once, and an
\* in-memory database is gone with its connection.
Effect(r) ==
    LET k == Stmt(r)
        lasting == driver \notin {"memory", "folder"}
    IN IF Form(job[r].op) # "plain" THEN {}
       ELSE CASE k = "copy" -> {next[r]}
              [] k = "write" /\ lasting /\ ~txn[r] -> {next[r]}
              [] k = "commit" /\ lasting -> pending[r]
              [] OTHER -> {}

\* SQLite lets one connection write at a time.
Run(r) ==
    LET k == Stmt(r) IN
    /\ pc[r] = "sent"
    /\ Takes(r, k)
    /\ driver = "sqlite" /\ k = "write" => \A o \in Reqs \ {r} : pending[o] = {}
    /\ stored' = [stored EXCEPT ![r] = @ \cup Effect(r)]
    /\ pending' = [pending EXCEPT ![r] =
          IF k = "write" /\ txn[r] THEN @ \cup {next[r]} ELSE IF k = "commit" THEN {} ELSE @]
    /\ txn' = [txn EXCEPT ![r] = IF k \in {"begin", "commit"} THEN k = "begin" ELSE @]
    /\ pc' = [pc EXCEPT ![r] = "ran"]
    /\ UNCHANGED <<env, con, outcome, late>>

\* Seeded bug: the script goes on after a failure.
FailsGoesOn(r) ==
    /\ pc[r] = "sent"
    /\ failed' = [failed EXCEPT ![r] = TRUE]
    /\ next' = [next EXCEPT ![r] = @ + 1]
    /\ pc' = [pc EXCEPT ![r] = IF next[r] < Len(job[r].stmts) THEN "sent" ELSE "close"]
    /\ UNCHANGED <<env, session, answers, stored, late>>

\* The statement is refused, or the database finds an error in it: the first failure stops
\* a script (run_script) and a dashboard.
Fails(r) ==
    /\ pc[r] = "sent"
    /\ failed' = [failed EXCEPT ![r] = TRUE]
    /\ pc' = [pc EXCEPT ![r] = "close"]
    /\ UNCHANGED <<env, session, next, answers, stored, late>>

\* Seeded bug: SQLite's statement is not aborted.
GiveUpLate(r) ==
    /\ Limited(r)
    /\ \/ pc[r] = "sent" /\ late' = [late EXCEPT ![r] = IF Takes(r, Stmt(r)) THEN Effect(r) ELSE {}]
       \/ pc[r] = "ran" /\ driver \notin Embedded /\ late' = late
    /\ failed' = [failed EXCEPT ![r] = TRUE]
    /\ pc' = [pc EXCEPT ![r] = "close"]
    /\ UNCHANGED <<env, session, next, answers, stored>>

\* The time limit, or a lost connection: a failure for r, but a server may have finished
\* the statement, or finish it later. SQLite and DuckDB abort it instead.
GiveUp(r) ==
    /\ Limited(r)
    /\ \/ pc[r] = "sent" /\ late' = [late EXCEPT ![r] =
             IF driver \notin Embedded /\ Takes(r, Stmt(r)) THEN Effect(r) ELSE {}]
       \/ pc[r] = "ran" /\ driver \notin Embedded /\ late' = late
    /\ failed' = [failed EXCEPT ![r] = TRUE]
    /\ pc' = [pc EXCEPT ![r] = "close"]
    /\ UNCHANGED <<env, session, next, answers, stored>>

\* A dashboard opens a connection for each of its queries.
Answer(r) ==
    /\ pc[r] = "ran"
    /\ \E size \in IF Stmt(r) = "read" THEN Cap..Cap + 2 ELSE {0} : \E n \in Fetched(job[r].op, size) :
          answers' = [answers EXCEPT ![r] = Append(@, Result(r, size, n))]
    /\ next' = [next EXCEPT ![r] = @ + 1]
    /\ pc' = [pc EXCEPT ![r] =
          IF next[r] < Len(job[r].stmts) /\ job[r].op = "script" THEN "sent" ELSE "close"]
    /\ UNCHANGED <<env, session, failed, stored, late>>

\* The tool run_sql stops waiting for a DuckDB thread, which holds its connection on.
Backstop(r) ==
    /\ job[r].op = "sql" /\ driver \in Duck
    /\ pc[r] \in {"sent", "ran"}
    /\ failed' = [failed EXCEPT ![r] = TRUE]
    /\ pc' = [pc EXCEPT ![r] = "left"]
    /\ UNCHANGED <<env, session, next, answers, stored, late>>

\* The thread has been interrupted, or was done.
LeftEnds(r) ==
    /\ pc[r] = "left" /\ Limited(r)
    /\ pc' = [pc EXCEPT ![r] = "close"]
    /\ UNCHANGED <<env, session, outcome, stored, late>>

\* The connection is closed, which rolls back what the script did not commit, and r answered.
Close(r) ==
    /\ pc[r] = "close"
    /\ con' = [con EXCEPT ![r] = "none"]
    /\ txn' = [txn EXCEPT ![r] = FALSE]
    /\ pending' = [pending EXCEPT ![r] = {}]
    /\ pc' = [pc EXCEPT ![r] = IF ~failed[r] /\ next[r] <= Len(job[r].stmts) THEN "open" ELSE "done"]
    /\ UNCHANGED <<env, outcome, stored, late>>

LateLands(r) ==
    /\ late[r] # {}
    /\ stored' = [stored EXCEPT ![r] = @ \cup late[r]]
    /\ late' = [late EXCEPT ![r] = {}]
    /\ UNCHANGED <<env, pc, session, outcome>>

LateDropped(r) ==
    /\ late[r] # {}
    /\ late' = [late EXCEPT ![r] = {}]
    /\ UNCHANGED <<env, pc, session, outcome, stored>>

\* The server process dies with its threads and connections.
Crash ==
    LET alive == {r \in Reqs : pc[r] \notin {"idle", "done", "lost"}} IN
    /\ crashes < MaxCrashes
    /\ alive # {}
    /\ crashes' = crashes + 1
    /\ pc' = [r \in Reqs |-> IF r \in alive THEN "lost" ELSE pc[r]]
    /\ con' = [r \in Reqs |-> "none"]
    /\ txn' = [r \in Reqs |-> FALSE]
    /\ pending' = [r \in Reqs |-> {}]
    /\ late' = [r \in Reqs |->
          IF pc[r] = "sent" /\ driver \notin Embedded /\ Takes(r, Stmt(r)) THEN Effect(r) ELSE late[r]]
    /\ UNCHANGED <<driver, job, outcome, stored>>

Next ==
    \/ \E r \in Reqs :
          \/ Arrive(r) \/ Open(r) \/ OpenFails(r) \/ Run(r) \/ Fails(r) \/ GiveUp(r) \/ Answer(r)
          \/ Backstop(r) \/ LeftEnds(r) \/ Close(r) \/ LateLands(r) \/ LateDropped(r)
    \/ Crash

Spec == Init /\ [][Next]_vars

\* A connection opens or fails to, a time limit fires, a result arrives, a connection is
\* closed; that a database ever finishes a statement is not assumed.
Fairness ==
    \A r \in Reqs :
       /\ WF_vars(Open(r) \/ OpenFails(r))
       /\ WF_vars(GiveUp(r))
       /\ WF_vars(Answer(r))
       /\ WF_vars(LeftEnds(r))
       /\ WF_vars(Close(r))

FairSpec == Spec /\ Fairness

-----------------------------------------------------------------------------
(* Properties.                                                              *)

\* Is statement i of script s in a block that a BEGIN before it has opened?
InTxn(s, i) == \E b \in 1..i - 1 : s[b] = "begin" /\ \A j \in b..i - 1 : s[j] # "commit"

\* The writes before statement n that still wait for their COMMIT.
Uncommitted(s, n) ==
    {i \in 1..n - 1 : s[i] = "write" /\ InTxn(s, i) /\ \A j \in i..n - 1 : s[j] # "commit"}

\* The writes that statement n of r makes permanent, read off the script alone.
Unit(r, n) ==
    LET s == job[r].stmts
        lasting == driver \notin {"memory", "folder"}
    IN {i \in 1..n :
          /\ job[r].op = "script"
          /\ \/ i = n /\ s[n] = "copy" /\ driver # "memory"
             \/ i = n /\ s[n] = "write" /\ lasting /\ ~InTxn(s, n)
             \/ i \in Uncommitted(s, n) /\ s[n] = "commit" /\ lasting}

Promise == INSTANCE ScriptPromise WITH
    Runs <- Reqs,
    plan <- [r \in Reqs |-> [n \in 1..Len(job[r].stmts) |-> Unit(r, n)]],
    said <- [r \in Reqs |-> Len(answers[r])],
    over <- [r \in Reqs |-> failed[r] \/ pc[r] \in {"done", "lost"}],
    stored <- stored

\* docs/scripts.md, "An error stops the run": statements take effect in order, each is
\* reported once its effect is there, and nothing after the failing one is sent; of a
\* BEGIN block there is all or nothing. A failure reported for a lost connection or a
\* time limit is the only one whose statement may have had its effect.
KeepsPromise == Promise!Spec

\* base.py:82: only a server can finish what was reported as failed; with SQLite and DuckDB
\* a request that is answered has done exactly what it says.
EmbeddedFailureIsClean ==
    driver \in Embedded =>
       \A r \in Reqs : pc[r] = "done" =>
          stored[r] = UNION {Unit(r, n) : n \in DOMAIN answers[r]}

\* "This is the one path that writes": no page, download, description, dashboard, listing
\* or run_sql changes the database or a file, whatever statement it is given.
ReadPathsWriteNothing ==
    \A r \in Reqs : job[r].op # "script" => stored[r] = {} /\ late[r] = {}

\* What is written, and by whom: the invariant of the two, with the types they need.
WritesOK == TypeOK /\ EmbeddedFailureIsClean /\ ReadPathsWriteNothing

\* A result shows the rows up to the cap and says that there are more exactly when there
\* are: drivers fetch one row more, or up to a block more.
TruncationTold ==
    \A r \in Reqs : \A n \in DOMAIN answers[r] :
       LET a == answers[r][n] IN
       /\ a.shown = Min({a.size, Cap})
       /\ job[r].op \in {"script", "sql"} => (a.truncated <=> a.size > Cap)

\* A request with a time limit is answered and gives back its connection, which would keep
\* a DuckDB file closed to scripts, or to everything else.
Answered ==
    \A r \in Reqs :
       pc[r] = "open" /\ (driver \in Duck => job[r].op = "sql") ~> pc[r] \in {"done", "lost"}
=============================================================================
