---------------------------- MODULE Drivers_proofs ----------------------------
(* TLAPS proofs about Drivers: a run keeps what ScriptPromise promises, only   *)
(* scripts write, a failure of an embedded database leaves nothing behind, and *)
(* a cut result says so, for any number of requests, any scripts, any driver,  *)
(* any cap and any number of crashes.                                          *)
EXTENDS Drivers, TLAPS

-----------------------------------------------------------------------------
(* The inductive invariant.                                                 *)

Length(r) == Len(job[r].stmts)

\* What the first n statements of r make permanent.
Effects(r, n) == UNION {Unit(r, i) : i \in 1..n}

\* What was asked for: only a script has statements that open and close a transaction.
Asked(r) ==
    /\ pc[r] = "idle" <=> job[r].op = "none"
    /\ job[r].op = "none" => job[r] = NoJob
    /\ job[r].op # "none" => job[r].stmts # <<>>
    /\ job[r].op # "script" => \A n \in DOMAIN job[r].stmts : job[r].stmts[n] \notin {"begin", "commit"}
    /\ job[r].op \in {"list", "dashboard"} =>
          \A n \in DOMAIN job[r].stmts : job[r].stmts[n] \in {"read", "bad"}

\* How far it has come.
Progress(r) ==
    /\ next[r] = Len(answers[r]) + 1 /\ next[r] <= Length(r) + 1
    /\ pc[r] \in {"open", "sent", "ran"} => next[r] <= Length(r) /\ ~failed[r]
    /\ pc[r] = "idle" => ~failed[r]
    /\ pc[r] = "left" => failed[r] /\ job[r].op = "sql"
    /\ job[r].op = "script" /\ pc[r] = "open" => next[r] = 1
    /\ job[r].op = "script" /\ pc[r] = "close" /\ ~failed[r] => next[r] = Length(r) + 1

\* The connection and its transaction, when n statements have run on it.
Connected(r, n) ==
    /\ con[r] = Mode(job[r].op)
    /\ txn[r] <=> InTxn(job[r].stmts, n + 1)
    /\ pending[r] = Uncommitted(job[r].stmts, n + 1)

Transaction(r) ==
    /\ pc[r] \in {"idle", "open", "done", "lost"} => ~txn[r] /\ pending[r] = {}
    /\ pc[r] = "sent" => Connected(r, next[r] - 1)
    /\ pc[r] = "ran" => Connected(r, next[r])

\* What is permanent, and what may still become so.
Written(r) ==
    /\ pc[r] \in {"idle", "open", "sent"} => stored[r] = Effects(r, next[r] - 1) /\ late[r] = {}
    /\ pc[r] = "ran" => stored[r] = Effects(r, next[r]) /\ late[r] = {}
    /\ late[r] # {} => next[r] <= Length(r) /\ late[r] = Unit(r, next[r])
    /\ driver \in Embedded /\ pc[r] # "lost" => late[r] = {}
    /\ driver \in Embedded /\ pc[r] \in {"left", "close", "done"} => stored[r] = Effects(r, next[r] - 1)
    /\ job[r].op # "script" => stored[r] = {} /\ late[r] = {}

Tells(op, a) ==
    /\ a.shown = Min({a.size, Cap})
    /\ op \in {"script", "sql"} => (a.truncated <=> a.size > Cap)

Told(r) == \A n \in DOMAIN answers[r] : Tells(job[r].op, answers[r][n])

Good(r) == Asked(r) /\ Progress(r) /\ Transaction(r) /\ Written(r) /\ Told(r)

IInv == TypeOK /\ \A r \in Reqs : Good(r)

-----------------------------------------------------------------------------
(* Scripts and their statements.                                            *)

\* Where no transaction begins, none is open.
LEMMA NoTxn ==
    ASSUME NEW s \in Seq(Kinds), NEW n \in 0..Len(s),
           \A i \in 1..n : s[i] # "begin"
    PROVE  ~InTxn(s, n + 1) /\ Uncommitted(s, n + 1) = {}
BY DEF InTxn, Uncommitted

\* What one more statement makes of the transaction.
LEMMA TxnStep ==
    ASSUME NEW s \in Seq(Kinds), NEW n \in 1..Len(s)
    PROVE  InTxn(s, n + 1) <=> s[n] = "begin" \/ (InTxn(s, n) /\ s[n] # "commit")
<1>1. ASSUME InTxn(s, n + 1), s[n] # "begin"
      PROVE  InTxn(s, n) /\ s[n] # "commit"
  <2>1. PICK b \in 1..n : s[b] = "begin" /\ \A j \in b..n : s[j] # "commit"
    BY <1>1 DEF InTxn
  <2> QED BY <1>1, <2>1 DEF InTxn
<1>2. ASSUME s[n] = "begin"
      PROVE  InTxn(s, n + 1)
  BY <1>2 DEF InTxn
<1>3. ASSUME InTxn(s, n), s[n] # "commit"
      PROVE  InTxn(s, n + 1)
  <2>1. PICK b \in 1..n - 1 : s[b] = "begin" /\ \A j \in b..n - 1 : s[j] # "commit"
    BY <1>3 DEF InTxn
  <2>2. \A j \in b..n : s[j] # "commit"
    BY <1>3, <2>1
  <2> QED BY <2>1, <2>2 DEF InTxn
<1>4. ASSUME s[n] = "begin"
      PROVE  s[n] # "commit"
  BY <1>4
<1> QED BY <1>1, <1>2, <1>3, <1>4

\* What one more statement makes of the writes that wait for their COMMIT.
LEMMA UncommittedStep ==
    ASSUME NEW s \in Seq(Kinds), NEW n \in 1..Len(s)
    PROVE  Uncommitted(s, n + 1) =
              IF s[n] = "write" /\ InTxn(s, n) THEN Uncommitted(s, n) \cup {n}
              ELSE IF s[n] = "commit" THEN {} ELSE Uncommitted(s, n)
<1>1. ASSUME s[n] = "commit"
      PROVE  Uncommitted(s, n + 1) = {}
  BY <1>1 DEF Uncommitted
<1>2. ASSUME s[n] # "commit", NEW i \in 1..n - 1
      PROVE  i \in Uncommitted(s, n + 1) <=> i \in Uncommitted(s, n)
  BY <1>2 DEF Uncommitted
<1>3. ASSUME s[n] # "commit"
      PROVE  n \in Uncommitted(s, n + 1) <=> s[n] = "write" /\ InTxn(s, n)
  BY <1>3 DEF Uncommitted
<1>4. Uncommitted(s, n + 1) \subseteq 1..n /\ Uncommitted(s, n) \subseteq 1..n - 1
  BY DEF Uncommitted
<1>5. CASE s[n] = "commit"
  BY <1>1, <1>5
<1>6. CASE s[n] # "commit" /\ s[n] = "write" /\ InTxn(s, n)
  <2>1. Uncommitted(s, n + 1) = Uncommitted(s, n) \cup {n}
    BY <1>2, <1>3, <1>4, <1>6
  <2> QED BY <1>6, <2>1
<1>7. CASE s[n] # "commit" /\ ~(s[n] = "write" /\ InTxn(s, n))
  <2>1. Uncommitted(s, n + 1) \subseteq 1..n - 1
    BY <1>3, <1>4, <1>7
  <2>2. Uncommitted(s, n + 1) = Uncommitted(s, n)
    BY <1>2, <1>4, <1>7, <2>1
  <2> QED BY <1>7, <2>2
<1> QED BY <1>5, <1>6, <1>7

LEMMA EffectsFirst == ASSUME NEW r PROVE Effects(r, 0) = {}
BY DEF Effects

LEMMA EffectsStep ==
    ASSUME NEW r, NEW n \in Nat
    PROVE  Effects(r, n + 1) = Effects(r, n) \cup Unit(r, n + 1)
<1>1. 1..n + 1 = (1..n) \cup {n + 1}
  OBVIOUS
<1> QED BY <1>1 DEF Effects

\* Only a script makes anything permanent.
LEMMA OnlyScripts ==
    ASSUME NEW r, job[r].op # "script", NEW n \in Nat
    PROVE  Unit(r, n) = {} /\ Effects(r, n) = {}
<1>1. \A i \in Nat : Unit(r, i) = {}
  BY DEF Unit
<1> QED BY <1>1 DEF Effects

\* What a request makes permanent depends on nothing but what was asked for.
LEMMA UnitOfJob ==
    ASSUME NEW r, driver' = driver, job'[r] = job[r]
    PROVE  \A n : Unit(r, n)' = Unit(r, n) /\ Effects(r, n)' = Effects(r, n)
<1>1. \A n : Unit(r, n)' = Unit(r, n)
  BY DEF Unit
<1> QED BY <1>1 DEF Effects

\* The smaller of two numbers.
LEMMA MinOfTwo ==
    ASSUME NEW a \in Nat, NEW b \in Nat
    PROVE  Min({a, b}) = IF a <= b THEN a ELSE b
<1> DEFINE m == IF a <= b THEN a ELSE b
<1>1. m \in {a, b} /\ \A y \in {a, b} : m <= y
  OBVIOUS
<1>2. \A x \in {a, b} : (\A y \in {a, b} : x <= y) => x = m
  OBVIOUS
<1> QED BY <1>1, <1>2 DEF Min

-----------------------------------------------------------------------------
(* What stays as it is.                                                     *)

Same(r) ==
    /\ job'[r] = job[r] /\ pc'[r] = pc[r] /\ con'[r] = con[r] /\ txn'[r] = txn[r]
    /\ pending'[r] = pending[r] /\ next'[r] = next[r] /\ answers'[r] = answers[r]
    /\ failed'[r] = failed[r] /\ stored'[r] = stored[r] /\ late'[r] = late[r]

\* A request that is left alone stays good.
LEMMA SameGood ==
    ASSUME NEW r, Good(r), driver' = driver, Same(r)
    PROVE  Good(r)'
<1> USE DEF Same
<1>1. Asked(r)'
  BY DEF Good, Asked
<1>2. Progress(r)'
  BY DEF Good, Progress, Length
<1>3. Transaction(r)'
  BY DEF Good, Transaction, Connected, Mode, ChMode, PgMode, SqliteMode, DuckMode
<1>4. Written(r)'
  <2>1. \A n : Unit(r, n)' = Unit(r, n) /\ Effects(r, n)' = Effects(r, n)
    BY UnitOfJob
  <2> QED BY <2>1 DEF Good, Written, Length
<1>5. Told(r)'
  BY DEF Good, Told
<1> QED BY <1>1, <1>2, <1>3, <1>4, <1>5 DEF Good

\* A step of r alone.
LEMMA StepOf ==
    ASSUME IInv, NEW r \in Reqs, TypeOK', driver' = driver,
           \A o \in Reqs \ {r} : Same(o), Good(r)'
    PROVE  IInv'
<1>1. ASSUME NEW o \in Reqs \ {r}
      PROVE  Good(o)'
  BY <1>1, SameGood DEF IInv
<1> QED BY <1>1 DEF IInv

\* A request that goes on without running anything keeps what was asked for and told.
LEMMA KeptGood ==
    ASSUME NEW r, Good(r), driver' = driver, job'[r] = job[r], answers'[r] = answers[r],
           pc[r] # "idle", pc'[r] # "idle"
    PROVE  Asked(r)' /\ Told(r)' /\ \A n : Unit(r, n)' = Unit(r, n) /\ Effects(r, n)' = Effects(r, n)
<1>1. Asked(r)'
  BY DEF Good, Asked
<1>2. Told(r)'
  BY DEF Good, Told
<1> QED BY <1>1, <1>2, UnitOfJob

-----------------------------------------------------------------------------
(* Every step keeps the invariant.                                          *)

LEMMA ArriveStep == ASSUME IInv, NEW r \in Reqs, Arrive(r) PROVE IInv'
<1> USE DEF env, session, outcome
<1>1. PICK op \in Ops, stmts \in Scripts :
         /\ op \in {"page", "csv", "sql", "describe", "list"} =>
               Len(stmts) = 1 /\ stmts[1] \notin {"begin", "commit"}
         /\ op \in {"list", "dashboard"} => \A n \in DOMAIN stmts : stmts[n] \in {"read", "bad"}
         /\ job' = [job EXCEPT ![r] = [op |-> op, stmts |-> stmts]]
  BY Zenon DEF Arrive
<1>2. stmts \in Seq(Kinds) /\ stmts # <<>> /\ Len(stmts) \in Nat /\ DOMAIN stmts = 1..Len(stmts)
  BY DriversAssumption
<1>3. job'[r] = [op |-> op, stmts |-> stmts] /\ pc'[r] = "open" /\ pc[r] = "idle"
  BY <1>1 DEF Arrive, IInv, TypeOK
<1>4. \A o \in Reqs \ {r} : Same(o)
  BY <1>1 DEF Arrive, IInv, TypeOK, Same
<1>5. TypeOK'
  <2>1. job' \in [Reqs -> [op: Ops \cup {"none"}, stmts: Seq(Kinds)]]
    BY <1>1, <1>2 DEF IInv, TypeOK
  <2> QED BY <2>1 DEF Arrive, IInv, TypeOK
<1>6. Good(r)
  BY DEF IInv
<1>7. job[r] = NoJob /\ Length(r) = 0 /\ next[r] = 1 /\ answers[r] = <<>> /\ ~failed[r]
  <2>1. job[r] = NoJob
    BY <1>3, <1>6 DEF Good, Asked
  <2>2. Length(r) = 0
    BY <2>1 DEF Length, NoJob
  <2>3. answers[r] \in Seq([size: Nat, shown: Nat, truncated: BOOLEAN]) /\ next[r] = Len(answers[r]) + 1 /\ next[r] <= 1
    BY <1>6, <2>2 DEF Good, Progress, IInv, TypeOK
  <2>4. answers[r] = <<>> /\ next[r] = 1
    BY <2>3
  <2> QED BY <1>3, <1>6, <2>1, <2>2, <2>4 DEF Good, Progress
<1>8. Asked(r)'
  <2>1. op # "none"
    BY DEF Ops
  <2>2. ASSUME op \in {"list", "dashboard"} \/ op # "script", NEW n \in DOMAIN stmts
        PROVE  stmts[n] \notin {"begin", "commit"}
    BY <1>1, <1>2, <2>2 DEF Ops
  <2> QED BY <1>1, <1>2, <1>3, <2>1, <2>2 DEF Asked
<1>9. Progress(r)'
  BY <1>2, <1>3, <1>7 DEF Progress, Length, Arrive
<1>10. Transaction(r)'
  BY <1>3, <1>6 DEF Good, Transaction, Arrive
<1>11. Written(r)'
  <2>1. Effects(r, 0)' = {} /\ Effects(r, 0) = {}
    BY EffectsFirst DEF Effects
  <2>2. stored[r] = {} /\ late[r] = {}
    BY <1>3, <1>6, <1>7, <2>1 DEF Good, Written
  <2> QED BY <1>3, <1>7, <2>1, <2>2 DEF Written, Arrive
<1>12. Told(r)'
  BY <1>7 DEF Told, Arrive
<1>13. Good(r)'
  BY <1>8, <1>9, <1>10, <1>11, <1>12 DEF Good
<1>14. driver' = driver
  BY DEF Arrive
<1> QED BY <1>4, <1>5, <1>13, <1>14, StepOf

LEMMA OpenStep == ASSUME IInv, NEW r \in Reqs, Open(r) PROVE IInv'
<1> USE DEF env, session, outcome
<1>1. /\ pc[r] = "open" /\ pc'[r] = "sent" /\ con'[r] = Mode(job[r].op)
      /\ UNCHANGED <<driver, job, txn, pending, next, answers, failed, stored, late>>
  BY DEF Open, IInv, TypeOK
<1>2. \A o \in Reqs \ {r} : Same(o)
  BY DEF Open, IInv, TypeOK, Same
<1>3. Good(r) /\ job[r].op \in Ops
  BY <1>1 DEF IInv, Good, Asked, TypeOK
<1>4. Mode(job[r].op) \in {"ro", "rw"} /\ Mode(job[r].op)' = Mode(job[r].op)
  <2>1. driver \in {"clickhouse", "postgres", "sqlite", "duckdb", "folder", "memory"}
    BY DriversAssumption DEF IInv, TypeOK
  <2> QED BY <1>1, <2>1 DEF Mode, ChMode, PgMode, SqliteMode, DuckMode, Duck
<1>5. TypeOK'
  BY <1>1, <1>4 DEF Open, IInv, TypeOK
<1>6. Asked(r)' /\ Told(r)' /\ \A n : Unit(r, n)' = Unit(r, n) /\ Effects(r, n)' = Effects(r, n)
  BY <1>1, <1>3, KeptGood
<1>7. Progress(r)'
  BY <1>1, <1>3 DEF Good, Progress, Length
<1>8. Transaction(r)'
  <2> DEFINE s == job[r].stmts
             n == next[r] - 1
  <2>1. s \in Seq(Kinds) /\ n \in 0..Len(s) /\ next[r] = n + 1
    BY <1>1, <1>3 DEF IInv, TypeOK, Good, Progress, Length
  <2>2. \A i \in 1..n : s[i] # "begin"
    BY <1>1, <1>3, <2>1 DEF Good, Asked, Progress
  <2>3. ~InTxn(s, n + 1) /\ Uncommitted(s, n + 1) = {}
    BY <2>1, <2>2, NoTxn
  <2>4. ~txn[r] /\ pending[r] = {}
    BY <1>1, <1>3 DEF Good, Transaction
  <2>5. Connected(r, next[r] - 1)'
    BY <1>1, <1>4, <2>3, <2>4 DEF Connected
  <2> QED BY <1>1, <2>5 DEF Transaction
<1>9. Written(r)'
  BY <1>1, <1>3, <1>6 DEF Good, Written, Length
<1>10. Good(r)'
  BY <1>6, <1>7, <1>8, <1>9 DEF Good
<1> QED BY <1>1, <1>2, <1>5, <1>10, StepOf

\* The methods of a driver, and what their connections let through.
LEMMA Forms ==
    ASSUME driver \in {"clickhouse", "postgres", "sqlite", "duckdb", "folder", "memory"}
    PROVE  /\ Form("script") = "plain" /\ Mode("script") = "rw" /\ Form("list") = "plain"
           /\ \A op \in {"page", "csv", "describe", "dashboard"} : Form(op) # "plain"
           /\ Form("sql") = "parsed" \/ (Form("sql") = "plain" /\ Mode("sql") = "ro")
BY DEF Form, ChForm, PgForm, SqliteForm, DuckForm, Mode, ChMode, PgMode, SqliteMode, DuckMode, Duck

\* What a statement that gets through does is what the script says of it.
LEMMA RunEffect ==
    ASSUME TypeOK, NEW r \in Reqs, Good(r), pc[r] = "sent", Takes(r, Stmt(r))
    PROVE  Effect(r) = Unit(r, next[r])
<1> DEFINE s == job[r].stmts
           n == next[r]
           op == job[r].op
           lasting == driver \notin {"memory", "folder"}
<1>1. /\ s \in Seq(Kinds) /\ n \in 1..Len(s) /\ s[n] = Stmt(r)
      /\ op \in Ops
  BY DEF TypeOK, Good, Asked, Progress, Length, Stmt
<1>2. s[n] \in Kinds
  BY <1>1
<1>3. driver \in {"clickhouse", "postgres", "sqlite", "duckdb", "folder", "memory"}
  BY DriversAssumption DEF TypeOK
<1>4. con[r] = Mode(op) /\ (txn[r] <=> InTxn(s, n)) /\ pending[r] = Uncommitted(s, n)
  BY <1>1 DEF Good, Transaction, Connected
<1>5. CASE op # "script"
  <2>1. Unit(r, n) = {}
    BY <1>1, <1>5, OnlyScripts
  <2>2. CASE op \in {"page", "csv", "describe", "dashboard"}
    BY <1>3, <2>1, <2>2, Forms DEF Effect
  <2>3. CASE op = "sql"
    <3>1. Form(op) = "plain" => s[n] \in {"read", "begin", "commit"}
      BY <1>1, <1>3, <1>4, <2>3, Forms DEF Takes
    <3>2. s[n] \notin {"begin", "commit"}
      BY <1>1, <1>5 DEF Good, Asked
    <3> QED BY <1>1, <2>1, <3>1, <3>2 DEF Effect
  <2>4. CASE op = "list"
    <3>1. s[n] \in {"read", "bad"}
      BY <1>1, <2>4 DEF Good, Asked
    <3> QED BY <1>1, <2>1, <3>1 DEF Effect
  <2> QED BY <1>1, <1>5, <2>2, <2>3, <2>4 DEF Ops
<1>6. CASE op = "script"
  <2>1. Form(op) = "plain"
    BY <1>3, <1>6, Forms
  <2>2. Valid(s[n], txn[r])
    BY <1>1 DEF Takes
  <2>3. Uncommitted(s, n) \subseteq 1..n
    BY <1>1 DEF Uncommitted
  <2>4. CASE s[n] = "copy"
    <3>1. driver # "memory"
      BY <2>2, <2>4 DEF Valid
    <3>2. Unit(r, n) = {n}
      BY <1>1, <1>6, <2>4, <3>1 DEF Unit
    <3> QED BY <1>1, <2>1, <2>4, <3>2 DEF Effect
  <2>5. CASE s[n] = "write"
    <3>1. Unit(r, n) = IF lasting /\ ~InTxn(s, n) THEN {n} ELSE {}
      BY <1>1, <1>6, <2>5 DEF Unit
    <3> QED BY <1>1, <1>4, <2>1, <2>5, <3>1 DEF Effect
  <2>6. CASE s[n] = "commit"
    <3>1. Unit(r, n) = IF lasting THEN Uncommitted(s, n) ELSE {}
      BY <1>1, <1>6, <2>3, <2>6 DEF Unit
    <3> QED BY <1>1, <1>4, <2>1, <2>6, <3>1 DEF Effect
  <2>7. CASE s[n] \notin {"copy", "write", "commit"}
    <3>1. Unit(r, n) = {}
      BY <2>7 DEF Unit
    <3> QED BY <1>1, <2>1, <2>7, <3>1 DEF Effect
  <2> QED BY <2>4, <2>5, <2>6, <2>7
<1> QED BY <1>5, <1>6

LEMMA RunStep == ASSUME IInv, NEW r \in Reqs, Run(r) PROVE IInv'
<1> USE DEF env, session, outcome
<1> DEFINE s == job[r].stmts
           n == next[r]
           k == Stmt(r)
<1>1. /\ pc[r] = "sent" /\ pc'[r] = "ran"
      /\ UNCHANGED <<driver, job, con, next, answers, failed, late>>
      /\ stored'[r] = stored[r] \cup Effect(r)
      /\ pending'[r] = IF k = "write" /\ txn[r] THEN pending[r] \cup {n}
                       ELSE IF k = "commit" THEN {} ELSE pending[r]
      /\ txn'[r] = IF k \in {"begin", "commit"} THEN k = "begin" ELSE txn[r]
  BY DEF Run, IInv, TypeOK
<1>2. \A o \in Reqs \ {r} : Same(o)
  BY DEF Run, IInv, TypeOK, Same
<1>3. Good(r) /\ TypeOK
  BY DEF IInv
<1>4. s \in Seq(Kinds) /\ n \in 1..Len(s) /\ k = s[n] /\ answers[r] \in Seq([size: Nat, shown: Nat, truncated: BOOLEAN])
  BY <1>1, <1>3 DEF TypeOK, Good, Progress, Length, Stmt
<1>5. Effect(r) = Unit(r, n)
  BY <1>1, <1>3, RunEffect DEF Run
<1>6. txn[r] \in BOOLEAN /\ (txn[r] <=> InTxn(s, n)) /\ pending[r] = Uncommitted(s, n)
  BY <1>1, <1>3, <1>4 DEF Good, Transaction, Connected, TypeOK
<1>7. TypeOK'
  <2>1. Effect(r) \subseteq Nat
    BY <1>4, <1>5 DEF Unit
  <2>2. /\ stored' \in [Reqs -> SUBSET Nat]
        /\ pending' \in [Reqs -> SUBSET Nat]
    BY <1>3, <2>1 DEF Run, TypeOK
  <2>3. txn' \in [Reqs -> BOOLEAN]
    BY <1>3 DEF Run, TypeOK
  <2> QED BY <1>3, <2>2, <2>3 DEF Run, TypeOK
<1>8. Asked(r)' /\ Told(r)' /\ \A i : Unit(r, i)' = Unit(r, i) /\ Effects(r, i)' = Effects(r, i)
  BY <1>1, <1>3, KeptGood
<1>9. Progress(r)'
  BY <1>1, <1>3 DEF Good, Progress, Length
<1>10. Transaction(r)'
  <2>1. txn'[r] <=> InTxn(s, n + 1)
    BY <1>1, <1>4, <1>6, TxnStep
  <2>2. pending'[r] = Uncommitted(s, n + 1)
    BY <1>1, <1>4, <1>6, UncommittedStep
  <2>3. con[r] = Mode(job[r].op)
    BY <1>1, <1>3 DEF Good, Transaction, Connected
  <2>4. Mode(job[r].op)' = Mode(job[r].op)
    BY <1>1 DEF Mode, ChMode, PgMode, SqliteMode, DuckMode
  <2>5. Connected(r, n)'
    BY <1>1, <2>1, <2>2, <2>3, <2>4 DEF Connected
  <2> QED BY <1>1, <2>5 DEF Transaction
<1>11. Written(r)'
  <2>1. stored[r] = Effects(r, n - 1) /\ late[r] = {}
    BY <1>1, <1>3 DEF Good, Written
  <2>2. Effects(r, n) = Effects(r, n - 1) \cup Unit(r, n)
    <3>1. n - 1 \in Nat /\ (n - 1) + 1 = n
      BY <1>4
    <3> QED BY <3>1, EffectsStep
  <2>3. stored'[r] = Effects(r, n)
    BY <1>1, <1>5, <2>1, <2>2
  <2>4. job[r].op # "script" => stored'[r] = {}
    BY <1>4, <2>3, OnlyScripts
  <2> QED BY <1>1, <1>8, <2>1, <2>3, <2>4 DEF Written
<1>12. Good(r)'
  BY <1>8, <1>9, <1>10, <1>11 DEF Good
<1> QED BY <1>1, <1>2, <1>7, <1>12, StepOf

\* A request gives up: it fails, with a statement that a server may still do, or none.
LEMMA EndStep ==
    ASSUME IInv, NEW r \in Reqs, NEW l \in SUBSET Nat, NEW to \in {"left", "close"},
           pc[r] \in {"open", "sent", "ran"},
           pc[r] = "ran" => driver \notin Embedded \/ job[r].op # "script",
           l # {} => driver \notin Embedded /\ pc[r] = "sent" /\ l = Unit(r, next[r]),
           to = "left" => job[r].op = "sql",
           failed' = [failed EXCEPT ![r] = TRUE],
           pc' = [pc EXCEPT ![r] = to],
           late' = [late EXCEPT ![r] = l],
           UNCHANGED <<driver, job, crashes, con, txn, pending, next, answers, stored>>
    PROVE  IInv'
<1>1. pc'[r] = to /\ failed'[r] = TRUE /\ late'[r] = l
  BY DEF IInv, TypeOK
<1>2. \A o \in Reqs \ {r} : Same(o)
  BY DEF IInv, TypeOK, Same
<1>3. Good(r) /\ TypeOK
  BY DEF IInv
<1>4. TypeOK'
  BY <1>3 DEF TypeOK
<1>5. Asked(r)' /\ Told(r)' /\ \A i : Unit(r, i)' = Unit(r, i) /\ Effects(r, i)' = Effects(r, i)
  BY <1>1, <1>3, KeptGood
<1>6. Progress(r)'
  BY <1>1, <1>3 DEF Good, Progress, Length
<1>7. Transaction(r)'
  BY <1>1 DEF Transaction
<1>8. Written(r)'
  <2>1. next[r] \in Nat /\ next[r] >= 1 /\ next[r] <= Length(r)
    BY <1>3 DEF TypeOK, Good, Progress
  <2>2. job[r].op # "script" => Unit(r, next[r]) = {} /\ Effects(r, next[r] - 1) = {} /\ stored[r] = {}
    BY <1>3, <2>1, OnlyScripts DEF Good, Written
  <2>3. driver \in Embedded => stored[r] = Effects(r, next[r] - 1)
    BY <1>3, <2>2 DEF Good, Written
  <2> QED BY <1>1, <1>5, <2>1, <2>2, <2>3 DEF Written, Length
<1>9. Good(r)'
  BY <1>5, <1>6, <1>7, <1>8 DEF Good
<1> QED BY <1>2, <1>4, <1>9, StepOf

LEMMA OpenFailsStep == ASSUME IInv, NEW r \in Reqs, OpenFails(r) PROVE IInv'
<1>1. late[r] = {} /\ late' = [late EXCEPT ![r] = {}]
  BY DEF IInv, TypeOK, Good, Written, OpenFails
<1> QED BY <1>1, EndStep DEF OpenFails, env, session

LEMMA FailsStep == ASSUME IInv, NEW r \in Reqs, Fails(r) PROVE IInv'
<1>1. late[r] = {} /\ late' = [late EXCEPT ![r] = {}]
  BY DEF IInv, TypeOK, Good, Written, Fails
<1> QED BY <1>1, EndStep DEF Fails, env, session

LEMMA GiveUpStep == ASSUME IInv, NEW r \in Reqs, GiveUp(r) PROVE IInv'
<1> DEFINE l == IF pc[r] = "sent" /\ driver \notin Embedded /\ Takes(r, Stmt(r)) THEN Effect(r) ELSE {}
<1>1. Good(r) /\ TypeOK
  BY DEF IInv
<1>2. l # {} => driver \notin Embedded /\ pc[r] = "sent" /\ l = Unit(r, next[r])
  BY <1>1, RunEffect
<1>3. l \in SUBSET Nat
  BY <1>2 DEF Unit
<1>4. late' = [late EXCEPT ![r] = l]
  BY <1>1 DEF GiveUp, TypeOK, Good, Written
<1> QED BY <1>2, <1>3, <1>4, EndStep DEF GiveUp, env, session

LEMMA BackstopStep == ASSUME IInv, NEW r \in Reqs, Backstop(r) PROVE IInv'
<1>1. late[r] = {} /\ late' = [late EXCEPT ![r] = {}]
  BY DEF IInv, TypeOK, Good, Written, Backstop
<1> QED BY <1>1, EndStep DEF Backstop, env, session

LEMMA AnswerOf ==
    ASSUME NEW a, NEW x \in Nat, NEW y \in Nat, NEW b \in BOOLEAN,
           a = [size |-> x, shown |-> y, truncated |-> b]
    PROVE  /\ a \in [size: Nat, shown: Nat, truncated: BOOLEAN]
           /\ a.size = x /\ a.shown = y /\ a.truncated = b
<1>1. a.size = x /\ a.shown = y /\ a.truncated = b
  OBVIOUS
<1>2. a \in [size: Nat, shown: Nat, truncated: BOOLEAN]
  OBVIOUS
<1> QED BY <1>1, <1>2

\* What a result shows, and whether it says that there is more.
LEMMA ResultTold ==
    ASSUME NEW r, job[r].op \in Ops, NEW size \in Nat, NEW n \in Fetched(job[r].op, size),
           NEW a, a = Result(r, size, n)
    PROVE  a \in [size: Nat, shown: Nat, truncated: BOOLEAN] /\ Tells(job[r].op, a)
<1> DEFINE op == job[r].op
<1>1. Cap \in Nat /\ Cap > 0
  BY DriversAssumption
<1>2. Min({size, Cap}) = IF size <= Cap THEN size ELSE Cap
  BY <1>1, MinOfTwo
<1>3. CASE op \in {"page", "csv", "dashboard"}
  <2>1. n = Min({size, Cap}) /\ n \in Nat
    BY <1>1, <1>2, <1>3 DEF Fetched
  <2>2. a = [size |-> size, shown |-> n, truncated |-> FALSE]
    BY <1>3 DEF Result
  <2>3. a \in [size: Nat, shown: Nat, truncated: BOOLEAN] /\ a.size = size /\ a.shown = n
    BY <2>1, <2>2, AnswerOf
  <2> QED BY <1>3, <2>1, <2>3 DEF Tells
<1>4. CASE op \in {"script", "sql"}
  <2>1. Min({size, Cap + 1}) = IF size <= Cap + 1 THEN size ELSE Cap + 1
    BY <1>1, MinOfTwo
  <2>2. /\ n \in Nat /\ n <= size
        /\ n = size \/ n >= Cap + 1
    BY <1>1, <1>4, <2>1 DEF Fetched
  <2>3. Min({n, Cap}) = IF n <= Cap THEN n ELSE Cap
    BY <1>1, <2>2, MinOfTwo
  <2>4. a = [size |-> size, shown |-> Min({n, Cap}), truncated |-> n > Cap]
    BY <1>4 DEF Result, Cut
  <2>5. Min({n, Cap}) = Min({size, Cap}) /\ Min({n, Cap}) \in Nat /\ (n > Cap <=> size > Cap)
    BY <1>1, <1>2, <2>2, <2>3
  <2> DEFINE m == Min({n, Cap})
             more == n > Cap
  <2>6. m \in Nat /\ more \in BOOLEAN /\ a = [size |-> size, shown |-> m, truncated |-> more]
    BY <2>4, <2>5
  <2> HIDE DEF m, more
  <2>7. a \in [size: Nat, shown: Nat, truncated: BOOLEAN] /\ a.size = size /\ a.shown = m /\ a.truncated = more
    BY <2>6, AnswerOf
  <2> QED BY <2>5, <2>7 DEF Tells, m, more
<1>5. CASE op \in {"describe", "list"}
  <2>1. n = 0
    BY <1>5 DEF Fetched
  <2>2. a = [size |-> 0, shown |-> 0, truncated |-> FALSE]
    BY <1>5, <2>1 DEF Result
  <2>3. Min({0, Cap}) = 0
    BY <1>1, MinOfTwo
  <2>4. a \in [size: Nat, shown: Nat, truncated: BOOLEAN] /\ a.size = 0 /\ a.shown = 0
    BY <2>2
  <2> QED BY <1>5, <2>3, <2>4 DEF Tells
<1> QED BY <1>3, <1>4, <1>5 DEF Ops

LEMMA AnswerStep == ASSUME IInv, NEW r \in Reqs, Answer(r) PROVE IInv'
<1> USE DEF env, session
<1> DEFINE k == next[r]
           to == IF k < Length(r) /\ job[r].op = "script" THEN "sent" ELSE "close"
<1>1. Good(r) /\ TypeOK /\ pc[r] = "ran" /\ job[r].op \in Ops
  BY DEF IInv, Good, Asked, Answer, TypeOK
<1>2. PICK size \in (IF Stmt(r) = "read" THEN Cap..Cap + 2 ELSE {0}) : \E n \in Fetched(job[r].op, size) :
         answers' = [answers EXCEPT ![r] = Append(@, Result(r, size, n))]
  BY Zenon DEF Answer
<1>3. PICK n \in Fetched(job[r].op, size) : answers' = [answers EXCEPT ![r] = Append(@, Result(r, size, n))]
  BY <1>2, Zenon
<1>4. size \in Nat
  BY <1>2, DriversAssumption
<1> DEFINE a == Result(r, size, n)
<1>5. a \in [size: Nat, shown: Nat, truncated: BOOLEAN] /\ Tells(job[r].op, a)
  BY <1>1, <1>3, <1>4, ResultTold
<1> HIDE DEF a
<1>6. /\ answers'[r] = Append(answers[r], a) /\ next'[r] = k + 1 /\ pc'[r] = to
      /\ UNCHANGED <<driver, job, con, txn, pending, failed, stored, late>>
  BY <1>3 DEF Answer, TypeOK, IInv, Length, a
<1>7. \A o \in Reqs \ {r} : Same(o)
  BY <1>3 DEF Answer, IInv, TypeOK, Same
<1>8. answers[r] \in Seq([size: Nat, shown: Nat, truncated: BOOLEAN]) /\ k \in Nat /\ k = Len(answers[r]) + 1 /\ k <= Length(r)
      /\ Length(r) \in Nat
  BY <1>1 DEF TypeOK, Good, Progress, Length
<1>9. TypeOK'
  <2>1. answers' \in [Reqs -> Seq([size: Nat, shown: Nat, truncated: BOOLEAN])]
    BY <1>1, <1>3, <1>5, <1>8 DEF TypeOK, a
  <2> QED BY <1>1, <2>1 DEF Answer, TypeOK
<1>10. Asked(r)'
  BY <1>1, <1>6 DEF Good, Asked
<1>11. Progress(r)'
  <2>1. Len(answers'[r]) = k
    BY <1>6, <1>8
  <2>2. Length(r)' = Length(r) /\ ~failed[r]
    BY <1>1, <1>6 DEF Good, Progress, Length
  <2> QED BY <1>6, <1>8, <2>1, <2>2 DEF Progress
<1>12. Transaction(r)'
  <2>1. Connected(r, k)
    BY <1>1 DEF Good, Transaction
  <2>2. \A i : Connected(r, i)' <=> Connected(r, i)
    BY <1>6 DEF Connected, Mode, ChMode, PgMode, SqliteMode, DuckMode
  <2>3. pc'[r] = "sent" \/ pc'[r] = "close"
    BY <1>6
  <2>4. next'[r] - 1 = k
    BY <1>6, <1>8
  <2> HIDE DEF k, to
  <2> QED BY <2>1, <2>2, <2>3, <2>4 DEF Transaction
<1>13. Written(r)'
  <2>1. \A i : Unit(r, i)' = Unit(r, i) /\ Effects(r, i)' = Effects(r, i)
    BY <1>6, UnitOfJob
  <2>2. next'[r] - 1 = k
    BY <1>6, <1>8
  <2> QED BY <1>1, <1>6, <2>1, <2>2 DEF Good, Written
<1>14. Told(r)'
  <2> SUFFICES ASSUME NEW i \in DOMAIN answers'[r]
               PROVE  Tells(job[r].op, answers'[r][i])
    BY <1>6 DEF Told, Tells
  <2>1. CASE i \in DOMAIN answers[r]
    <3>1. answers'[r][i] = answers[r][i]
      BY <1>5, <1>6, <1>8, <2>1
    <3> QED BY <1>1, <2>1, <3>1 DEF Good, Told
  <2>2. CASE i \notin DOMAIN answers[r]
    <3>1. answers'[r][i] = a
      BY <1>5, <1>6, <1>8, <2>2
    <3> QED BY <1>5, <3>1
  <2> QED BY <2>1, <2>2
<1>15. Good(r)'
  BY <1>10, <1>11, <1>12, <1>13, <1>14 DEF Good
<1> QED BY <1>6, <1>7, <1>9, <1>15, StepOf

LEMMA LeftEndsStep == ASSUME IInv, NEW r \in Reqs, LeftEnds(r) PROVE IInv'
<1> USE DEF env, session, outcome
<1>1. Good(r) /\ TypeOK /\ pc[r] = "left" /\ pc'[r] = "close"
      /\ UNCHANGED <<driver, job, con, txn, pending, next, answers, failed, stored, late>>
  BY DEF IInv, LeftEnds, TypeOK
<1>2. \A o \in Reqs \ {r} : Same(o)
  BY DEF LeftEnds, IInv, TypeOK, Same
<1>3. TypeOK'
  BY <1>1 DEF LeftEnds, TypeOK
<1>4. Asked(r)' /\ Told(r)' /\ \A i : Unit(r, i)' = Unit(r, i) /\ Effects(r, i)' = Effects(r, i)
  BY <1>1, KeptGood
<1>5. Progress(r)' /\ Transaction(r)'
  BY <1>1 DEF Good, Progress, Transaction, Length
<1>6. Written(r)'
  BY <1>1, <1>4 DEF Good, Written, Length
<1>7. Good(r)'
  BY <1>4, <1>5, <1>6 DEF Good
<1> QED BY <1>1, <1>2, <1>3, <1>7, StepOf

LEMMA CloseStep == ASSUME IInv, NEW r \in Reqs, Close(r) PROVE IInv'
<1> USE DEF env, outcome
<1>1. /\ Good(r) /\ TypeOK /\ pc[r] = "close" /\ ~txn'[r] /\ pending'[r] = {}
      /\ pc'[r] = IF ~failed[r] /\ next[r] <= Length(r) THEN "open" ELSE "done"
      /\ UNCHANGED <<driver, job, next, answers, failed, stored, late>>
  BY DEF IInv, Close, TypeOK, Length
<1>2. \A o \in Reqs \ {r} : Same(o)
  BY DEF Close, IInv, TypeOK, Same
<1>3. TypeOK'
  BY <1>1 DEF Close, TypeOK
<1>4. Asked(r)' /\ Told(r)' /\ \A i : Unit(r, i)' = Unit(r, i) /\ Effects(r, i)' = Effects(r, i)
  BY <1>1, KeptGood
<1>5. Length(r)' = Length(r) /\ Length(r) \in Nat
  BY <1>1 DEF Length, TypeOK
<1>6. Progress(r)'
  BY <1>1, <1>5 DEF Good, Progress
<1>7. Transaction(r)'
  BY <1>1 DEF Transaction
<1>8. Written(r)'
  <2>1. job[r].op # "script" => stored[r] = {} /\ late[r] = {} /\ Effects(r, next[r] - 1) = {}
    <3>1. next[r] - 1 \in Nat
      BY <1>1 DEF Good, Progress, TypeOK
    <3> QED BY <1>1, <3>1, OnlyScripts DEF Good, Written
  <2>2. pc'[r] = "open" => job[r].op # "script"
    BY <1>1, <1>5 DEF Good, Progress
  <2> QED BY <1>1, <1>4, <1>5, <2>1, <2>2 DEF Good, Written
<1>9. Good(r)'
  BY <1>4, <1>6, <1>7, <1>8 DEF Good
<1> QED BY <1>1, <1>2, <1>3, <1>9, StepOf

\* A server ends what a request has given up: it does it, or not.
LEMMA LateStep ==
    ASSUME IInv, NEW r \in Reqs, LateLands(r) \/ LateDropped(r)
    PROVE  IInv'
<1> USE DEF env, session, outcome
<1>1. /\ Good(r) /\ TypeOK /\ late[r] # {} /\ late'[r] = {}
      /\ stored'[r] = stored[r] \/ stored'[r] = stored[r] \cup late[r]
      /\ UNCHANGED <<driver, job, pc, con, txn, pending, next, answers, failed>>
  BY DEF IInv, LateLands, LateDropped, TypeOK
<1>2. \A o \in Reqs \ {r} : Same(o)
  BY DEF LateLands, LateDropped, IInv, TypeOK, Same
<1>3. TypeOK'
  BY <1>1 DEF LateLands, LateDropped, TypeOK
<1>4. pc[r] \notin {"idle", "open", "sent", "ran"}
  BY <1>1 DEF Good, Written
<1>5. Asked(r)' /\ Told(r)' /\ \A i : Unit(r, i)' = Unit(r, i) /\ Effects(r, i)' = Effects(r, i)
  BY <1>1, <1>4, KeptGood
<1>6. Progress(r)' /\ Transaction(r)'
  BY <1>1, <1>4 DEF Good, Progress, Transaction, Length
<1>7. Written(r)'
  BY <1>1, <1>4, <1>5 DEF Good, Written
<1>8. Good(r)'
  BY <1>5, <1>6, <1>7 DEF Good
<1> QED BY <1>1, <1>2, <1>3, <1>8, StepOf

LEMMA CrashStep == ASSUME IInv, Crash PROVE IInv'
<1> USE DEF outcome
<1>0. TypeOK /\ UNCHANGED <<driver, job, next, answers, failed, stored>>
  BY DEF IInv, Crash
<1>1. ASSUME NEW r \in Reqs
      PROVE  /\ pc'[r] = IF pc[r] \notin {"idle", "done", "lost"} THEN "lost" ELSE pc[r]
             /\ con'[r] = "none" /\ txn'[r] = FALSE /\ pending'[r] = {}
             /\ late'[r] = IF pc[r] = "sent" /\ driver \notin Embedded /\ Takes(r, Stmt(r))
                           THEN Effect(r) ELSE late[r]
  BY <1>0 DEF Crash, TypeOK
<1>2. ASSUME NEW r \in Reqs
      PROVE  Good(r)' /\ late'[r] \in SUBSET Nat
  <2>1. Good(r)
    BY DEF IInv
  <2>2. late'[r] # late[r] => driver \notin Embedded /\ pc[r] = "sent" /\ late'[r] = Unit(r, next[r])
    BY <1>0, <1>1, <2>1, RunEffect
  <2>3. \A i : Unit(r, i)' = Unit(r, i) /\ Effects(r, i)' = Effects(r, i)
    BY <1>0, UnitOfJob
  <2>4. Asked(r)' /\ Told(r)' /\ Progress(r)'
    BY <1>0, <1>1, <2>1 DEF Good, Asked, Told, Tells, Progress, Length
  <2>5. Transaction(r)'
    BY <1>1 DEF Transaction
  <2>6. Written(r)'
    <3>1. pc[r] = "sent" => next[r] \in Nat /\ next[r] <= Length(r)
      BY <1>0, <2>1 DEF Good, Progress, TypeOK
    <3>2. job[r].op # "script" /\ pc[r] = "sent" => Unit(r, next[r]) = {}
      BY <3>1, OnlyScripts
    <3>3. CASE pc[r] = "idle"
      BY <1>0, <1>1, <2>1, <2>2, <2>3, <3>3 DEF Good, Written, Length
    <3>4. CASE pc[r] = "done"
      BY <1>0, <1>1, <2>1, <2>2, <2>3, <3>4 DEF Good, Written, Length
    <3>5. CASE pc[r] \notin {"idle", "done"}
      BY <1>0, <1>1, <2>1, <2>2, <2>3, <3>1, <3>2, <3>5 DEF Good, Written, Length
    <3> QED BY <3>3, <3>4, <3>5
  <2>7. late'[r] \in SUBSET Nat
    BY <1>0, <2>2 DEF TypeOK, Unit
  <2> QED BY <2>1, <2>4, <2>5, <2>6, <2>7 DEF Good
<1>3. TypeOK'
  <2>1. late' \in [Reqs -> SUBSET Nat]
    BY <1>2 DEF Crash
  <2>2. pc' \in [Reqs -> {"idle", "open", "sent", "ran", "left", "close", "done", "lost"}]
    BY <1>0 DEF Crash, TypeOK
  <2> QED BY <1>0, <2>1, <2>2 DEF Crash, TypeOK
<1> QED BY <1>2, <1>3 DEF IInv

LEMMA InitIInv == Init => IInv
<1> SUFFICES ASSUME Init PROVE IInv
  OBVIOUS
<1>1. TypeOK
  <2>1. <<>> \in Seq(Kinds) /\ <<>> \in Seq([size: Nat, shown: Nat, truncated: BOOLEAN])
    OBVIOUS
  <2>2. job \in [Reqs -> [op: Ops \cup {"none"}, stmts: Seq(Kinds)]]
    BY <2>1 DEF Init, NoJob
  <2>3. FALSE \in BOOLEAN /\ txn \in [Reqs -> BOOLEAN] /\ failed \in [Reqs -> BOOLEAN]
    BY DEF Init
  <2> QED BY <2>1, <2>2, <2>3 DEF Init, TypeOK
<1>2. ASSUME NEW r \in Reqs
      PROVE  Good(r)
  <2>1. /\ job[r] = NoJob /\ pc[r] = "idle" /\ ~txn[r] /\ pending[r] = {} /\ next[r] = 1
        /\ answers[r] = <<>> /\ ~failed[r] /\ stored[r] = {} /\ late[r] = {}
    BY DEF Init
  <2>2. Asked(r)
    BY <2>1 DEF Asked, NoJob
  <2>3. Progress(r)
    BY <2>1 DEF Progress, Length, NoJob
  <2>4. Transaction(r)
    BY <2>1 DEF Transaction
  <2>5. Written(r)
    BY <2>1, EffectsFirst DEF Written
  <2>6. Told(r)
    BY <2>1 DEF Told
  <2> QED BY <2>2, <2>3, <2>4, <2>5, <2>6 DEF Good
<1> QED BY <1>1, <1>2 DEF IInv

LEMMA NextIInv == IInv /\ [Next]_vars => IInv'
<1> SUFFICES ASSUME IInv, [Next]_vars PROVE IInv'
  OBVIOUS
<1>1. CASE UNCHANGED vars
  <2>1. TypeOK' /\ driver' = driver /\ \A r \in Reqs : Same(r)
    BY <1>1 DEF IInv, vars, TypeOK, Same
  <2> QED BY <2>1, SameGood DEF IInv
<1>2. ASSUME NEW r \in Reqs,
             \/ Arrive(r) \/ Open(r) \/ OpenFails(r) \/ Run(r) \/ Fails(r) \/ GiveUp(r) \/ Answer(r)
             \/ Backstop(r) \/ LeftEnds(r) \/ Close(r) \/ LateLands(r) \/ LateDropped(r)
      PROVE  IInv'
  BY <1>2, ArriveStep, OpenStep, OpenFailsStep, RunStep, FailsStep, GiveUpStep, AnswerStep,
     BackstopStep, LeftEndsStep, CloseStep, LateStep
<1>3. CASE Crash
  BY <1>3, CrashStep
<1> QED BY <1>1, <1>2, <1>3 DEF Next

\* In every reachable state each request is good.
THEOREM Inductive == Spec => []IInv
BY InitIInv, NextIInv, PTL DEF Spec

-----------------------------------------------------------------------------
(* What holds of every run.                                                 *)

\* A failure reported by SQLite or DuckDB leaves nothing behind, and only scripts write.
THEOREM Writes == Spec => []WritesOK
<1>1. IInv => WritesOK
  <2> SUFFICES ASSUME IInv PROVE WritesOK
    OBVIOUS
  <2>1. ASSUME driver \in Embedded, NEW r \in Reqs, pc[r] = "done"
        PROVE  stored[r] = UNION {Unit(r, n) : n \in DOMAIN answers[r]}
    <3>1. DOMAIN answers[r] = 1..next[r] - 1
      BY DEF IInv, TypeOK, Good, Progress
    <3>2. stored[r] = Effects(r, next[r] - 1)
      BY <2>1 DEF IInv, Good, Written
    <3> QED BY <3>1, <3>2 DEF Effects
  <2>2. ReadPathsWriteNothing
    BY DEF ReadPathsWriteNothing, IInv, Good, Written
  <2> QED BY <2>1, <2>2 DEF WritesOK, EmbeddedFailureIsClean, IInv
<1> QED BY <1>1, Inductive, PTL

\* A result that is cut says so, and one that is whole does not.
THEOREM Truncation == Spec => []TruncationTold
<1>1. IInv => TruncationTold
  BY DEF IInv, Good, Told, Tells, TruncationTold
<1> QED BY <1>1, Inductive, PTL

-----------------------------------------------------------------------------
(* The refinement: what ScriptPromise's variables are here, and its steps.  *)

planBar == [r \in Reqs |-> [n \in 1..Len(job[r].stmts) |-> Unit(r, n)]]
saidBar == [r \in Reqs |-> Len(answers[r])]
overBar == [r \in Reqs |-> failed[r] \/ pc[r] \in {"done", "lost"}]

LEMMA PromiseStep ==
    ASSUME \/ /\ UNCHANGED <<planBar, saidBar, overBar, stored>>
           \/ \E r \in Reqs :
                 /\ planBar[r] = <<>>
                 /\ planBar' = [planBar EXCEPT ![r] = planBar'[r]]
                 /\ UNCHANGED <<saidBar, overBar, stored>>
           \/ \E r \in Reqs :
                 /\ saidBar[r] < Len(planBar[r])
                 /\ stored' = [stored EXCEPT ![r] = @ \cup planBar[r][saidBar[r] + 1]]
                 /\ UNCHANGED <<planBar, saidBar, overBar>>
           \/ \E r \in Reqs :
                 /\ ~overBar[r]
                 /\ saidBar[r] < Len(planBar[r])
                 /\ planBar[r][saidBar[r] + 1] \subseteq stored[r]
                 /\ saidBar' = [saidBar EXCEPT ![r] = @ + 1]
                 /\ UNCHANGED <<planBar, overBar, stored>>
           \/ \E R \in SUBSET Reqs :
                 /\ overBar' = [r \in Reqs |-> overBar[r] \/ r \in R]
                 /\ UNCHANGED <<planBar, saidBar, stored>>
    PROVE  [Promise!Next]_(Promise!vars)
BY DEF planBar, saidBar, overBar, Promise!Next, Promise!vars, Promise!Begin, Promise!Effect,
       Promise!Say, Promise!End

\* The plan of a request is as long as its script.
LEMMA PlanIs ==
    ASSUME TypeOK, NEW r \in Reqs
    PROVE  Len(planBar[r]) = Length(r) /\ \A n \in 1..Length(r) : planBar[r][n] = Unit(r, n)
<1>1. Length(r) \in Nat
  BY DEF TypeOK, Length
<1>2. planBar[r] = [n \in 1..Length(r) |-> Unit(r, n)]
  BY DEF planBar, Length
<1> QED BY <1>1, <1>2

\* The plans stay when no request comes in.
LEMMA PlansStay ==
    ASSUME UNCHANGED <<driver, job>>
    PROVE  planBar' = planBar
BY UnitOfJob DEF planBar

\* Nothing is reported as done, and the same requests are over.
LEMMA BarsStay ==
    ASSUME IInv
    PROVE  /\ answers' = answers => saidBar' = saidBar
           /\ (\A r \in Reqs : (failed'[r] \/ pc'[r] \in {"done", "lost"}) = (failed[r] \/ pc[r] \in {"done", "lost"}))
                 => overBar' = overBar
BY DEF saidBar, overBar

LEMMA ArriveMaps == ASSUME IInv, NEW r \in Reqs, Arrive(r) PROVE [Promise!Next]_(Promise!vars)
<1> USE DEF env, session, outcome
<1>1. /\ Good(r) /\ TypeOK /\ pc[r] = "idle" /\ pc' = [pc EXCEPT ![r] = "open"]
      /\ UNCHANGED <<driver, stored, answers, failed>>
      /\ \A o \in Reqs \ {r} : job'[o] = job[o]
  BY DEF IInv, Arrive, TypeOK
<1>2. planBar[r] = <<>>
  <2>1. Len(job[r].stmts) = 0
    BY <1>1 DEF Good, Asked, NoJob
  <2>2. planBar[r] = [n \in 1..0 |-> Unit(r, n)]
    BY <2>1 DEF planBar
  <2> QED BY <2>2
<1>3. planBar' = [planBar EXCEPT ![r] = planBar'[r]]
  <2>1. ASSUME NEW o \in Reqs \ {r}
        PROVE  planBar'[o] = planBar[o]
    <3>1. job'[o] = job[o] /\ \A n : Unit(o, n)' = Unit(o, n)
      BY <1>1, UnitOfJob
    <3>2. planBar'[o] = [n \in 1..Len(job'[o].stmts) |-> Unit(o, n)']
      BY DEF planBar
    <3>3. planBar[o] = [n \in 1..Len(job[o].stmts) |-> Unit(o, n)]
      BY DEF planBar
    <3> QED BY <3>1, <3>2, <3>3
  <2>2. planBar = [o \in Reqs |-> planBar[o]] /\ planBar' = [o \in Reqs |-> planBar'[o]]
    BY DEF planBar
  <2> QED BY <2>1, <2>2
<1>4. overBar' = overBar
  <2>1. \A o \in Reqs : pc'[o] \in {"done", "lost"} <=> pc[o] \in {"done", "lost"}
    BY <1>1 DEF TypeOK
  <2> QED BY <1>1, <2>1, BarsStay
<1>5. saidBar' = saidBar /\ stored' = stored
  BY <1>1, BarsStay
<1> QED BY <1>2, <1>3, <1>4, <1>5, PromiseStep

LEMMA RunMaps == ASSUME IInv, NEW r \in Reqs, Run(r) PROVE [Promise!Next]_(Promise!vars)
<1> USE DEF env, session, outcome
<1>1. /\ Good(r) /\ TypeOK /\ pc[r] = "sent" /\ pc' = [pc EXCEPT ![r] = "ran"]
      /\ UNCHANGED <<driver, job, next, answers, failed>>
      /\ stored' = [stored EXCEPT ![r] = @ \cup Effect(r)]
  BY DEF IInv, Run
<1>2. next[r] \in 1..Length(r) /\ next[r] = saidBar[r] + 1 /\ saidBar[r] < Length(r)
  BY <1>1 DEF Good, Progress, TypeOK, saidBar, Length
<1>3. Effect(r) = Unit(r, next[r])
  BY <1>1, RunEffect DEF Run
<1>4. saidBar[r] < Len(planBar[r]) /\ planBar[r][saidBar[r] + 1] = Effect(r)
  BY <1>1, <1>2, <1>3, PlanIs
<1>5. planBar' = planBar /\ saidBar' = saidBar
  BY <1>1, PlansStay, BarsStay
<1>6. overBar' = overBar
  <2>1. \A o \in Reqs : pc'[o] \in {"done", "lost"} <=> pc[o] \in {"done", "lost"}
    BY <1>1 DEF TypeOK
  <2> QED BY <1>1, <2>1, BarsStay
<1> QED BY <1>1, <1>4, <1>5, <1>6, PromiseStep

LEMMA AnswerMaps == ASSUME IInv, NEW r \in Reqs, Answer(r) PROVE [Promise!Next]_(Promise!vars)
<1> USE DEF env, session
<1>1. /\ Good(r) /\ TypeOK /\ pc[r] = "ran" /\ pc'[r] \in {"sent", "close"}
      /\ \A o \in Reqs \ {r} : pc'[o] = pc[o]
      /\ UNCHANGED <<driver, job, failed, stored>>
  BY DEF IInv, Answer, TypeOK
<1>2. PICK a : answers' = [answers EXCEPT ![r] = Append(@, a)]
  BY Zenon DEF Answer
<1>3. next[r] \in 1..Length(r) /\ next[r] = saidBar[r] + 1 /\ saidBar[r] < Length(r)
  BY <1>1 DEF Good, Progress, TypeOK, saidBar, Length
<1>4. saidBar[r] < Len(planBar[r]) /\ planBar[r][saidBar[r] + 1] = Unit(r, next[r])
  BY <1>1, <1>3, PlanIs
<1>5. Unit(r, next[r]) \subseteq stored[r]
  BY <1>1, <1>3 DEF Good, Written, Effects
<1>6. saidBar' = [saidBar EXCEPT ![r] = @ + 1]
  <2>1. answers[r] \in Seq([size: Nat, shown: Nat, truncated: BOOLEAN])
    BY <1>1 DEF TypeOK
  <2>2. Len(answers'[r]) = Len(answers[r]) + 1
    BY <1>1, <1>2, <2>1 DEF TypeOK
  <2>3. \A o \in Reqs \ {r} : answers'[o] = answers[o]
    BY <1>1, <1>2 DEF TypeOK
  <2> QED BY <2>2, <2>3 DEF saidBar
<1>7. ~overBar[r]
  BY <1>1 DEF overBar, Good, Progress
<1>8. overBar' = overBar
  <2>1. \A o \in Reqs : pc'[o] \in {"done", "lost"} <=> pc[o] \in {"done", "lost"}
    BY <1>1
  <2> QED BY <1>1, <2>1, BarsStay
<1>9. planBar' = planBar
  BY <1>1, PlansStay
<1> QED BY <1>1, <1>4, <1>5, <1>6, <1>7, <1>8, <1>9, PromiseStep

\* A step that reports nothing and writes nothing can only end requests.
LEMMA EndMaps ==
    ASSUME IInv, UNCHANGED <<driver, job, answers, stored>>,
           \A r \in Reqs : failed[r] \/ pc[r] \in {"done", "lost"} => failed'[r] \/ pc'[r] \in {"done", "lost"}
    PROVE  [Promise!Next]_(Promise!vars)
<1> DEFINE R == {r \in Reqs : failed'[r] \/ pc'[r] \in {"done", "lost"}}
<1>1. planBar' = planBar /\ saidBar' = saidBar
  BY PlansStay, BarsStay
<1>2. overBar' = [r \in Reqs |-> overBar[r] \/ r \in R]
  <2>1. ASSUME NEW r \in Reqs
        PROVE  (failed'[r] \/ pc'[r] \in {"done", "lost"}) = (overBar[r] \/ r \in R)
    BY DEF overBar
  <2> QED BY <2>1 DEF overBar
<1>3. R \in SUBSET Reqs
  OBVIOUS
<1> QED BY <1>1, <1>2, <1>3, PromiseStep

LEMMA LateMaps ==
    ASSUME IInv, NEW r \in Reqs, LateLands(r)
    PROVE  [Promise!Next]_(Promise!vars)
<1> USE DEF env, session, outcome
<1>1. /\ Good(r) /\ TypeOK /\ late[r] # {}
      /\ UNCHANGED <<driver, job, pc, answers, failed>>
      /\ stored' = [stored EXCEPT ![r] = @ \cup late[r]]
  BY DEF IInv, LateLands
<1>2. late[r] = Unit(r, next[r]) /\ next[r] <= Length(r)
  BY <1>1 DEF Good, Written
<1>3. next[r] \in 1..Length(r) /\ next[r] = saidBar[r] + 1 /\ saidBar[r] < Length(r)
  BY <1>1, <1>2 DEF Good, Progress, TypeOK, saidBar, Length
<1>4. saidBar[r] < Len(planBar[r]) /\ planBar[r][saidBar[r] + 1] = late[r]
  BY <1>1, <1>2, <1>3, PlanIs
<1>5. planBar' = planBar /\ saidBar' = saidBar /\ overBar' = overBar
  BY <1>1, PlansStay, BarsStay
<1> QED BY <1>1, <1>4, <1>5, PromiseStep

\* A step of the program is a step of the promise, or none.
LEMMA StepMaps == IInv /\ [Next]_vars => [Promise!Next]_(Promise!vars)
<1> SUFFICES ASSUME IInv, [Next]_vars PROVE [Promise!Next]_(Promise!vars)
  OBVIOUS
<1> USE DEF env, session, outcome
<1>1. CASE UNCHANGED vars
  BY <1>1, EndMaps DEF vars
<1>2. ASSUME NEW r \in Reqs, Arrive(r) \/ Run(r) \/ Answer(r) \/ LateLands(r)
      PROVE  [Promise!Next]_(Promise!vars)
  BY <1>2, ArriveMaps, RunMaps, AnswerMaps, LateMaps
<1>3. ASSUME NEW r \in Reqs,
             \/ Open(r) \/ OpenFails(r) \/ Fails(r) \/ GiveUp(r) \/ Backstop(r) \/ LeftEnds(r)
             \/ Close(r) \/ LateDropped(r)
      PROVE  [Promise!Next]_(Promise!vars)
  <2>1. UNCHANGED <<driver, job, answers, stored>>
    BY <1>3 DEF Open, OpenFails, Fails, GiveUp, Backstop, LeftEnds, Close, LateDropped
  <2>2. /\ \A o \in Reqs : failed[o] => failed'[o]
        /\ \A o \in Reqs : pc[o] \in {"done", "lost"} => pc'[o] = pc[o]
    BY <1>3 DEF Open, OpenFails, Fails, GiveUp, Backstop, LeftEnds, Close, LateDropped, IInv, TypeOK
  <2> QED BY <2>1, <2>2, EndMaps
<1>4. CASE Crash
  <2>1. UNCHANGED <<driver, job, answers, stored, failed>>
    BY <1>4 DEF Crash
  <2>2. \A o \in Reqs : pc[o] \in {"done", "lost"} => pc'[o] = pc[o]
    BY <1>4 DEF Crash
  <2> QED BY <2>1, <2>2, EndMaps
<1> QED BY <1>1, <1>2, <1>3, <1>4 DEF Next

\* Statements take effect in order, each is reported once its effect is there, and of what
\* was not reported at most the statement in progress has had one.
THEOREM Refinement == Spec => KeepsPromise
<1>1. Init => Promise!Init
  <2> SUFFICES ASSUME Init PROVE Promise!Init
    OBVIOUS
  <2>1. planBar = [r \in Reqs |-> <<>>]
    <3>1. ASSUME NEW r \in Reqs
          PROVE  [n \in 1..Len(job[r].stmts) |-> Unit(r, n)] = <<>>
      <4>1. Len(job[r].stmts) = 0
        BY DEF Init, NoJob
      <4>2. [n \in 1..0 |-> Unit(r, n)] = <<>>
        OBVIOUS
      <4> QED BY <4>1, <4>2
    <3> QED BY <3>1 DEF planBar
  <2>2. saidBar = [r \in Reqs |-> 0]
    BY DEF Init, saidBar
  <2>3. overBar = [r \in Reqs |-> FALSE]
    <3>1. ASSUME NEW r \in Reqs
          PROVE  (failed[r] \/ pc[r] \in {"done", "lost"}) = FALSE
      BY DEF Init
    <3> QED BY <3>1 DEF overBar
  <2>4. stored = [r \in Reqs |-> {}]
    BY DEF Init
  <2> QED BY <2>1, <2>2, <2>3, <2>4 DEF Promise!Init, planBar, saidBar, overBar
<1> QED BY <1>1, StepMaps, Inductive, PTL DEF Spec, KeepsPromise, Promise!Spec

=============================================================================
