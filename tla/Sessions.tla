------------------------------ MODULE Sessions ------------------------------
(***************************************************************************)
(* Which browser tab holds which session: the claims of                    *)
(* backend/queryview/sessions.py and the tabs that make, refresh, lose and *)
(* release them (frontend/src/app/session.ts, App.tsx).                    *)
(*                                                                         *)
(* A session is a row with a claim: the token of a tab and the time it was *)
(* last heard.  Times are kept as ages in ticks, capped just past the TTL, *)
(* since the code only ever compares them with SESSION_CLAIM_TTL_MS.       *)
(* Every handler but delete_session runs under `_writes`, so it is one     *)
(* step; requests travel, and arrive in any order.                         *)
(***************************************************************************)
EXTENDS Naturals, FiniteSets

CONSTANTS
    Tabs,         \* pages of the application, each opened at most once
    Ids,          \* session ids, the Agent session's included
    Agent,        \* AGENT_SESSION_ID
    None,
    TTL,          \* SESSION_CLAIM_TTL_MS, in ticks
    MaxQuiet,     \* a running tab, even hidden, beats at least this often
    MaxLate,      \* bound: requests of pages that are gone, still travelling
    MaxActs       \* bound: renames, deletions, switches, reloads, sleeps, duplicates

ASSUME SessionsAssumption ==
    /\ Agent \in Ids /\ None \notin Ids /\ None \notin Tabs
    /\ TTL \in Nat /\ MaxQuiet \in Nat /\ 0 < MaxQuiet /\ MaxQuiet < TTL
    /\ MaxLate \in Nat /\ MaxActs \in Nat

Maybe(S) == S \cup {None}

\* An age counts up to TTL + 1: "longer ago than the TTL".
Ages == 0 .. TTL + 1
Older(age) == IF age = TTL + 1 THEN age ELSE age + 1

VARIABLES
    rows,       \* rows[s]: the row of session s, or None
    used,       \* ids that have been given out
    deleting,   \* sessions that delete_session has read and will remove
    tab,        \* tab[t]: what page t knows
    late,       \* requests sent by pages that are gone
    acts        \* bounded counter

vars == <<rows, used, deleting, tab, late, acts>>

Row == [by: Maybe(Tabs), seen: Ages, idle: Ages, named: BOOLEAN]

\* An attach or a select on its way (`answer` is "sent"), or its reply:
\* "ok" with the session adopted in `sid`, "taken" (409) or "refused".
Requests == [kind: {"first", "beat", "select", "force"}, sid: Maybe(Ids),
             answer: {"sent", "ok", "taken", "refused"}]

ASSUME NoneAssumption == None \notin Row /\ None \notin Requests

Phases == {"unopened", "open", "asleep", "taken", "gone"}

Tab == [phase: Phases, token: Tabs, sid: Maybe(Ids), req: Maybe(Requests), heard: Ages]

Blank(t, phase) ==
    [phase |-> phase, token |-> t, sid |-> None, req |-> None, heard |-> TTL + 1]

\* What a page that is gone still has on the way.
Late == [kind: {"first", "beat", "select", "force", "beacon", "release"},
         token: Tabs, sid: Maybe(Ids)]

\* The types; the Agent session stands for ever, and only ids given out have rows.
TypeOK ==
    /\ rows \in [Ids -> Maybe(Row)]
    /\ rows[Agent] # None
    /\ \A s \in Ids \ used : rows[s] = None
    /\ used \subseteq Ids
    /\ deleting \subseteq Ids
    /\ tab \in [Tabs -> Tab]
    /\ late \subseteq Late
    /\ acts \in Nat

\* The Agent session is seeded by a migration.
Init ==
    /\ rows = [s \in Ids |-> IF s = Agent
                             THEN [by |-> None, seen |-> TTL + 1, idle |-> TTL + 1, named |-> FALSE]
                             ELSE None]
    /\ used = {Agent}
    /\ deleting = {}
    /\ tab = [t \in Tabs |-> Blank(t, "unopened")]
    /\ late = {}
    /\ acts = 0

-----------------------------------------------------------------------------
(* The store, on a table of rows `rs`.                                      *)

Live(rs) == {s \in Ids : rs[s] # None}

\* Seeded bug: a claim never lapses.
HeldForever(row) == row # None /\ row.by # None

\* _is_held: a claim counts only while its heartbeat is fresh.
IsHeld(row) == row # None /\ row.by # None /\ row.seen < TTL

\* _free: release what the tab holds, but for session `keep`.
Free(rs, token, keep) ==
    [s \in Ids |-> IF s # keep /\ rs[s] # None /\ rs[s].by = token
                   THEN [rs[s] EXCEPT !.by = None, !.seen = TTL + 1]
                   ELSE rs[s]]

\* Seeded bug: the sweep does not wait for the reload grace.
SweepAtOnce(rs) ==
    [s \in Ids |-> IF rs[s] # None /\ ~rs[s].named /\ s # Agent /\ rs[s].by = None
                   THEN None ELSE rs[s]]

\* Seeded bug: the sweep makes no exception for the Agent session.
SweepAgent(rs) ==
    [s \in Ids |-> IF rs[s] # None /\ ~rs[s].named /\ rs[s].by = None
                      /\ rs[s].idle = TTL + 1
                   THEN None ELSE rs[s]]

\* _sweep: delete unnamed sessions, unclaimed and idle for longer than the TTL.
Sweep(rs) ==
    [s \in Ids |-> IF rs[s] # None /\ ~rs[s].named /\ s # Agent /\ rs[s].by = None
                      /\ rs[s].idle = TTL + 1
                   THEN None ELSE rs[s]]

\* Seeded bug: what the tab held before stays claimed.
ClaimKeeping(rs, s, token) ==
    Sweep([rs EXCEPT ![s] = [@ EXCEPT !.by = token, !.seen = 0, !.idle = 0]])

\* _claim: take the session, free whatever else the tab held, sweep.
Claim(rs, s, token) ==
    Sweep([Free(rs, token, s) EXCEPT ![s] = [@ EXCEPT !.by = token, !.seen = 0, !.idle = 0]])

\* _new_row, in the caller's transaction.
Fresh == [by |-> None, seen |-> TTL + 1, idle |-> 0, named |-> FALSE]

\* A new id.  Ids are never reused, and which one it is tells nothing.
Unused == Ids \ used
NewId == CHOOSE n \in Unused : TRUE

\* _unheld_query: the most recently active named session that is not held.
Unheld == {s \in Live(rows) \ {Agent} :
             /\ rows[s].named
             /\ rows[s].by = None \/ rows[s].seen = TTL + 1}

Resumable == {s \in Unheld : \A r \in Unheld : rows[s].idle <= rows[r].idle}

-----------------------------------------------------------------------------
(* attach and select_session: the effect on the rows, and the answer.       *)

\* Claim session s, answering with it.
Take(token, s, answer, sid) ==
    /\ rows' = Claim(rows, s, token)
    /\ used' = used
    /\ answer = "ok" /\ sid = s

\* Create a session and claim it.
Create(token, answer, sid) ==
    /\ Unused # {}
    /\ rows' = Claim([rows EXCEPT ![NewId] = Fresh], NewId, token)
    /\ used' = used \cup {NewId}
    /\ answer = "ok" /\ sid = NewId

\* Resume a session or create one.
Elsewhere(token, answer, sid) ==
    \/ \E s \in Resumable : Take(token, s, answer, sid)
    \/ /\ Resumable = {}
       /\ Create(token, answer, sid)

\* Whether the tab may have the session it asks for back.
MayReclaim(token, s) == s \in Live(rows) /\ (IsHeld(rows[s]) => rows[s].by = token)

\* Seeded bug: a tab that knows the session's id gets it back.
AttachHijacks(token, s, keep, answer, sid) ==
    \/ s # None /\ s \in Live(rows) /\ Take(token, s, answer, sid)
    \/ s \notin Live(rows) /\ Elsewhere(token, answer, sid)

\* Seeded bug: a heartbeat whose session is taken moves on like a new tab.
AttachMoves(token, s, keep, answer, sid) ==
    \/ MayReclaim(token, s) /\ Take(token, s, answer, sid)
    \/ ~MayReclaim(token, s) /\ Elsewhere(token, answer, sid)

Attach(token, s, keep, answer, sid) ==
    \/ MayReclaim(token, s) /\ Take(token, s, answer, sid)
    \/ /\ ~MayReclaim(token, s)
       /\ keep /\ s \in Live(rows)
       /\ answer = "taken" /\ sid = None
       /\ UNCHANGED <<rows, used>>
    \/ /\ ~MayReclaim(token, s)
       /\ ~(keep /\ s \in Live(rows))
       /\ Elsewhere(token, answer, sid)

\* sid None asks for a brand-new session (attach with force_new).
Select(token, s, force, answer, sid) ==
    \/ /\ s = None
       /\ Create(token, answer, sid)
    \/ /\ s \in Live(rows)
       /\ force \/ ~IsHeld(rows[s]) \/ rows[s].by = token
       /\ Take(token, s, answer, sid)
    \/ /\ s # None
       /\ s \in Live(rows) => ~force /\ IsHeld(rows[s]) /\ rows[s].by # token
       /\ answer = "refused" /\ sid = None
       /\ UNCHANGED <<rows, used>>

Handle(r, token, answer, sid) ==
    \/ r.kind = "first" /\ Attach(token, r.sid, FALSE, answer, sid)
    \/ r.kind = "beat" /\ Attach(token, r.sid, TRUE, answer, sid)
    \/ r.kind = "select" /\ Select(token, r.sid, FALSE, answer, sid)
    \/ r.kind = "force" /\ Select(token, r.sid, TRUE, answer, sid)

Answers == {"ok", "taken", "refused"}

\* The server handles the request of a page that is there to hear the answer.
Serve(t) ==
    /\ tab[t].req # None
    /\ tab[t].req.answer = "sent"
    /\ \E answer \in Answers, sid \in Maybe(Ids) :
          /\ Handle(tab[t].req, tab[t].token, answer, sid)
          /\ tab' = [tab EXCEPT ![t].req = [@ EXCEPT !.answer = answer, !.sid = sid],
                                ![t].heard = IF answer = "ok" THEN 0 ELSE @]
    /\ UNCHANGED <<deleting, late, acts>>

\* The server handles a request whose page is gone.  A beacon is two writes:
\* the patch of what was pending, then the release.
ServeLate(m) ==
    /\ \/ /\ m.kind \in {"first", "beat", "select", "force"}
          /\ \E answer \in Answers, sid \in Maybe(Ids) : Handle(m, m.token, answer, sid)
          /\ late' = late \ {m}
       \/ /\ m.kind = "beacon"
          /\ rows' = IF m.sid \in Live(rows) THEN [rows EXCEPT ![m.sid].idle = 0] ELSE rows
          /\ late' = (late \ {m}) \cup {[m EXCEPT !.kind = "release"]}
          /\ UNCHANGED used
       \/ /\ m.kind = "release"
          /\ rows' = Free(rows, m.token, None)
          /\ late' = late \ {m}
          /\ UNCHANGED used
    /\ UNCHANGED <<deleting, tab, acts>>

-----------------------------------------------------------------------------
(* The tabs.                                                                *)

Page(t, phase) == tab[t].phase = phase

Send(t, kind, sid) ==
    tab' = [tab EXCEPT ![t].req = [kind |-> kind, sid |-> sid, answer |-> "sent"]]

\* A new tab: it mints a token and attaches without an id.
Open(t) ==
    /\ Page(t, "unopened")
    /\ tab' = [tab EXCEPT ![t].phase = "open",
                          ![t].req = [kind |-> "first", sid |-> None, answer |-> "sent"]]
    /\ UNCHANGED <<rows, used, deleting, late, acts>>

Act == acts < MaxActs /\ acts' = acts + 1

\* Duplicating a tab copies its sessionStorage, token and session id.
Duplicate(t, u) ==
    /\ Page(t, "open") /\ tab[t].sid # None
    /\ Page(u, "unopened")
    /\ Act
    /\ tab' = [tab EXCEPT ![u].phase = "open", ![u].token = tab[t].token, ![u].sid = tab[t].sid,
                          ![u].req = [kind |-> "first", sid |-> tab[t].sid, answer |-> "sent"]]
    /\ UNCHANGED <<rows, used, deleting, late>>

\* The heartbeat; none overlaps another, or a switch (withoutHeartbeat).
Beat(t) ==
    /\ Page(t, "open")
    /\ tab[t].req = None /\ tab[t].sid # None
    /\ tab[t].heard > 0
    /\ Send(t, "beat", tab[t].sid)
    /\ UNCHANGED <<rows, used, deleting, late, acts>>

\* The switcher, or the choices of a tab that was told its session is taken.
Switch(t, kind, s) ==
    /\ \/ Page(t, "open") /\ kind = "select" /\ s # tab[t].sid
       \/ Page(t, "taken") /\ <<kind, s>> \in {<<"force", tab[t].sid>>, <<"select", None>>}
    /\ tab[t].req = None /\ tab[t].sid # None
    /\ s = None \/ s \in used
    /\ Act
    /\ Send(t, kind, s)
    /\ UNCHANGED <<rows, used, deleting, late>>

\* The reply is adopted; a heartbeat's 409 greys the tab out.
Receive(t) ==
    /\ tab[t].phase \in {"open", "taken"}
    /\ tab[t].req # None
    /\ LET r == tab[t].req IN
       /\ r.answer # "sent"
       /\ tab' = [tab EXCEPT ![t].req = None,
                             ![t].sid = IF r.answer = "ok" THEN r.sid ELSE @,
                             ![t].phase = CASE r.answer = "ok" -> "open"
                                            [] r.answer = "taken" -> "taken"
                                            [] OTHER -> @]
    /\ UNCHANGED <<rows, used, deleting, late, acts>>

\* A heartbeat, or its reply, is lost; the next one will do.
BeatLost(t) ==
    /\ tab[t].req # None /\ tab[t].req.kind = "beat"
    /\ tab' = [tab EXCEPT ![t].req = None]
    /\ UNCHANGED <<rows, used, deleting, late, acts>>

\* The page goes away: its beacon, and a request it had sent, travel on.
\* A tab that was told its session is taken names no session.
Beacon(t) == [kind |-> "beacon", token |-> tab[t].token,
              sid |-> IF Page(t, "taken") THEN None ELSE tab[t].sid]

Orphans(t) ==
    IF tab[t].req # None /\ tab[t].req.answer = "sent"
    THEN {[kind |-> tab[t].req.kind, token |-> tab[t].token, sid |-> tab[t].req.sid]}
    ELSE {}

Leave(t, said) ==
    /\ late' = late \cup Orphans(t) \cup said
    /\ Cardinality(late') <= MaxLate
    /\ UNCHANGED <<rows, used, deleting>>

\* A reload is the old page leaving and a new one attaching, with its id.
Reload(t) ==
    /\ tab[t].phase \in {"open", "taken"} /\ tab[t].sid # None
    /\ Act
    /\ Leave(t, {Beacon(t)})
    /\ tab' = [tab EXCEPT ![t].phase = "open",
                          ![t].req = [kind |-> "first", sid |-> tab[t].sid, answer |-> "sent"]]

Close(t) ==
    /\ tab[t].phase \in {"open", "taken", "asleep"}
    /\ Leave(t, {Beacon(t)})
    /\ tab' = [tab EXCEPT ![t] = Blank(t, "gone")]
    /\ UNCHANGED acts

\* A crashed tab sends nothing.
CrashTab(t) ==
    /\ tab[t].phase \in {"open", "taken", "asleep"}
    /\ Leave(t, {})
    /\ tab' = [tab EXCEPT ![t] = Blank(t, "gone")]
    /\ UNCHANGED acts

\* A laptop sleeps, or the browser freezes the tab.
Sleep(t) ==
    /\ Page(t, "open") /\ tab[t].sid # None
    /\ Act
    /\ tab' = [tab EXCEPT ![t].phase = "asleep"]
    /\ UNCHANGED <<rows, used, deleting, late>>

Wake(t) ==
    /\ Page(t, "asleep")
    /\ tab' = [tab EXCEPT ![t].phase = "open"]
    /\ UNCHANGED <<rows, used, deleting, late, acts>>

-----------------------------------------------------------------------------
(* Writes that make no claim.                                               *)

\* patch_session with a label: pins or unpins the name of the tab's session.
Rename(t, named) ==
    LET s == tab[t].sid IN
    /\ Page(t, "open") /\ s \in Live(rows) \ {Agent}
    /\ rows[s].named # named
    /\ Act
    /\ rows' = [rows EXCEPT ![s].named = named, ![s].idle = 0]
    /\ UNCHANGED <<used, deleting, tab, late>>

\* delete_session reads the row, and removes it after an await.  It is the one
\* write that does not take `_writes`.
DeleteRead(s) ==
    /\ s \in Live(rows) \ {Agent}
    /\ ~IsHeld(rows[s])
    /\ Act
    /\ deleting' = deleting \cup {s}
    /\ UNCHANGED <<rows, used, tab, late>>

Delete(s) ==
    /\ s \in deleting
    /\ rows' = [rows EXCEPT ![s] = None]
    /\ deleting' = deleting \ {s}
    /\ UNCHANGED <<used, tab, late, acts>>

\* Time passes.  A running tab beats in time, and its requests take less than a
\* tick; those of a page that is gone may take longer.
Tick ==
    /\ \A t \in Tabs : Page(t, "open") => tab[t].req = None /\ tab[t].heard < MaxQuiet
    /\ rows' = [s \in Ids |-> IF rows[s] = None THEN None
                              ELSE [rows[s] EXCEPT !.seen = Older(@), !.idle = Older(@)]]
    /\ tab' = [t \in Tabs |-> [tab[t] EXCEPT !.heard = Older(@)]]
    /\ <<rows, tab>>' # <<rows, tab>>
    /\ UNCHANGED <<used, deleting, late, acts>>

Next ==
    \/ \E t \in Tabs :
          \/ Open(t) \/ Serve(t) \/ Receive(t) \/ Beat(t) \/ BeatLost(t)
          \/ \E kind \in {"select", "force"}, s \in Maybe(Ids) : Switch(t, kind, s)
          \/ Reload(t) \/ Close(t) \/ CrashTab(t) \/ Sleep(t) \/ Wake(t)
          \/ \E named \in BOOLEAN : Rename(t, named)
          \/ \E u \in Tabs : Duplicate(t, u)
    \/ \E m \in late : ServeLate(m)
    \/ \E s \in Ids : DeleteRead(s) \/ Delete(s)
    \/ Tick

Spec == Init /\ [][Next]_vars

\* Tabs' timers run, the server answers, time passes; the network may lose heartbeats
\* and replies, but not all of them for ever.
Fairness ==
    /\ \A t \in Tabs : WF_vars(Beat(t)) /\ SF_vars(Serve(t)) /\ SF_vars(Receive(t))
    /\ WF_vars(\E m \in late : ServeLate(m))
    /\ WF_vars(Tick)

FairSpec == Spec /\ Fairness

-----------------------------------------------------------------------------
(* Properties.                                                              *)

\* _claim: a tab holds one session at a time, whatever reloads, switches and late
\* requests of its former pages the server still handles.
OneClaimPerTab ==
    \A r, s \in Live(rows) : rows[r].by # None /\ rows[r].by = rows[s].by => r = s

\* The step serves a "Use it here".
Forced ==
    \/ \E t \in Tabs : tab[t].req # tab'[t].req /\ tab[t].req.kind = "force"
    \/ \E m \in late \ late' : m.kind = "force"

\* "A session is claimed by at most one tab at a time": a fresh claim passes to another
\* tab only by "Use it here", never by an attach, a heartbeat or a plain select.
ClaimRespected ==
    [][\A s \in Ids :
          IsHeld(rows[s]) /\ rows'[s] # None /\ rows'[s].by \notin {None, rows[s].by} =>
             Forced]_vars

\* "A running tab is never moved silently": a heartbeat's answer brings another session
\* only when the tab's own no longer exists.
NeverMovedSilently ==
    [][\A t \in Tabs :
          tab[t].req # None /\ tab[t].req.kind = "beat"
             /\ tab'[t].phase = "open" /\ tab'[t].sid # tab[t].sid =>
                tab[t].sid \notin Live(rows)]_vars

\* "The delay is the reload grace": the sweep never deletes the session of a tab heard
\* within the TTL, even when a late beacon has freed its claim.
ReloadGrace ==
    [][\A t \in Tabs, s \in Ids :
          tab[t].phase \in {"open", "asleep"} /\ tab[t].sid = s /\ tab[t].req = None
             /\ s \in Live(rows) /\ rows'[s] = None /\ deleting' = deleting =>
                tab[t].heard > TTL]_vars

\* "the other tab's next heartbeat then finds it taken": two running tabs, neither a
\* copy of the other, do not go on showing one session: the one without the claim is told.
Shown(t, s) == Page(t, "open") /\ tab[t].sid = s
Sharing == \E t, u \in Tabs, s \in Ids :
    tab[t].token # tab[u].token /\ Shown(t, s) /\ Shown(u, s)
SharingEnds == []<>~Sharing

\* "A crashed tab simply stops heartbeating and frees its session": when no tab runs or
\* sleeps any more, every session ends up free, with no release heard from any of them.
Idle == \A t \in Tabs : tab[t].phase \notin {"open", "asleep"}
ClaimLapses == <>[]Idle => <>[](\A s \in Ids : ~IsHeld(rows[s]))
=============================================================================
