----------------------------- MODULE RemoteHub -----------------------------
(***************************************************************************)
(* Remote control: an agent's pushes travel through the in-memory hub      *)
(* (backend/queryview/remote.py) and an SSE stream (`_event_stream` in     *)
(* main.py) to the tab that armed its session (App.tsx), unless the user   *)
(* is editing (sessionLock.ts).                                            *)
(*                                                                         *)
(* Every stream registers one channel, so a channel is named by the stream *)
(* that registered it; `channels[s]` is the one registered last.  A stream *)
(* whose browser is gone goes on serving until the server notices.         *)
(***************************************************************************)
EXTENDS Naturals, Sequences, RemoteScreen

CONSTANTS
    Tabs, Sessions,
    Streams,      \* EventSource connections, each used at most once
    None,
    LockTTL,      \* LOCK_TTL_SECONDS, in ticks
    BeatEvery,    \* the edit lock's heartbeat, in ticks
    MaxPushes,    \* bound: pushes accepted
    MaxActs,      \* bound: acts of users and faults
    Acts          \* the acts and faults of this instance

ASSUME RemoteHubAssumption ==
    /\ None \notin Sessions /\ None \notin Streams
    /\ LockTTL \in Nat /\ BeatEvery \in Nat /\ 0 < BeatEvery /\ 2 * BeatEvery < LockTTL
    /\ MaxPushes \in Nat /\ MaxActs \in Nat
    /\ Acts \subseteq {"disarm", "drop", "restart", "switch", "edit", "freeze", "losepost"}

Maybe(S) == S \cup {None}
Pushes == 1 .. MaxPushes

VARIABLES
    channels,   \* _channels
    queue,      \* queue[c]: the queue of the channel that stream c registered
    lock,       \* lock[c]: the age of its "human" edit lock; LockTTL: not held
    open,       \* streams whose EventSource is connected and listening
    tab,        \* tab[t]: the application in a tab; got: its lock was taken, and stands
    posts,      \* lock posts in flight; any of them may be served next
    acts        \* bounded counter

vars == <<channels, queue, lock, stream, open, tab, posts, pushes, screen, acts>>
hub == <<channels, queue, lock>>
history == <<pushes, screen>>

Serving == {"polling", "waiting", "sending"}

Stream == [phase: {"unused", "asked", "over"} \cup Serving, sid: Maybe(Sessions),
           chan: Maybe(Streams), msg: Pushes \cup {0}]

Tab == [sid: Sessions, es: Maybe(Streams), ready: BOOLEAN, focus: BOOLEAN, held: BOOLEAN,
        got: BOOLEAN, frozen: BOOLEAN, since: 0 .. BeatEvery]

Post == [tab: Tabs, sid: Sessions, action: {"acquire", "release"}]

\* The types, and that the channel a session has is one that is being served.
TypeOK ==
    /\ channels \in [Sessions -> Maybe(Streams)]
    /\ \A s \in Sessions : channels[s] # None =>
          stream[channels[s]].sid = s /\ stream[channels[s]].phase \in Serving
    /\ queue \in [Streams -> Seq(Pushes)]
    /\ lock \in [Streams -> 0 .. LockTTL]
    /\ stream \in [Streams -> Stream]
    /\ open \subseteq Streams
    /\ tab \in [Tabs -> Tab]
    /\ posts \in Seq(Post)
    /\ pushes \in Seq([sid: Sessions, chan: Streams, by: SUBSET Streams])
    /\ screen \in [Tabs -> Seq(Pushes)]
    /\ acts \in Nat

Init ==
    /\ channels = [s \in Sessions |-> None]
    /\ queue = [c \in Streams |-> <<>>]
    /\ lock = [c \in Streams |-> LockTTL]
    /\ stream = [c \in Streams |-> [phase |-> "unused", sid |-> None, chan |-> None, msg |-> 0]]
    /\ open = {}
    /\ tab \in [Tabs -> [sid: Sessions, es: {None}, ready: {FALSE}, focus: {FALSE},
                         held: {FALSE}, got: {FALSE}, frozen: {FALSE}, since: {0}]]
    /\ posts = <<>>
    /\ pushes = <<>>
    /\ screen = [t \in Tabs |-> <<>>]
    /\ acts = 0

Act(a) == a \in Acts /\ acts < MaxActs /\ acts' = acts + 1

-----------------------------------------------------------------------------
(* The edit lock, in the browser: useEditLock.                              *)

\* remoteId: the id the popover shows and the lock is posted to.
RemoteId(t) == IF tab[t].ready THEN tab[t].sid ELSE None

Posted(t, action) ==
    IF RemoteId(t) = None THEN posts
    ELSE Append(posts, [tab |-> t, sid |-> RemoteId(t), action |-> action])

\* The effect's cleanup, when remoteId changes or the page unmounts.
Cleanup(t) == posts' = IF tab[t].held THEN Posted(t, "release") ELSE posts

Focus(t) ==
    /\ ~tab[t].focus /\ ~tab[t].frozen
    /\ Act("edit")
    /\ tab' = [tab EXCEPT ![t].focus = TRUE, ![t].held = TRUE, ![t].since = 0]
    /\ posts' = Posted(t, "acquire")
    /\ UNCHANGED <<hub, stream, open, history>>

Blur(t) ==
    /\ tab[t].focus /\ ~tab[t].frozen
    /\ tab' = [tab EXCEPT ![t].focus = FALSE, ![t].held = FALSE, ![t].got = FALSE]
    /\ posts' = Posted(t, "release")
    /\ UNCHANGED <<hub, stream, open, history, acts>>

\* The ten-second timer of a focused panel.
BeatLock(t) ==
    /\ tab[t].focus /\ ~tab[t].frozen /\ RemoteId(t) # None
    /\ tab[t].since > 0
    /\ tab' = [tab EXCEPT ![t].since = 0]
    /\ posts' = Posted(t, "acquire")
    /\ UNCHANGED <<hub, stream, open, history, acts>>

\* A frozen tab keeps its focus and its stream and runs no timer.
Freeze(t) ==
    /\ ~tab[t].frozen
    /\ Act("freeze")
    /\ tab' = [tab EXCEPT ![t].frozen = TRUE]
    /\ UNCHANGED <<hub, stream, open, posts, history>>

-----------------------------------------------------------------------------
(* The edit lock, in the hub.                                               *)

HumanHolds(c) == lock[c] < LockTTL

\* Seeded bug: acquiring a lock one has does not refresh it.
AcquireOnce(c) == lock' = [lock EXCEPT ![c] = IF @ = LockTTL THEN 0 ELSE @]

\* acquire: free, lapsed or the owner's already (the agent never takes it).
Acquire(c) == lock' = [lock EXCEPT ![c] = 0]

Release(c) == lock' = [lock EXCEPT ![c] = LockTTL]

Without(s, i) == SubSeq(s, 1, i - 1) \o SubSeq(s, i + 1, Len(s))

\* The tab has a release on the way, of an earlier focus or of this one.
ReleaseComing(t) ==
    \E j \in DOMAIN posts : posts[j].tab = t /\ posts[j].action = "release"

\* remote_lock; a session that is not armed answers so and nothing changes.  Every tab
\* is the owner "human": one tab's release frees what another has acquired.
ServePost(i) ==
    /\ i \in DOMAIN posts
    /\ LET m == posts[i]
           c == channels[m.sid] IN
       /\ IF c = None THEN lock' = lock
          ELSE IF m.action = "acquire" THEN Acquire(c) ELSE Release(c)
       /\ tab' = [t \in Tabs |-> [tab[t] EXCEPT !.got =
                    IF t # m.tab THEN @ /\ ~(m.action = "release" /\ tab[t].sid = m.sid)
                    ELSE @ \/ (c # None /\ m.action = "acquire" /\ tab[t].focus
                               /\ RemoteId(t) = m.sid /\ ~ReleaseComing(t))]]
    /\ posts' = Without(posts, i)
    /\ UNCHANGED <<channels, queue, stream, open, history, acts>>

\* Bound: no two posts that would refresh a lock are lost in a row.
LosePost(i) ==
    /\ i \in DOMAIN posts
    /\ LET c == channels[posts[i].sid] IN
       c # None => lock[c] \notin (BeatEvery + 1) .. (LockTTL - 1)
    /\ Act("losepost")
    /\ posts' = Without(posts, i)
    /\ UNCHANGED <<hub, stream, open, tab, history>>

Tick ==
    /\ posts = <<>>
    /\ \A t \in Tabs : tab[t].focus /\ ~tab[t].frozen /\ RemoteId(t) # None =>
          tab[t].since < BeatEvery
    /\ \E c \in Streams : lock[c] < LockTTL
    /\ lock' = [c \in Streams |-> IF lock[c] < LockTTL THEN lock[c] + 1 ELSE LockTTL]
    /\ tab' = [t \in Tabs |-> [tab[t] EXCEPT !.since = IF @ < BeatEvery THEN @ + 1 ELSE @]]
    /\ UNCHANGED <<channels, queue, stream, open, posts, history, acts>>

-----------------------------------------------------------------------------
(* Arming, in the browser.                                                  *)

\* A new EventSource, on the session that the tab had when it was armed.
Connect(c, s, gone) ==
    /\ stream[c].phase = "unused"
    /\ stream' = [stream EXCEPT ![c].phase = "asked", ![c].sid = s]
    /\ open' = (open \ gone) \cup {c}

Arm(t, c) ==
    /\ tab[t].es = None /\ ~tab[t].frozen
    /\ Connect(c, tab[t].sid, {})
    /\ tab' = [tab EXCEPT ![t].es = c]
    /\ UNCHANGED <<hub, posts, history, acts>>

\* The first event makes the pill show the id.
Ready(t) ==
    /\ tab[t].es # None /\ ~tab[t].ready /\ ~tab[t].frozen
    /\ stream[tab[t].es].phase \in Serving
    /\ tab' = [tab EXCEPT ![t].ready = TRUE, ![t].held = FALSE]
    /\ UNCHANGED <<hub, stream, open, posts, history, acts>>

Disarm(t) ==
    /\ tab[t].es # None /\ ~tab[t].frozen
    /\ Act("disarm")
    /\ Cleanup(t)
    /\ open' = open \ {tab[t].es}
    /\ tab' = [tab EXCEPT ![t].es = None, ![t].ready = FALSE, ![t].held = FALSE, ![t].got = FALSE]
    /\ UNCHANGED <<hub, stream, history>>

\* A closed or reloaded tab runs no cleanup, and comes back disarmed.
Reload(t) ==
    /\ tab[t].es # None
    /\ Act("disarm")
    /\ open' = open \ {tab[t].es}
    /\ tab' = [tab EXCEPT ![t] = [@ EXCEPT !.es = None, !.ready = FALSE, !.focus = FALSE,
                                           !.held = FALSE, !.got = FALSE, !.frozen = FALSE]]
    /\ UNCHANGED <<hub, stream, posts, history>>

\* The tab moves to another session: the views remount, the EventSource stays.
Switch(t, s) ==
    /\ s # tab[t].sid /\ ~tab[t].frozen
    /\ Act("switch")
    /\ Cleanup(t)
    /\ tab' = [tab EXCEPT ![t].sid = s, ![t].focus = FALSE, ![t].held = FALSE, ![t].got = FALSE]
    /\ UNCHANGED <<hub, stream, open, history>>

\* The connection breaks, and the EventSource connects again, to the same URL.
Reconnect(t, c) ==
    LET old == tab[t].es IN
    /\ old # None
    /\ Connect(c, stream[old].sid, {old})
    /\ tab' = [tab EXCEPT ![t].es = c]
    /\ UNCHANGED <<hub, posts, history>>

Drop(t, c) == Act("drop") /\ Reconnect(t, c)

Recover(t, c) ==
    /\ tab[t].es # None /\ stream[tab[t].es].phase = "over"
    /\ Reconnect(t, c)
    /\ UNCHANGED acts

-----------------------------------------------------------------------------
(* The stream, in the server: remote_events and _event_stream.              *)

\* Seeded bug: a new channel takes over what the old one had queued.
RegisterInherits(c) ==
    LET s == stream[c].sid IN
    /\ stream[c].phase = "asked"
    /\ channels' = [channels EXCEPT ![s] = c]
    /\ queue' = [queue EXCEPT ![c] = IF channels[s] = None THEN <<>> ELSE queue[channels[s]]]
    /\ stream' = [stream EXCEPT ![c].phase = "polling"]
    /\ UNCHANGED <<lock, open, tab, posts, history, acts>>

\* register: a channel of its own, with an empty queue and no lock.
Register(c) ==
    /\ stream[c].phase = "asked"
    /\ channels' = [channels EXCEPT ![stream[c].sid] = c]
    /\ queue' = [queue EXCEPT ![c] = <<>>]
    /\ lock' = [lock EXCEPT ![c] = LockTTL]
    /\ stream' = [stream EXCEPT ![c].phase = "polling"]
    /\ UNCHANGED <<open, tab, posts, history, acts>>

\* Seeded bug: a stream that polls keeps the edit lock of its channel fresh.
PollTouches(c) ==
    LET q == channels[stream[c].sid] IN
    /\ stream[c].phase = "polling" /\ q # None
    /\ stream' = [stream EXCEPT ![c].phase = "waiting", ![c].chan = q]
    /\ lock' = [lock EXCEPT ![q] = IF @ < LockTTL THEN 0 ELSE @]
    /\ UNCHANGED <<channels, queue, open, tab, posts, history, acts>>

\* next_message looks the channel up and waits on its queue.
Poll(c) ==
    /\ stream[c].phase = "polling"
    /\ channels[stream[c].sid] # None
    /\ stream' = [stream EXCEPT ![c].phase = "waiting", ![c].chan = channels[stream[c].sid]]
    /\ UNCHANGED <<hub, open, tab, posts, history, acts>>

Take(c) ==
    LET q == stream[c].chan IN
    /\ stream[c].phase = "waiting"
    /\ queue[q] # <<>>
    /\ stream' = [stream EXCEPT ![c].phase = "sending", ![c].msg = Head(queue[q]), ![c].chan = None]
    /\ queue' = [queue EXCEPT ![q] = Tail(@)]
    /\ UNCHANGED <<channels, lock, open, tab, posts, history, acts>>

\* Seeded bug: a message that comes in as the poll times out is lost.
TimeoutLoses(c) ==
    LET q == stream[c].chan IN
    /\ stream[c].phase = "waiting"
    /\ stream' = [stream EXCEPT ![c].phase = "polling", ![c].chan = None]
    /\ queue' = [queue EXCEPT ![q] = IF @ = <<>> THEN @ ELSE Tail(@)]
    /\ UNCHANGED <<channels, lock, open, tab, posts, history, acts>>

Timeout(c) ==
    /\ stream[c].phase = "waiting"
    /\ queue[stream[c].chan] = <<>>
    /\ stream' = [stream EXCEPT ![c].phase = "polling", ![c].chan = None]
    /\ UNCHANGED <<hub, open, tab, posts, history, acts>>

\* The event arrives, if anybody still listens.
Arrive(c) ==
    /\ stream[c].phase = "sending"
    /\ stream' = [stream EXCEPT ![c].phase = "polling", ![c].msg = 0]
    /\ screen' = [t \in Tabs |-> IF c \in open /\ tab[t].es = c
                                 THEN Append(screen[t], stream[c].msg) ELSE screen[t]]
    /\ UNCHANGED <<hub, open, tab, posts, pushes, acts>>

Over(c) == stream' = [stream EXCEPT ![c] = [@ EXCEPT !.phase = "over", !.chan = None, !.msg = 0]]

\* Seeded bug: a stream that ends leaves its channel behind.
NoticeLeaves(c) ==
    /\ c \notin open /\ stream[c].phase \in Serving
    /\ Over(c)
    /\ UNCHANGED <<hub, open, tab, posts, history, acts>>

\* Seeded bug: what the dead stream could not deliver is queued again.
NoticeRequeues(c) ==
    LET q == channels[stream[c].sid] IN
    /\ c \notin open /\ stream[c].phase \in Serving
    /\ queue' = IF stream[c].msg # 0 /\ q # None
                THEN [queue EXCEPT ![q] = Append(@, stream[c].msg)] ELSE queue
    /\ channels' = IF q = c THEN [channels EXCEPT ![stream[c].sid] = None] ELSE channels
    /\ Over(c)
    /\ UNCHANGED <<lock, open, tab, posts, history, acts>>

\* The server notices that the browser is gone; `finally` unregisters the session.
Notice(c) ==
    /\ c \notin open /\ stream[c].phase \in Serving
    /\ channels' = [channels EXCEPT ![stream[c].sid] = None]
    /\ Over(c)
    /\ UNCHANGED <<queue, lock, open, tab, posts, history, acts>>

\* The server restarts.
Restart ==
    /\ Act("restart")
    /\ channels' = [s \in Sessions |-> None]
    /\ stream' = [c \in Streams |->
                    IF stream[c].phase = "unused" THEN stream[c]
                    ELSE [stream[c] EXCEPT !.phase = "over", !.chan = None, !.msg = 0]]
    /\ UNCHANGED <<queue, lock, open, tab, posts, history>>

\* push: to the channel of the session, unless the user is editing.
Push(s) ==
    LET c == channels[s] IN
    /\ Len(pushes) < MaxPushes
    /\ c # None
    /\ ~HumanHolds(c)
    /\ queue' = [queue EXCEPT ![c] = Append(@, Len(pushes) + 1)]
    /\ pushes' = Append(pushes, [sid |-> s, chan |-> c,
                                 by |-> {d \in Streams : stream[d].phase \in Serving}])
    /\ UNCHANGED <<channels, lock, stream, open, tab, posts, screen, acts>>

-----------------------------------------------------------------------------

Next ==
    \/ \E t \in Tabs :
          \/ Focus(t) \/ Blur(t) \/ BeatLock(t) \/ Freeze(t)
          \/ Ready(t) \/ Disarm(t) \/ Reload(t)
          \/ \E s \in Sessions : Switch(t, s)
          \/ \E c \in Streams : Arm(t, c) \/ Drop(t, c) \/ Recover(t, c)
    \/ \E i \in DOMAIN posts : ServePost(i) \/ LosePost(i)
    \/ \E c \in Streams :
          Register(c) \/ Poll(c) \/ Take(c) \/ Timeout(c) \/ Arrive(c) \/ Notice(c)
    \/ \E s \in Sessions : Push(s)
    \/ Restart
    \/ Tick

Spec == Init /\ [][Next]_vars

\* The server handles requests and runs its generators, a connection that ended is
\* noticed (a ping fails), the browser's timers run, and time passes.
Fairness ==
    /\ \A c \in Streams :
          WF_vars(Register(c)) /\ WF_vars(Poll(c)) /\ WF_vars(Take(c)) /\ WF_vars(Arrive(c))
          /\ WF_vars(Notice(c))
    /\ \A t \in Tabs : WF_vars(BeatLock(t))
    /\ WF_vars(\E i \in DOMAIN posts : ServePost(i))
    /\ WF_vars(Tick)

FairSpec == Spec /\ Fairness

-----------------------------------------------------------------------------
(* Properties.                                                              *)

\* "a human lock older than LOCK_TTL_SECONDS is treated as released": a frozen or closed
\* tab does not block the agent for ever.
FrozenLockLapses ==
    <>[](\A t \in Tabs : tab[t].focus => tab[t].frozen)
        => []<>(\A s \in Sessions : channels[s] # None => ~HumanHolds(channels[s]))

Shared(push) == \E c \in Streams \ {push.chan} : stream[c].sid = push.sid

\* A push answered "delivered" is shown, unless the browser of the stream it was put on
\* goes away, the server restarts, or the session has had another stream.
DeliveredIsShown ==
    \A p \in Pushes :
        (p \in DOMAIN pushes) ~>
           \/ \E t \in Tabs : \E i \in DOMAIN screen[t] : screen[t][i] = p
           \/ p \in DOMAIN pushes /\ LET c == pushes[p].chan IN
                 c \notin open \/ stream[c].phase = "over" \/ Shared(pushes[p])

\* Disarming takes effect: once no browser listens for a session, its channel is dropped.
DisarmTakesEffect ==
    \A s \in Sessions :
        <>[](\A c \in open : stream[c].sid # s) => <>[](channels[s] = None)

\* "A push is refused with `blocked, user editing` while you type": none gets past a tab
\* that keeps the focus and runs, once its lock was taken with no release of an earlier
\* focus still on the way and until another tab releases it, while the session has its
\* first stream.
Editing(t) == tab[t].got /\ tab[t].focus /\ ~tab[t].frozen /\ RemoteId(t) # None
EditingBlocks ==
    [][\A t \in Tabs : Editing(t) /\ pushes' # pushes =>
          LET p == pushes'[Len(pushes')] IN p.sid = tab[t].sid => Shared(p)]_vars

\* Stated by docs/remote.md: "an id you have shared stays usable whenever that session is
\* armed": the id that a tab's popover shows has a channel while its stream is served.
ShownIdIsUsable ==
    \A t \in Tabs :
        tab[t].ready /\ stream[tab[t].es].phase \in Serving => channels[tab[t].sid] # None
=============================================================================
