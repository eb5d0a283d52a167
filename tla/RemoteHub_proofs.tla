--------------------------- MODULE RemoteHub_proofs ---------------------------
(* TLAPS proofs about RemoteHub: what the hub delivers, and what the edit lock  *)
(* keeps out, for any number of tabs, sessions and streams and any faults.      *)
EXTENDS RemoteHub, SequenceTheorems, TLAPS

-----------------------------------------------------------------------------
(* The inductive invariant.                                                 *)

Items(q) == {q[i] : i \in DOMAIN q}
Ordered(q) == \A i, j \in DOMAIN q : i < j => q[i] < q[j]

\* What waits in the queue of a channel, and what a tab has shown.
Held(c) == Items(queue[c])
Seen(t) == Items(screen[t])

Served(c) == stream[c].phase \in Serving

\* The channels a generator takes its next messages from: the one it waits on, and the
\* one it finds when it looks its session up.
Sources(c) == IF Served(c) THEN {stream[c].chan, channels[stream[c].sid]} \cap Streams ELSE {}

\* A generator waits on a channel, or has a message in hand, or neither.
StreamOK(c) ==
    /\ stream[c].phase = "unused" <=> stream[c].sid = None
    /\ stream[c].phase = "waiting" <=> stream[c].chan # None
    /\ stream[c].phase = "sending" <=> stream[c].msg # 0

\* An EventSource belongs to one tab.
EsOK ==
    /\ \A t \in Tabs : tab[t].es # None => stream[tab[t].es].phase # "unused"
    /\ \A t, u \in Tabs : tab[t].es # None /\ tab[t].es = tab[u].es => t = u

\* What is queued, in hand or shown was accepted, and queues and screens are in order.
Accepted ==
    /\ \A c \in Streams : Held(c) \subseteq DOMAIN pushes /\ Ordered(queue[c])
    /\ \A c \in Streams : stream[c].msg \in {0} \cup DOMAIN pushes
    /\ \A t \in Tabs : Seen(t) \subseteq DOMAIN pushes /\ Ordered(screen[t])

\* A push is in one place: in a queue, in a generator's hand or on a screen.
OnePlace ==
    /\ \A c, d \in Streams : c # d => Held(c) \cap Held(d) = {}
    /\ \A c, d \in Streams : stream[d].msg \notin Held(c)
    /\ \A c, d \in Streams : c # d /\ stream[c].msg # 0 => stream[c].msg # stream[d].msg
    /\ \A t \in Tabs, c \in Streams : Seen(t) \cap Held(c) = {} /\ stream[c].msg \notin Seen(t)
    /\ \A t, u \in Tabs : t # u => Seen(t) \cap Seen(u) = {}

\* What a generator may take next was pushed while it was served, and after what it has in
\* hand and what its tab has shown.
Ahead(c) ==
    /\ \A q \in Sources(c) : \A p \in Held(q) :
          /\ c \in pushes[p].by
          /\ stream[c].msg < p
          /\ \A t \in Tabs : tab[t].es = c => \A r \in Seen(t) : r < p
    /\ stream[c].msg # 0 =>
          /\ c \in pushes[stream[c].msg].by
          /\ \A t \in Tabs : tab[t].es = c => \A r \in Seen(t) : r < stream[c].msg

\* A generator waits on a channel of its session; on one that was replaced since it has
\* the older messages.
Overtaken(c) ==
    LET q == channels[stream[c].sid] IN
    stream[c].chan # None =>
        /\ stream[stream[c].chan].sid = stream[c].sid
        /\ q \notin {None, stream[c].chan} =>
              \A p \in Held(stream[c].chan), r \in Held(q) : p < r

Delivery ==
    /\ Accepted /\ OnePlace
    /\ \A c \in Streams : Ahead(c) /\ Overtaken(c)

\* A post of the tab to its session that will take the lock.
Coming(t) ==
    \E j \in DOMAIN posts : posts[j] = [tab |-> t, sid |-> tab[t].sid, action |-> "acquire"]

Registered(c) == stream[c].phase \notin {"unused", "asked"}
Alone(c) == \A d \in Streams \ {c} : stream[d].sid # stream[c].sid

\* The lock of a channel is as fresh as the tab's beats make it.
Fresh(t, c) ==
    \/ lock[c] <= BeatEvery + tab[t].since
    \/ lock[c] <= 2 * BeatEvery /\ Coming(t)

\* The channel that the tab's lock was taken on; while it is the session's, the session has
\* had no other, and the tab runs, the lock is fresh.
Backed(t, c) ==
    /\ Registered(c) /\ stream[c].sid = tab[t].sid
    /\ channels[tab[t].sid] = c /\ Alone(c) /\ ~tab[t].frozen => Fresh(t, c)

\* A tab whose lock was taken keeps the focus, and has no release on the way.
Kept(t) ==
    /\ tab[t].focus /\ tab[t].ready
    /\ ~ReleaseComing(t)
    /\ \E c \in Streams : Backed(t, c)

LockKept == \A t \in Tabs : tab[t].got => Kept(t)

Typed == TypeOK /\ EsOK /\ \A c \in Streams : StreamOK(c)

IInv == Typed /\ Delivery /\ LockKept

-----------------------------------------------------------------------------
(* Sequences.                                                               *)

LEMMA AppendItems ==
    ASSUME NEW q \in Seq(Nat), NEW p \in Nat, Ordered(q), \A r \in Items(q) : r < p
    PROVE  /\ Items(Append(q, p)) = Items(q) \cup {p}
           /\ Ordered(Append(q, p))
<1>1. /\ Len(Append(q, p)) = Len(q) + 1 /\ Len(q) \in Nat
      /\ \A i \in 1 .. Len(q) : Append(q, p)[i] = q[i]
      /\ Append(q, p)[Len(q) + 1] = p
  OBVIOUS
<1>2. DOMAIN Append(q, p) = 1 .. Len(q) + 1 /\ DOMAIN q = 1 .. Len(q)
  BY <1>1
<1>3. Items(Append(q, p)) = Items(q) \cup {p}
  BY <1>1, <1>2 DEF Items
<1>4. ASSUME NEW i \in 1 .. Len(q) + 1, NEW j \in 1 .. Len(q) + 1, i < j
      PROVE  Append(q, p)[i] < Append(q, p)[j]
  <2>1. i \in 1 .. Len(q) /\ q[i] \in Items(q)
    BY <1>1, <1>2, <1>4 DEF Items
  <2>2. CASE j \in 1 .. Len(q)
    BY <1>1, <1>2, <1>4, <2>1, <2>2 DEF Ordered
  <2>3. CASE j = Len(q) + 1
    BY <1>1, <2>1, <2>3
  <2> QED BY <1>1, <2>2, <2>3
<1> QED BY <1>2, <1>3, <1>4 DEF Ordered

LEMMA TailItems ==
    ASSUME NEW q \in Seq(Nat), q # <<>>, Ordered(q)
    PROVE  /\ Head(q) \in Items(q)
           /\ Items(Tail(q)) = Items(q) \ {Head(q)}
           /\ \A r \in Items(Tail(q)) : Head(q) < r
           /\ Ordered(Tail(q))
<1>1. /\ Len(q) \in Nat \ {0} /\ DOMAIN q = 1 .. Len(q)
      /\ Head(q) = q[1]
      /\ Len(Tail(q)) = Len(q) - 1 /\ DOMAIN Tail(q) = 1 .. Len(q) - 1
      /\ \A i \in 1 .. Len(q) - 1 : Tail(q)[i] = q[i + 1]
  BY HeadTailProperties
<1>2. \A i \in 1 .. Len(q) : q[i] \in Nat
  OBVIOUS
<1>3. Head(q) \in Items(q)
  BY <1>1 DEF Items
<1>4. \A i \in 1 .. Len(q) - 1 : i + 1 \in 1 .. Len(q) /\ q[1] < q[i + 1] /\ q[i + 1] \in Items(q)
  BY <1>1 DEF Ordered, Items
<1>5. \A r \in Items(Tail(q)) : Head(q) < r /\ r \in Items(q)
  BY <1>1, <1>4 DEF Items
<1>6. ASSUME NEW r \in Items(q), r # Head(q) PROVE r \in Items(Tail(q))
  <2>1. PICK i \in 1 .. Len(q) : r = q[i]
    BY <1>1 DEF Items
  <2>2. i # 1
    BY <1>1, <1>6, <2>1
  <2>3. i - 1 \in 1 .. Len(q) - 1 /\ q[(i - 1) + 1] = r
    BY <1>1, <2>1, <2>2
  <2> QED BY <1>1, <2>3 DEF Items
<1>7. Head(q) \notin Items(Tail(q))
  BY <1>1, <1>2, <1>5
<1>8. Ordered(Tail(q))
  <2>1. ASSUME NEW i \in 1 .. Len(q) - 1, NEW j \in 1 .. Len(q) - 1, i < j
        PROVE  Tail(q)[i] < Tail(q)[j]
    <3>1. i + 1 \in 1 .. Len(q) /\ j + 1 \in 1 .. Len(q) /\ i + 1 < j + 1
      BY <1>1, <2>1
    <3> QED BY <1>1, <3>1 DEF Ordered
  <2> QED BY <1>1, <2>1 DEF Ordered
<1> QED BY <1>3, <1>5, <1>6, <1>7, <1>8

LEMMA EmptyItems == Items(<<>>) = {} /\ Ordered(<<>>)
BY DEF Items, Ordered

\* What is left of a sequence without one of its elements.
LEMMA WithoutFacts ==
    ASSUME NEW S, NEW q \in Seq(S), NEW i \in DOMAIN q
    PROVE  /\ Without(q, i) \in Seq(S)
           /\ \A j \in DOMAIN Without(q, i) : \E k \in DOMAIN q : Without(q, i)[j] = q[k]
           /\ \A k \in DOMAIN q \ {i} : \E j \in DOMAIN Without(q, i) : Without(q, i)[j] = q[k]
<1> DEFINE a == SubSeq(q, 1, i - 1)
           b == SubSeq(q, i + 1, Len(q))
           w == a \o b
<1>1. Len(q) \in Nat /\ DOMAIN q = 1 .. Len(q) /\ i \in 1 .. Len(q)
  OBVIOUS
<1>2. /\ a \in Seq(S) /\ Len(a) = i - 1
      /\ \A j \in 1 .. i - 1 : a[j] = q[j]
  BY <1>1
<1>3. /\ b \in Seq(S) /\ Len(b) = Len(q) - i
      /\ \A j \in 1 .. Len(q) - i : b[j] = q[i + j]
  BY <1>1
<1> HIDE DEF a, b
<1>4. /\ w \in Seq(S) /\ Len(w) = Len(q) - 1
      /\ \A j \in 1 .. i - 1 : w[j] = q[j]
      /\ \A j \in 1 .. Len(q) - i : w[(i - 1) + j] = q[i + j]
  <2>1. /\ w \in Seq(S) /\ Len(w) = Len(a) + Len(b)
        /\ \A j \in 1 .. Len(a) + Len(b) : w[j] = IF j <= Len(a) THEN a[j] ELSE b[j - Len(a)]
    BY <1>2, <1>3, ConcatProperties, Zenon
  <2>2. Len(w) = Len(q) - 1
    BY <1>1, <1>2, <1>3, <2>1
  <2>3. ASSUME NEW j \in 1 .. i - 1 PROVE w[j] = q[j]
    <3>1. j \in 1 .. Len(a) + Len(b) /\ j <= Len(a)
      BY <1>1, <1>2, <1>3
    <3> QED BY <1>2, <2>1, <3>1
  <2>4. ASSUME NEW j \in 1 .. Len(q) - i PROVE w[(i - 1) + j] = q[i + j]
    <3>1. /\ (i - 1) + j \in 1 .. Len(a) + Len(b) /\ ~((i - 1) + j <= Len(a))
          /\ ((i - 1) + j) - Len(a) = j
      BY <1>1, <1>2, <1>3
    <3>2. w[(i - 1) + j] = b[((i - 1) + j) - Len(a)]
      BY <2>1, <3>1
    <3> QED BY <1>3, <3>1, <3>2
  <2> QED BY <2>1, <2>2, <2>3, <2>4
<1>5. Without(q, i) = w /\ DOMAIN w = 1 .. Len(q) - 1
  <2>1. Len(w) \in Nat /\ DOMAIN w = 1 .. Len(w)
    BY <1>4
  <2> QED BY <1>4, <2>1 DEF Without, a, b
<1> HIDE DEF w
<1>6. ASSUME NEW j \in 1 .. Len(q) - 1 PROVE \E k \in DOMAIN q : w[j] = q[k]
  <2>1. CASE j \in 1 .. i - 1
    <3>1. j \in DOMAIN q /\ w[j] = q[j]
      BY <1>1, <1>4, <2>1
    <3> QED BY <3>1
  <2>2. CASE j \notin 1 .. i - 1
    <3>1. j - (i - 1) \in 1 .. Len(q) - i /\ (i - 1) + (j - (i - 1)) = j
          /\ i + (j - (i - 1)) \in 1 .. Len(q)
      BY <1>1, <2>2
    <3> QED BY <1>1, <1>4, <3>1
  <2> QED BY <2>1, <2>2
<1>7. ASSUME NEW k \in 1 .. Len(q), k # i PROVE \E j \in 1 .. Len(q) - 1 : w[j] = q[k]
  <2>1. CASE k < i
    <3>1. k \in 1 .. i - 1 /\ k \in 1 .. Len(q) - 1
      BY <1>1, <2>1
    <3> QED BY <1>4, <3>1
  <2>2. CASE k > i
    <3>1. k - i \in 1 .. Len(q) - i /\ i + (k - i) = k /\ (i - 1) + (k - i) \in 1 .. Len(q) - 1
      BY <1>1, <2>2
    <3> QED BY <1>4, <3>1
  <2> QED BY <1>1, <1>7, <2>1, <2>2
<1> QED BY <1>1, <1>4, <1>5, <1>6, <1>7

-----------------------------------------------------------------------------
(* Types.                                                                   *)

LEMMA Numbers ==
    /\ LockTTL \in Nat /\ BeatEvery \in Nat /\ 0 < BeatEvery /\ 2 * BeatEvery < LockTTL
    /\ 0 \in 0 .. LockTTL /\ LockTTL \in 0 .. LockTTL /\ 0 \in 0 .. BeatEvery
BY RemoteHubAssumption

LEMMA PostedType ==
    ASSUME TypeOK, NEW t \in Tabs, NEW action \in {"acquire", "release"}
    PROVE  Posted(t, action) \in Seq(Post)
<1>1. posts \in Seq(Post) /\ tab[t].sid \in Sessions
  BY DEF TypeOK, Tab
<1>2. CASE RemoteId(t) = None
  BY <1>1, <1>2 DEF Posted
<1>3. CASE RemoteId(t) # None
  <2>1. RemoteId(t) = tab[t].sid
    BY <1>3 DEF RemoteId
  <2>2. [tab |-> t, sid |-> RemoteId(t), action |-> action] \in Post
    BY <1>1, <2>1 DEF Post
  <2> QED BY <1>1, <1>3, <2>2 DEF Posted
<1> QED BY <1>2, <1>3

LEMMA SameStreams ==
    ASSUME Typed, UNCHANGED stream, \A t \in Tabs : tab'[t].es \in {tab[t].es, None}
    PROVE  EsOK' /\ \A c \in Streams : StreamOK(c)'
BY DEF Typed, EsOK, StreamOK

\* What users do to the views of a tab.
Uses(t) ==
    \/ Focus(t) \/ Blur(t) \/ BeatLock(t) \/ Freeze(t) \/ Ready(t) \/ Disarm(t) \/ Reload(t)
    \/ \E s \in Sessions : Switch(t, s)

\* A tab of which no more than the views and the EventSource's end have changed.
UsesShape(t, r) ==
    /\ r \in Tab
    /\ r.es \in {tab[t].es, None}
    /\ tab' = [tab EXCEPT ![t] = r]

LEMMA UserFacts ==
    ASSUME TypeOK, NEW t \in Tabs, Uses(t)
    PROVE  /\ UNCHANGED <<channels, queue, lock, stream, pushes, screen>>
           /\ open' \subseteq open /\ acts' \in Nat
           /\ posts' \in {posts, Posted(t, "acquire"), Posted(t, "release")}
           /\ \E r : UsesShape(t, r)
<1>1. tab[t] \in Tab /\ tab \in [Tabs -> Tab] /\ None \in Maybe(Streams) /\ acts \in Nat
  BY DEF TypeOK, Maybe
<1>2. CASE Focus(t)
  <2>1. UsesShape(t, [tab[t] EXCEPT !.focus = TRUE, !.held = TRUE, !.since = 0])
    BY <1>1, <1>2, Numbers DEF Focus, Tab, UsesShape
  <2> QED BY <1>1, <1>2, <2>1 DEF Focus, hub, history, Act
<1>3. CASE Blur(t)
  <2>1. UsesShape(t, [tab[t] EXCEPT !.focus = FALSE, !.held = FALSE, !.got = FALSE])
    BY <1>1, <1>3 DEF Blur, Tab, UsesShape
  <2> QED BY <1>1, <1>3, <2>1 DEF Blur, hub, history
<1>4. CASE BeatLock(t)
  <2>1. UsesShape(t, [tab[t] EXCEPT !.since = 0])
    BY <1>1, <1>4, Numbers DEF BeatLock, Tab, UsesShape
  <2> QED BY <1>1, <1>4, <2>1 DEF BeatLock, hub, history
<1>5. CASE Freeze(t)
  <2>1. UsesShape(t, [tab[t] EXCEPT !.frozen = TRUE])
    BY <1>1, <1>5 DEF Freeze, Tab, UsesShape
  <2> QED BY <1>1, <1>5, <2>1 DEF Freeze, hub, history, Act
<1>6. CASE Ready(t)
  <2>1. UsesShape(t, [tab[t] EXCEPT !.ready = TRUE, !.held = FALSE])
    BY <1>1, <1>6 DEF Ready, Tab, UsesShape
  <2> QED BY <1>1, <1>6, <2>1 DEF Ready, hub, history
<1>7. CASE Disarm(t)
  <2>1. UsesShape(t, [tab[t] EXCEPT !.es = None, !.ready = FALSE, !.held = FALSE, !.got = FALSE])
    BY <1>1, <1>7 DEF Disarm, Tab, UsesShape
  <2> QED BY <1>1, <1>7, <2>1 DEF Disarm, hub, history, Act, Cleanup
<1>8. CASE Reload(t)
  <2>1. UsesShape(t, [tab[t] EXCEPT !.es = None, !.ready = FALSE, !.focus = FALSE,
                                    !.held = FALSE, !.got = FALSE, !.frozen = FALSE])
    BY <1>1, <1>8 DEF Reload, Tab, UsesShape
  <2> QED BY <1>1, <1>8, <2>1 DEF Reload, hub, history, Act
<1>9. ASSUME NEW s \in Sessions, Switch(t, s)
      PROVE  /\ UNCHANGED <<channels, queue, lock, stream, pushes, screen>>
             /\ open' \subseteq open /\ acts' \in Nat
             /\ posts' \in {posts, Posted(t, "acquire"), Posted(t, "release")}
             /\ \E r : UsesShape(t, r)
  <2>1. UsesShape(t, [tab[t] EXCEPT !.sid = s, !.focus = FALSE, !.held = FALSE, !.got = FALSE])
    BY <1>1, <1>9 DEF Switch, Tab, UsesShape
  <2> QED BY <1>1, <1>9, <2>1 DEF Switch, hub, history, Act, Cleanup
<1> QED BY <1>2, <1>3, <1>4, <1>5, <1>6, <1>7, <1>8, <1>9 DEF Uses

LEMMA UserTypes ==
    ASSUME Typed, NEW t \in Tabs, Uses(t)
    PROVE  Typed'
<1>1. /\ UNCHANGED <<channels, queue, lock, stream, pushes, screen>>
      /\ open' \subseteq open /\ acts' \in Nat
      /\ posts' \in {posts, Posted(t, "acquire"), Posted(t, "release")}
  BY UserFacts DEF Typed
<1>2. PICK r : UsesShape(t, r)
  BY UserFacts DEF Typed
<1>3. posts' \in Seq(Post)
  BY <1>1, PostedType DEF Typed, TypeOK
<1>4. tab' \in [Tabs -> Tab] /\ \A u \in Tabs : tab'[u].es \in {tab[u].es, None}
  BY <1>2 DEF UsesShape, Typed, TypeOK
<1>5. TypeOK'
  BY <1>1, <1>3, <1>4 DEF Typed, TypeOK
<1> QED BY <1>1, <1>4, <1>5, SameStreams DEF Typed

\* A tab that connects gets a stream nobody has, and the server has not seen.
\* A tab that opens an EventSource, for the first time or again.
Connects(t, c) == Arm(t, c) \/ Drop(t, c) \/ Recover(t, c)
Asks(c, s) == stream' = [stream EXCEPT ![c] = [@ EXCEPT !.phase = "asked", !.sid = s]]

LEMMA ConnectFacts ==
    ASSUME Typed, NEW t \in Tabs, NEW c \in Streams, Connects(t, c)
    PROVE  /\ stream[c].phase = "unused"
           /\ \E s \in Sessions : Asks(c, s)
           /\ open' \subseteq Streams /\ acts' \in Nat
           /\ tab' = [tab EXCEPT ![t].es = c]
           /\ UNCHANGED <<channels, queue, lock, pushes, screen, posts>>
<1>1. tab[t] \in Tab /\ acts \in Nat /\ open \subseteq Streams /\ stream \in [Streams -> Stream]
  BY DEF Typed, TypeOK
<1>2. CASE Arm(t, c)
  <2>1. tab[t].sid \in Sessions
    BY <1>1 DEF Tab
  <2>2. /\ Connect(c, tab[t].sid, {}) /\ tab' = [tab EXCEPT ![t].es = c]
        /\ UNCHANGED <<hub, posts, history, acts>>
    BY <1>2 DEF Arm
  <2>3. Asks(c, tab[t].sid)
    BY <1>1, <2>2 DEF Connect, Asks
  <2> QED BY <1>1, <2>1, <2>2, <2>3 DEF Connect, hub, history
<1>3. CASE Drop(t, c) \/ Recover(t, c)
  <2>1. Reconnect(t, c) /\ acts' \in Nat
    BY <1>1, <1>3 DEF Drop, Recover, Act
  <2>2. tab[t].es \in Streams /\ stream[tab[t].es].phase # "unused"
    BY <1>1, <2>1 DEF Reconnect, Tab, Maybe, Typed, EsOK
  <2>3. stream[tab[t].es].sid \in Sessions
    BY <1>1, <2>2 DEF Typed, StreamOK, Stream, Maybe
  <2>4. /\ Connect(c, stream[tab[t].es].sid, {tab[t].es}) /\ tab' = [tab EXCEPT ![t].es = c]
        /\ UNCHANGED <<hub, posts, history>>
    BY <2>1 DEF Reconnect
  <2>5. Asks(c, stream[tab[t].es].sid)
    BY <1>1, <2>4 DEF Connect, Asks
  <2> QED BY <1>1, <2>1, <2>3, <2>4, <2>5 DEF Connect, hub, history
<1> QED BY <1>2, <1>3 DEF Connects

LEMMA ConnectTypes ==
    ASSUME Typed, NEW t \in Tabs, NEW c \in Streams, Connects(t, c)
    PROVE  Typed'
<1> PICK s \in Sessions : Asks(c, s)
  BY ConnectFacts
<1>1. stream' = [stream EXCEPT ![c] = [@ EXCEPT !.phase = "asked", !.sid = s]]
  BY DEF Asks
<1>2. /\ stream[c].phase = "unused"
      /\ open' \subseteq Streams /\ acts' \in Nat
      /\ tab' = [tab EXCEPT ![t].es = c]
      /\ UNCHANGED <<channels, queue, lock, pushes, screen, posts>>
  BY ConnectFacts
<1>3. /\ stream \in [Streams -> Stream] /\ tab \in [Tabs -> Tab]
      /\ s # None /\ s \in Maybe(Sessions) /\ c # None /\ c \in Maybe(Streams)
  BY RemoteHubAssumption DEF Typed, TypeOK, Maybe
<1>4. /\ stream' \in [Streams -> Stream]
      /\ \A d \in Streams \ {c} : stream'[d] = stream[d]
      /\ stream'[c] = [stream[c] EXCEPT !.phase = "asked", !.sid = s]
  BY <1>1, <1>3 DEF Stream
<1>5. StreamOK(c)'
  <2>1. stream[c] \in Stream /\ stream[c].chan = None /\ stream[c].msg = 0
    BY <1>2, <1>3 DEF Typed, StreamOK
  <2>2. /\ stream'[c].phase = "asked" /\ stream'[c].sid = s
        /\ stream'[c].chan = None /\ stream'[c].msg = 0
    BY <1>4, <2>1 DEF Stream
  <2> QED BY <1>3, <2>2 DEF StreamOK
<1>6. ASSUME NEW d \in Streams PROVE StreamOK(d)'
  <2>1. CASE d # c
    <3>1. stream'[d] = stream[d] /\ StreamOK(d)
      BY <1>4, <2>1 DEF Typed
    <3> QED BY <3>1 DEF StreamOK
  <2> QED BY <1>5, <2>1
<1>7. tab' \in [Tabs -> Tab]
  BY <1>2, <1>3 DEF Tab
<1>8. EsOK'
  <2>1. \A u \in Tabs \ {t} : tab'[u] = tab[u] /\ tab[u].es # c
    BY <1>2, <1>3 DEF Typed, EsOK
  <2>2. tab'[t].es = c
    BY <1>2, <1>3 DEF Tab
  <2>3. \A u \in Tabs : tab'[u].es # None => stream'[tab'[u].es].phase # "unused"
    <3>1. stream'[c].phase = "asked"
      BY <1>3, <1>4 DEF Stream
    <3>2. ASSUME NEW u \in Tabs \ {t}, tab[u].es # None PROVE stream'[tab[u].es].phase # "unused"
      BY <1>3, <1>4, <2>1, <3>2 DEF Typed, EsOK, Tab, Maybe
    <3> QED BY <2>1, <2>2, <3>1, <3>2
  <2> QED BY <2>1, <2>2, <2>3 DEF Typed, EsOK
<1>9. TypeOK'
  <2>1. ASSUME NEW z \in Sessions, channels[z] # None
        PROVE  stream'[channels[z]].sid = z /\ stream'[channels[z]].phase \in Serving
    <3>1. /\ channels[z] \in Streams /\ stream[channels[z]].sid = z
          /\ stream[channels[z]].phase \in Serving
      BY <2>1 DEF Typed, TypeOK, Maybe
    <3>2. channels[z] # c
      BY <1>2, <3>1 DEF Serving
    <3> QED BY <1>4, <3>1, <3>2
  <2> QED BY <1>2, <1>4, <1>7, <2>1 DEF Typed, TypeOK
<1> QED BY <1>6, <1>8, <1>9 DEF Typed

\* The steps of a generator: one stream changes, and what of the hub it may touch.
Generator(c) ==
    Register(c) \/ Poll(c) \/ Take(c) \/ Timeout(c) \/ Arrive(c) \/ Notice(c)

LEMMA GeneratorTypes ==
    ASSUME Typed, NEW c \in Streams, Generator(c)
    PROVE  Typed'
<1>1. /\ stream \in [Streams -> Stream] /\ channels \in [Sessions -> Maybe(Streams)]
      /\ queue \in [Streams -> Seq(Pushes)] /\ lock \in [Streams -> 0 .. LockTTL]
      /\ screen \in [Tabs -> Seq(Pushes)] /\ None \notin Streams /\ None \notin Sessions
      /\ StreamOK(c)
  BY RemoteHubAssumption DEF Typed, TypeOK
<1>2. UNCHANGED <<open, tab, posts, pushes, acts>>
  BY DEF Generator, Register, Poll, Take, Timeout, Arrive, Notice, history, hub
<1>3. stream[c] \in Stream /\ stream[c].sid \in Sessions /\ stream[c].phase # "unused"
  <2>1. stream[c].phase \in Serving \cup {"asked"}
    BY DEF Generator, Register, Poll, Take, Timeout, Arrive, Notice, Serving
  <2> QED BY <1>1, <2>1 DEF StreamOK, Stream, Maybe, Serving
<1>4. PICK r \in Stream :
         /\ stream' = [stream EXCEPT ![c] = r]
         /\ r.sid = stream[c].sid
         /\ r.phase \in Serving \cup {"over"}
         /\ r.phase = "waiting" <=> r.chan # None
         /\ r.phase = "sending" <=> r.msg # 0
         /\ r.phase = "over" => channels' = [channels EXCEPT ![stream[c].sid] = None]
  <2>1. CASE Register(c)
    <3>1. [stream[c] EXCEPT !.phase = "polling"] \in Stream
      BY <1>3 DEF Stream, Serving
    <3>2. stream' = [stream EXCEPT ![c] = [stream[c] EXCEPT !.phase = "polling"]]
      BY <1>1, <2>1 DEF Register
    <3>3. stream[c].chan = None /\ stream[c].msg = 0
      BY <1>1, <2>1 DEF Register, StreamOK
    <3> QED BY <1>3, <3>1, <3>2, <3>3 DEF Serving, Stream
  <2>2. CASE Poll(c)
    <3> DEFINE q == channels[stream[c].sid]
    <3>1. q \in Maybe(Streams) /\ q # None
      BY <1>1, <1>3, <2>2 DEF Poll
    <3>2. stream' = [stream EXCEPT ![c] = [stream[c] EXCEPT !.phase = "waiting", !.chan = q]]
      BY <1>1, <2>2 DEF Poll
    <3>3. stream[c].msg = 0
      BY <1>1, <2>2 DEF Poll, StreamOK
    <3> HIDE DEF q
    <3>4. [stream[c] EXCEPT !.phase = "waiting", !.chan = q] \in Stream
      BY <1>3, <3>1 DEF Stream, Serving
    <3> QED BY <1>3, <3>1, <3>2, <3>3, <3>4 DEF Serving, Stream
  <2>3. CASE Take(c)
    <3> DEFINE p == Head(queue[stream[c].chan])
    <3>1. stream[c].chan \in Streams
      BY <1>1, <1>3, <2>3 DEF Take, StreamOK, Stream, Maybe
    <3>2. p \in Pushes
      BY <1>1, <2>3, <3>1 DEF Take
    <3>3. stream' = [stream EXCEPT ![c] =
                       [stream[c] EXCEPT !.phase = "sending", !.msg = p, !.chan = None]]
      BY <1>1, <2>3 DEF Take
    <3> HIDE DEF p
    <3>4. [stream[c] EXCEPT !.phase = "sending", !.msg = p, !.chan = None] \in Stream
      BY <1>3, <3>2 DEF Stream, Serving, Maybe
    <3>5. p # 0
      BY <3>2, RemoteHubAssumption DEF Pushes
    <3> QED BY <1>3, <3>3, <3>4, <3>5 DEF Serving, Stream
  <2>4. CASE Timeout(c)
    <3>1. [stream[c] EXCEPT !.phase = "polling", !.chan = None] \in Stream
      BY <1>3 DEF Stream, Serving, Maybe
    <3>2. stream' = [stream EXCEPT ![c] = [stream[c] EXCEPT !.phase = "polling", !.chan = None]]
      BY <1>1, <2>4 DEF Timeout
    <3>3. stream[c].msg = 0
      BY <1>1, <2>4 DEF Timeout, StreamOK
    <3> QED BY <1>3, <3>1, <3>2, <3>3 DEF Serving, Stream
  <2>5. CASE Arrive(c)
    <3>1. [stream[c] EXCEPT !.phase = "polling", !.msg = 0] \in Stream
      BY <1>3 DEF Stream, Serving
    <3>2. stream' = [stream EXCEPT ![c] = [stream[c] EXCEPT !.phase = "polling", !.msg = 0]]
      BY <1>1, <2>5 DEF Arrive
    <3>3. stream[c].chan = None
      BY <1>1, <2>5 DEF Arrive, StreamOK
    <3> QED BY <1>3, <3>1, <3>2, <3>3 DEF Serving, Stream
  <2>6. CASE Notice(c)
    <3>1. [stream[c] EXCEPT !.phase = "over", !.chan = None, !.msg = 0] \in Stream
      BY <1>3 DEF Stream, Serving, Maybe
    <3>2. stream' = [stream EXCEPT ![c] = [stream[c] EXCEPT !.phase = "over", !.chan = None, !.msg = 0]]
      BY <1>1, <2>6 DEF Notice, Over
    <3> QED BY <1>3, <2>6, <3>1, <3>2 DEF Serving, Stream, Notice
  <2> QED BY <2>1, <2>2, <2>3, <2>4, <2>5, <2>6 DEF Generator
<1>5. /\ stream' \in [Streams -> Stream] /\ stream'[c] = r
      /\ \A d \in Streams \ {c} : stream'[d] = stream[d]
  BY <1>1, <1>4
<1>6. \A d \in Streams : StreamOK(d)'
  <2>1. StreamOK(c)'
    BY <1>1, <1>3, <1>4, <1>5 DEF StreamOK, Serving
  <2> QED BY <1>5, <2>1 DEF Typed, StreamOK
<1>7. EsOK'
  <2>1. ASSUME NEW d \in Streams, stream[d].phase # "unused" PROVE stream'[d].phase # "unused"
    BY <1>4, <1>5, <2>1 DEF Serving
  <2>2. \A t \in Tabs : tab[t].es # None => tab[t].es \in Streams
    BY DEF Typed, TypeOK, Tab, Maybe
  <2> QED BY <1>2, <2>1, <2>2 DEF Typed, EsOK
<1>8. /\ queue' \in [Streams -> Seq(Pushes)] /\ lock' \in [Streams -> 0 .. LockTTL]
      /\ screen' \in [Tabs -> Seq(Pushes)]
  <2>1. CASE Register(c)
    BY <1>1, <2>1, Numbers DEF Register, history
  <2>2. CASE Poll(c) \/ Timeout(c) \/ Notice(c)
    BY <1>1, <2>2 DEF Poll, Timeout, Notice, hub, history
  <2>3. CASE Take(c)
    <3>1. stream[c].chan \in Streams
      BY <1>1, <1>3, <2>3 DEF Take, StreamOK, Stream, Maybe
    <3>2. Tail(queue[stream[c].chan]) \in Seq(Pushes)
      BY <1>1, <2>3, <3>1 DEF Take
    <3> QED BY <1>1, <2>3, <3>1, <3>2 DEF Take, history
  <2>4. CASE Arrive(c)
    <3>1. stream[c].msg \in Pushes
      BY <1>1, <1>3, <2>4 DEF Arrive, StreamOK, Stream
    <3>2. \A t \in Tabs : Append(screen[t], stream[c].msg) \in Seq(Pushes)
      BY <1>1, <3>1
    <3> QED BY <1>1, <2>4, <3>2 DEF Arrive, hub
  <2> QED BY <2>1, <2>2, <2>3, <2>4 DEF Generator
<1>9. channels' \in [Sessions -> Maybe(Streams)]
      /\ \A s \in Sessions : channels'[s] \in {channels[s], None}
                               \/ (Register(c) /\ s = stream[c].sid /\ channels'[s] = c)
  <2>1. CASE Register(c)
    BY <1>1, <2>1 DEF Register, Maybe
  <2>2. CASE Notice(c)
    BY <1>1, <2>2 DEF Notice, Maybe
  <2>3. CASE ~Register(c) /\ ~Notice(c)
    <3>1. channels' = channels
      BY <2>3 DEF Generator, Poll, Take, Timeout, Arrive, hub
    <3> QED BY <1>1, <3>1
  <2> QED BY <2>1, <2>2, <2>3
<1>10. ASSUME NEW s \in Sessions, channels'[s] # None
       PROVE  stream'[channels'[s]].sid = s /\ stream'[channels'[s]].phase \in Serving
  <2>1. CASE channels'[s] = c
    <3>1. stream[c].sid = s
      BY <1>1, <1>9, <1>10, <2>1 DEF Typed, TypeOK
    <3>2. r.phase # "over"
      BY <1>1, <1>3, <1>4, <1>10, <3>1
    <3> QED BY <1>4, <1>5, <2>1, <3>1, <3>2
  <2>2. CASE channels'[s] # c
    <3>1. channels'[s] = channels[s] /\ channels[s] \in Streams
      BY <1>1, <1>9, <1>10, <2>2 DEF Maybe
    <3> QED BY <1>5, <1>10, <2>2, <3>1 DEF Typed, TypeOK
  <2> QED BY <2>1, <2>2
<1>11. TypeOK'
  BY <1>2, <1>5, <1>8, <1>9, <1>10 DEF Typed, TypeOK
<1> QED BY <1>6, <1>7, <1>11 DEF Typed

\* Lock posts, time, a restart and the agent.
LEMMA PostTypes ==
    ASSUME Typed, NEW i \in DOMAIN posts, ServePost(i) \/ LosePost(i)
    PROVE  Typed'
<1>1. posts \in Seq(Post) /\ posts[i] \in Post /\ tab \in [Tabs -> Tab] /\ acts \in Nat
      /\ lock \in [Streams -> 0 .. LockTTL] /\ channels \in [Sessions -> Maybe(Streams)]
  BY DEF Typed, TypeOK
<1>2. posts' \in Seq(Post)
  BY <1>1, WithoutFacts DEF ServePost, LosePost
<1>3. UNCHANGED <<channels, queue, stream, open, pushes, screen>> /\ acts' \in Nat
  BY <1>1 DEF ServePost, LosePost, Act, hub, history
<1>4. tab' \in [Tabs -> Tab] /\ \A t \in Tabs : tab'[t].es = tab[t].es
  <2>1. CASE ServePost(i)
    <3>1. \A t \in Tabs : \E b \in BOOLEAN : tab'[t] = [tab[t] EXCEPT !.got = b]
      BY <1>1, <2>1 DEF ServePost, Tab, ReleaseComing
    <3>2. DOMAIN tab' = Tabs /\ tab' = [t \in Tabs |-> tab'[t]]
      BY <2>1 DEF ServePost
    <3>3. ASSUME NEW t \in Tabs PROVE tab'[t] \in Tab /\ tab'[t].es = tab[t].es
      <4>1. PICK b \in BOOLEAN : tab'[t] = [tab[t] EXCEPT !.got = b]
        BY <3>1
      <4>2. tab[t] \in Tab
        BY <1>1
      <4> QED BY <4>1, <4>2 DEF Tab
    <3> QED BY <3>2, <3>3
  <2>2. CASE LosePost(i)
    BY <1>1, <2>2 DEF LosePost
  <2> QED BY <2>1, <2>2
<1>5. lock' \in [Streams -> 0 .. LockTTL]
  <2>1. CASE ServePost(i)
    BY <1>1, <2>1, Numbers DEF ServePost, Acquire, Release, Post, Maybe
  <2>2. CASE LosePost(i)
    BY <1>1, <2>2 DEF LosePost, hub
  <2> QED BY <2>1, <2>2
<1>6. TypeOK'
  BY <1>2, <1>3, <1>4, <1>5 DEF Typed, TypeOK
<1> QED BY <1>3, <1>4, <1>6, SameStreams DEF Typed

LEMMA TickTypes ==
    ASSUME Typed, Tick
    PROVE  Typed'
<1>1. UNCHANGED <<channels, queue, stream, open, posts, pushes, screen, acts>>
  BY DEF Tick, history
<1>2. lock' \in [Streams -> 0 .. LockTTL]
  BY Numbers DEF Tick, Typed, TypeOK
<1>3. ASSUME NEW t \in Tabs PROVE tab'[t] \in Tab /\ tab'[t].es = tab[t].es
  <2>1. tab[t] \in Tab /\ tab[t].since \in 0 .. BeatEvery
    BY DEF Typed, TypeOK, Tab
  <2>2. PICK n : n = IF tab[t].since < BeatEvery THEN tab[t].since + 1 ELSE tab[t].since
    OBVIOUS
  <2>3. n \in 0 .. BeatEvery
    BY <2>1, <2>2, Numbers
  <2>4. tab'[t] = [tab[t] EXCEPT !.since = n]
    BY <2>2 DEF Tick
  <2> QED BY <2>1, <2>3, <2>4 DEF Tab
<1>4. tab' \in [Tabs -> Tab] /\ \A t \in Tabs : tab'[t].es = tab[t].es
  <2>1. tab' = [t \in Tabs |-> tab'[t]]
    BY DEF Tick
  <2> QED BY <1>3, <2>1
<1>5. TypeOK'
  BY <1>1, <1>2, <1>4 DEF Typed, TypeOK
<1> QED BY <1>1, <1>4, <1>5, SameStreams DEF Typed

LEMMA RestartTypes ==
    ASSUME Typed, Restart
    PROVE  /\ Typed'
           /\ \A c \in Streams : /\ stream'[c].sid = stream[c].sid
                                 /\ stream'[c].msg = 0 /\ stream'[c].chan = None
                                 /\ ~Served(c)'
                                 /\ Registered(c) => Registered(c)'
           /\ \A s \in Sessions : channels'[s] = None
           /\ UNCHANGED <<queue, lock, open, tab, posts, pushes, screen>>
<1>1. /\ UNCHANGED <<queue, lock, open, tab, posts, pushes, screen>>
      /\ channels' = [s \in Sessions |-> None] /\ acts' = acts + 1
  BY DEF Restart, Act, history
<1>2. /\ channels' \in [Sessions -> Maybe(Streams)] /\ acts' \in Nat
      /\ \A s \in Sessions : channels'[s] = None
  BY <1>1 DEF Maybe, Typed, TypeOK
<1>3. ASSUME NEW c \in Streams
      PROVE  /\ stream'[c] \in Stream /\ stream'[c].sid = stream[c].sid
             /\ stream'[c].msg = 0 /\ stream'[c].chan = None
             /\ stream'[c].phase \in {"unused", "over"}
             /\ stream'[c].phase = "unused" <=> stream[c].phase = "unused"
  <2>1. stream[c] \in Stream /\ StreamOK(c)
    BY DEF Typed, TypeOK
  <2>2. CASE stream[c].phase = "unused"
    <3>1. stream'[c] = stream[c]
      BY <2>2 DEF Restart
    <3> QED BY <2>1, <2>2, <3>1 DEF StreamOK
  <2>3. CASE stream[c].phase # "unused"
    <3>1. stream'[c] = [stream[c] EXCEPT !.phase = "over", !.chan = None, !.msg = 0]
      BY <2>3 DEF Restart
    <3> QED BY <2>1, <2>3, <3>1 DEF Stream, Maybe
  <2> QED BY <2>2, <2>3
<1>4. stream' \in [Streams -> Stream]
  BY <1>3 DEF Restart
<1>5. \A c \in Streams : StreamOK(c)'
  BY <1>3 DEF Typed, StreamOK
<1>6. EsOK'
  <2>1. \A t \in Tabs : tab[t].es # None => tab[t].es \in Streams
    BY DEF Typed, TypeOK, Tab, Maybe
  <2> QED BY <1>1, <1>3, <2>1 DEF Typed, EsOK
<1>7. \A c \in Streams : ~Served(c)' /\ (Registered(c) => Registered(c)')
  BY <1>3 DEF Served, Serving, Registered
<1>8. TypeOK'
  BY <1>1, <1>2, <1>4 DEF Typed, TypeOK
<1> QED BY <1>1, <1>2, <1>3, <1>5, <1>6, <1>7, <1>8 DEF Typed

LEMMA PushTypes ==
    ASSUME Typed, NEW s \in Sessions, Push(s)
    PROVE  /\ Typed'
           /\ channels[s] \in Streams
           /\ Len(pushes) \in Nat /\ Len(pushes) + 1 \in Pushes
           /\ queue' = [queue EXCEPT ![channels[s]] = Append(@, Len(pushes) + 1)]
           /\ DOMAIN pushes' = DOMAIN pushes \cup {Len(pushes) + 1}
           /\ \A p \in DOMAIN pushes : pushes'[p] = pushes[p] /\ p < Len(pushes) + 1
           /\ pushes'[Len(pushes) + 1].by = {d \in Streams : Served(d)}
           /\ pushes'[Len(pushes) + 1].sid = s /\ Len(pushes') = Len(pushes) + 1
           /\ UNCHANGED <<channels, lock, stream, open, tab, posts, screen, acts>>
<1> DEFINE e == [sid |-> s, chan |-> channels[s], by |-> {d \in Streams : Served(d)}]
           P == [sid: Sessions, chan: Streams, by: SUBSET Streams]
<1>1. channels[s] \in Streams /\ pushes \in Seq(P) /\ queue \in [Streams -> Seq(Pushes)]
  BY DEF Push, Typed, TypeOK, Maybe
<1>2. /\ UNCHANGED <<channels, lock, stream, open, tab, posts, screen, acts>>
      /\ queue' = [queue EXCEPT ![channels[s]] = Append(@, Len(pushes) + 1)]
      /\ pushes' = Append(pushes, e)
  BY DEF Push, Served
<1>3. e \in P
  BY <1>1
<1>4. Len(pushes) \in Nat /\ Len(pushes) + 1 \in Pushes
  BY <1>1, RemoteHubAssumption DEF Push, Pushes
<1>5. e.by = {d \in Streams : Served(d)} /\ e.sid = s
  OBVIOUS
<1> HIDE DEF e, P
<1>6. pushes' \in Seq(P)
  BY <1>1, <1>2, <1>3
<1>7. queue' \in [Streams -> Seq(Pushes)]
  <2>1. Append(queue[channels[s]], Len(pushes) + 1) \in Seq(Pushes)
    BY <1>1, <1>4
  <2> QED BY <1>1, <1>2, <2>1
<1>8. /\ Len(pushes') = Len(pushes) + 1
      /\ \A p \in 1 .. Len(pushes) : pushes'[p] = pushes[p]
      /\ pushes'[Len(pushes) + 1] = e
  BY <1>1, <1>2, <1>3
<1>9. DOMAIN pushes = 1 .. Len(pushes) /\ DOMAIN pushes' = 1 .. Len(pushes) + 1
  BY <1>1, <1>6, <1>8
<1>10. Typed'
  BY <1>2, <1>6, <1>7 DEF Typed, TypeOK, StreamOK, EsOK, P
<1>11. DOMAIN pushes' = DOMAIN pushes \cup {Len(pushes) + 1}
       /\ \A p \in DOMAIN pushes : p < Len(pushes) + 1
  BY <1>4, <1>9
<1> QED BY <1>1, <1>2, <1>4, <1>5, <1>8, <1>9, <1>10, <1>11

-----------------------------------------------------------------------------
(* Delivery.                                                                *)

LEMMA ItemsAreNumbers ==
    ASSUME Typed
    PROVE  /\ \A c \in Streams : queue[c] \in Seq(Nat) /\ Held(c) \subseteq Nat \ {0}
           /\ \A t \in Tabs : screen[t] \in Seq(Nat) /\ Seen(t) \subseteq Nat \ {0}
           /\ \A c \in Streams : stream[c].msg \in Nat
<1>1. ASSUME NEW q \in Seq(Pushes) PROVE q \in Seq(Nat) /\ Items(q) \subseteq Nat \ {0}
  <2>1. Pushes \subseteq Nat \ {0}
    BY RemoteHubAssumption DEF Pushes
  <2>2. q \in Seq(Nat)
    BY <2>1, SeqMonotonic
  <2>3. \A i \in DOMAIN q : q[i] \in Pushes
    OBVIOUS
  <2> QED BY <2>1, <2>2, <2>3 DEF Items
<1>2. \A c \in Streams : queue[c] \in Seq(Pushes) /\ stream[c].msg \in Pushes \cup {0}
  BY DEF Typed, TypeOK, Stream
<1>3. \A t \in Tabs : screen[t] \in Seq(Pushes)
  BY DEF Typed, TypeOK
<1>4. Pushes \cup {0} \subseteq Nat
  BY DEF Pushes
<1> QED BY <1>1, <1>2, <1>3, <1>4 DEF Held, Seen

\* A step that only takes away from what is to be delivered.
LEMMA LessToDeliver ==
    ASSUME Typed, Typed', Delivery, UNCHANGED <<pushes, screen>>,
           \A q \in Streams : Held(q)' \subseteq Held(q) /\ Ordered(queue[q])',
           \A d \in Streams : stream'[d].msg \in {stream[d].msg, 0},
           \A d \in Streams : \A q \in Sources(d)' : Held(q)' # {} => q \in Sources(d),
           \A d \in Streams, t \in Tabs : tab'[t].es = d /\ Served(d)' => tab[t].es = d,
           \A d \in Streams : Overtaken(d)'
    PROVE  Delivery'
<1>1. \A t \in Tabs : Seen(t)' = Seen(t) /\ Ordered(screen[t])' = Ordered(screen[t])
  BY DEF Seen, Items, Ordered
<1>2. Accepted'
  <2>1. \A c \in Streams : Held(c)' \subseteq DOMAIN pushes /\ stream'[c].msg \in {0} \cup DOMAIN pushes
    BY DEF Delivery, Accepted
  <2>2. \A t \in Tabs : Seen(t)' \subseteq DOMAIN pushes /\ Ordered(screen[t])'
    BY <1>1 DEF Delivery, Accepted
  <2> QED BY <2>1, <2>2 DEF Accepted
<1>3. OnePlace'
  <2>1. \A c \in Streams : 0 \notin Held(c)
    BY ItemsAreNumbers
  <2>2. \A t \in Tabs : 0 \notin Seen(t)
    BY ItemsAreNumbers
  <2> QED BY <1>1, <2>1, <2>2 DEF Delivery, OnePlace
<1>4. ASSUME NEW c \in Streams PROVE Ahead(c)'
  <2>1. ASSUME NEW q \in Sources(c)', NEW p \in Held(q)'
        PROVE  /\ c \in pushes[p].by /\ stream'[c].msg < p
               /\ \A t \in Tabs : tab'[t].es = c => \A r \in Seen(t) : r < p
    <3>1. q \in Streams /\ Served(c)'
      BY DEF Sources
    <3>2. q \in Sources(c) /\ p \in Held(q)
      BY <2>1, <3>1
    <3>3. /\ c \in pushes[p].by /\ stream[c].msg < p
          /\ \A t \in Tabs : tab[t].es = c => \A r \in Seen(t) : r < p
      BY <3>2 DEF Delivery, Ahead
    <3>4. p \in Nat /\ 0 < p
      BY <3>1, <3>2, ItemsAreNumbers
    <3>5. stream'[c].msg < p
      BY <3>3, <3>4
    <3> QED BY <3>1, <3>3, <3>5
  <2>2. ASSUME stream'[c].msg # 0
        PROVE  /\ c \in pushes[stream'[c].msg].by
               /\ \A t \in Tabs : tab'[t].es = c => \A r \in Seen(t) : r < stream'[c].msg
    <3>1. stream'[c].msg = stream[c].msg /\ stream[c].msg # 0
      BY <2>2
    <3>2. Served(c)'
      BY <2>2 DEF Typed, StreamOK, Served, Serving
    <3> QED BY <3>1, <3>2 DEF Delivery, Ahead
  <2> QED BY <1>1, <2>1, <2>2 DEF Ahead
<1> QED BY <1>2, <1>3, <1>4 DEF Delivery

LEMMA StillOvertaken ==
    ASSUME Typed, Typed', NEW d \in Streams, Overtaken(d),
           stream'[d].chan \in {stream[d].chan, None},
           \A c \in Streams : stream[c].phase # "unused" => stream'[c].sid = stream[c].sid,
           \A q \in Streams : Held(q)' \subseteq Held(q),
           \A s \in Sessions : channels'[s] \in {channels[s], None} \/ Held(channels[s])' = {}
    PROVE  Overtaken(d)'
<1>1. SUFFICES ASSUME stream'[d].chan # None PROVE Overtaken(d)'
  BY DEF Overtaken
<1>2. /\ stream[d].chan \in Streams /\ stream[d].chan # None /\ stream[d].sid \in Sessions
      /\ stream'[d].chan = stream[d].chan /\ stream'[d].sid = stream[d].sid
  <2>1. StreamOK(d) /\ stream[d] \in Stream /\ stream[d].chan # None
    BY <1>1 DEF Typed, TypeOK
  <2>2. stream[d].phase # "unused"
    BY <2>1 DEF StreamOK
  <2> QED BY <1>1, <2>1, <2>2 DEF StreamOK, Stream, Maybe
<1> PICK s \in Sessions, k \in Streams : s = stream[d].sid /\ k = stream[d].chan
  BY <1>2
<1>3. stream[k].sid = s /\ stream'[k].sid = s
  <2>1. stream[k].sid = s
    BY <1>2 DEF Overtaken
  <2>2. stream[k].phase # "unused"
    BY <2>1, RemoteHubAssumption DEF Typed, StreamOK
  <2> QED BY <2>1, <2>2
<1>4. ASSUME channels'[s] \notin {None, k}, NEW p \in Held(k)', NEW r \in Held(channels[s])'
      PROVE  p < r
  <2>1. channels'[s] = channels[s] /\ channels[s] \in Streams
    <3>1. r \in Items(queue'[channels'[s]])
      BY <1>4 DEF Held
    <3>2. Items(queue'[channels'[s]]) # {} /\ channels'[s] # None
      BY <1>4, <3>1
    <3>3. channels'[s] = channels[s]
      BY <3>2 DEF Held
    <3> QED BY <3>2, <3>3 DEF Typed, TypeOK, Maybe
  <2>2. p \in Held(k) /\ r \in Held(channels[s])
    <3>1. r \in Held(channels[s])'
      BY <1>4
    <3>2. PICK q \in Streams : q = channels'[s]
      BY <2>1
    <3>3. r \in Held(q)'
      BY <3>1, <3>2
    <3> QED BY <1>4, <2>1, <3>2, <3>3
  <2> QED BY <1>2, <1>4, <2>1, <2>2 DEF Overtaken
<1>5. stream'[d].chan = k /\ stream'[d].sid = s
  BY <1>2
<1>6. ASSUME channels'[stream'[d].sid] \notin {None, stream'[d].chan}, 
             NEW p, NEW r, p \in Held(stream[d].chan)', r \in Held(channels[stream[d].sid])'
      PROVE  p < r
  <2>1. p \in Held(k)' /\ r \in Held(channels[s])'
    BY <1>5, <1>6
  <2> QED BY <1>4, <1>5, <1>6, <2>1
<1> QED BY <1>3, <1>5, <1>6 DEF Overtaken

\* Nothing that the hub holds changes.
LEMMA SameHub ==
    ASSUME Typed, Typed', Delivery, UNCHANGED <<channels, queue, stream, pushes, screen>>,
           \A t \in Tabs : tab'[t].es \in {tab[t].es, None}
    PROVE  Delivery'
<1>1. \A q \in Streams : Held(q)' = Held(q) /\ Ordered(queue[q])'
  BY DEF Held, Items, Ordered, Delivery, Accepted
<1>2. \A d \in Streams : Sources(d)' = Sources(d) /\ Served(d)' = Served(d)
  BY DEF Sources, Served
<1>3. \A d \in Streams, t \in Tabs : tab'[t].es = d /\ Served(d)' => tab[t].es = d
  BY RemoteHubAssumption
<1>4. ASSUME NEW d \in Streams PROVE Overtaken(d)'
  <2>1. Overtaken(d)
    BY DEF Delivery
  <2> QED BY <1>1, <2>1, StillOvertaken
<1> QED BY <1>1, <1>2, <1>3, <1>4, LessToDeliver

LEMMA ConnectDelivers ==
    ASSUME Typed, Typed', Delivery, NEW t \in Tabs, NEW c \in Streams,
           Connects(t, c)
    PROVE  Delivery'
<1> PICK s \in Sessions : Asks(c, s)
  BY ConnectFacts
<1>1. stream' = [stream EXCEPT ![c] = [@ EXCEPT !.phase = "asked", !.sid = s]]
  BY DEF Asks
<1>2. /\ stream[c].phase = "unused"
      /\ tab' = [tab EXCEPT ![t].es = c]
      /\ UNCHANGED <<channels, queue, lock, pushes, screen, posts>>
  BY ConnectFacts
<1>3. /\ stream[c] \in Stream /\ stream \in [Streams -> Stream] /\ tab \in [Tabs -> Tab]
      /\ StreamOK(c)
  BY DEF Typed, TypeOK
<1>4. /\ stream'[c].phase = "asked" /\ stream'[c].chan = None /\ stream'[c].msg = 0
      /\ \A d \in Streams \ {c} : stream'[d] = stream[d]
  <2>1. stream'[c] = [stream[c] EXCEPT !.phase = "asked", !.sid = s]
    BY <1>1, <1>3
  <2>2. stream[c].chan = None /\ stream[c].msg = 0
    BY <1>2, <1>3 DEF StreamOK
  <2> QED BY <1>1, <1>3, <2>1, <2>2 DEF Stream
<1>5. \A q \in Streams : Held(q)' = Held(q) /\ Ordered(queue[q])'
  BY <1>2 DEF Held, Items, Ordered, Delivery, Accepted
<1>6. ~Served(c)' /\ Sources(c)' = {}
  BY <1>4 DEF Served, Serving, Sources
<1>7. ASSUME NEW d \in Streams \ {c} PROVE Sources(d)' = Sources(d) /\ Served(d)' = Served(d)
  BY <1>2, <1>4 DEF Sources, Served
<1>8. \A d \in Streams, u \in Tabs : tab'[u].es = d /\ Served(d)' => tab[u].es = d
  <2>1. \A u \in Tabs \ {t} : tab'[u] = tab[u]
    BY <1>2, <1>3
  <2>2. tab'[t].es = c
    BY <1>2, <1>3 DEF Tab
  <2> QED BY <1>6, <2>1, <2>2
<1>9. ASSUME NEW d \in Streams PROVE Overtaken(d)'
  <2>1. Overtaken(d)
    BY DEF Delivery
  <2>2. stream'[d].chan \in {stream[d].chan, None}
    BY <1>4
  <2>3. \A e \in Streams : stream[e].phase # "unused" => stream'[e].sid = stream[e].sid
    BY <1>2, <1>4
  <2> QED BY <1>2, <1>5, <2>1, <2>2, <2>3, StillOvertaken
<1>10. \A d \in Streams : stream'[d].msg \in {stream[d].msg, 0}
  BY <1>4
<1>11. \A d \in Streams : \A q \in Sources(d)' : q \in Sources(d)
  BY <1>6, <1>7
<1> QED BY <1>2, <1>5, <1>8, <1>9, <1>10, <1>11, LessToDeliver

LEMMA RestartDelivers ==
    ASSUME Typed, Typed', Delivery, Restart
    PROVE  Delivery'
<1>1. /\ \A c \in Streams : /\ stream'[c].sid = stream[c].sid
                            /\ stream'[c].msg = 0 /\ stream'[c].chan = None
                            /\ ~Served(c)'
      /\ UNCHANGED <<queue, lock, open, tab, posts, pushes, screen>>
  BY RestartTypes
<1>2. \A q \in Streams : Held(q)' = Held(q) /\ Ordered(queue[q])'
  BY <1>1 DEF Held, Items, Ordered, Delivery, Accepted
<1>3. \A d \in Streams : Sources(d)' = {} /\ Overtaken(d)'
  BY <1>1 DEF Sources, Overtaken
<1> QED BY <1>1, <1>2, <1>3, LessToDeliver

\* What a generator's steps share: its own stream changes, and no tab's EventSource.
LEMMA GeneratorFrame ==
    ASSUME Typed, NEW c \in Streams, Generator(c)
    PROVE  /\ stream[c] \in Stream /\ stream[c].sid \in Sessions /\ StreamOK(c)
           /\ \A d \in Streams \ {c} : stream'[d] = stream[d]
           /\ stream'[c].sid = stream[c].sid
           /\ UNCHANGED <<open, tab, posts, pushes, acts>>
<1>1. stream \in [Streams -> Stream] /\ stream[c] \in Stream /\ StreamOK(c)
  BY DEF Typed, TypeOK
<1>2. UNCHANGED <<open, tab, posts, pushes, acts>>
  BY DEF Generator, Register, Poll, Take, Timeout, Arrive, Notice, history, hub
<1>3. stream[c].sid \in Sessions
  <2>1. stream[c].phase \in Serving \cup {"asked"}
    BY DEF Generator, Register, Poll, Take, Timeout, Arrive, Notice, Serving
  <2> QED BY <1>1, <2>1 DEF StreamOK, Stream, Maybe, Serving
<1>4. stream'[c].sid = stream[c].sid /\ \A d \in Streams \ {c} : stream'[d] = stream[d]
  <2>1. CASE Register(c)
    <3>1. stream' = [stream EXCEPT ![c] = [stream[c] EXCEPT !.phase = "polling"]]
      BY <1>1, <2>1 DEF Register
    <3> QED BY <1>1, <3>1 DEF Stream
  <2>2. CASE Poll(c)
    <3>1. stream' = [stream EXCEPT ![c] = [stream[c] EXCEPT !.phase = "waiting",
                                                            !.chan = channels[stream[c].sid]]]
      BY <1>1, <2>2 DEF Poll
    <3> QED BY <1>1, <3>1 DEF Stream
  <2>3. CASE Take(c)
    <3>1. stream' = [stream EXCEPT ![c] =
              [stream[c] EXCEPT !.phase = "sending", !.msg = Head(queue[stream[c].chan]), !.chan = None]]
      BY <1>1, <2>3 DEF Take
    <3> QED BY <1>1, <3>1 DEF Stream
  <2>4. CASE Timeout(c)
    <3>1. stream' = [stream EXCEPT ![c] = [stream[c] EXCEPT !.phase = "polling", !.chan = None]]
      BY <1>1, <2>4 DEF Timeout
    <3> QED BY <1>1, <3>1 DEF Stream
  <2>5. CASE Arrive(c)
    <3>1. stream' = [stream EXCEPT ![c] = [stream[c] EXCEPT !.phase = "polling", !.msg = 0]]
      BY <1>1, <2>5 DEF Arrive
    <3> QED BY <1>1, <3>1 DEF Stream
  <2>6. CASE Notice(c)
    <3>1. stream' = [stream EXCEPT ![c] = [stream[c] EXCEPT !.phase = "over", !.chan = None, !.msg = 0]]
      BY <1>1, <2>6 DEF Notice, Over
    <3> QED BY <1>1, <3>1 DEF Stream
  <2> QED BY <2>1, <2>2, <2>3, <2>4, <2>5, <2>6 DEF Generator
<1> QED BY <1>1, <1>2, <1>3, <1>4

LEMMA ServedHasSession ==
    ASSUME Typed, NEW c \in Streams, Served(c)
    PROVE  stream[c].sid \in Sessions
<1>1. stream[c] \in Stream /\ StreamOK(c) /\ stream[c].phase # "unused"
  BY DEF Typed, TypeOK, Served, Serving
<1>2. stream[c].sid # None /\ stream[c].sid \in Maybe(Sessions)
  BY <1>1 DEF StreamOK, Stream
<1> QED BY <1>2 DEF Maybe

LEMMA SameQueues ==
    ASSUME Delivery, UNCHANGED queue
    PROVE  \A q \in Streams : Held(q)' = Held(q) /\ Ordered(queue[q])'
BY DEF Held, Items, Ordered, Delivery, Accepted

LEMMA RegisterDelivers ==
    ASSUME Typed, Typed', Delivery, NEW c \in Streams, Register(c)
    PROVE  Delivery'
<1>1. /\ stream[c] \in Stream /\ stream[c].sid \in Sessions /\ StreamOK(c)
      /\ \A d \in Streams \ {c} : stream'[d] = stream[d]
      /\ stream'[c].sid = stream[c].sid
      /\ UNCHANGED <<open, tab, posts, pushes, acts>>
  BY GeneratorFrame DEF Generator
<1> PICK s \in Sessions : s = stream[c].sid
  BY <1>1
<1>2. /\ stream[c].phase = "asked" /\ stream[c].chan = None /\ stream[c].msg = 0
      /\ stream'[c].chan = None /\ stream'[c].msg = 0
  <2>1. stream[c].phase = "asked" /\ stream[c].chan = None /\ stream[c].msg = 0
    BY <1>1 DEF Register, StreamOK
  <2>2. stream'[c] = [stream[c] EXCEPT !.phase = "polling"]
    BY DEF Register, Typed, TypeOK
  <2> QED BY <1>1, <2>1, <2>2 DEF Stream
<1>3. /\ channels'[s] = c /\ \A z \in Sessions \ {s} : channels'[z] = channels[z]
      /\ queue'[c] = <<>> /\ \A q \in Streams \ {c} : queue'[q] = queue[q]
      /\ UNCHANGED screen
  BY DEF Register, history, Typed, TypeOK
<1>4. \A q \in Streams : Held(q)' \subseteq Held(q) /\ Ordered(queue[q])'
  <2>1. Held(c)' = {} /\ Ordered(queue[c])'
    BY <1>3, EmptyItems DEF Held
  <2>2. \A q \in Streams \ {c} : Held(q)' = Held(q) /\ Ordered(queue[q])'
    BY <1>3 DEF Held, Items, Ordered, Delivery, Accepted
  <2> QED BY <2>1, <2>2
<1>5. Held(c)' = {}
  BY <1>3, EmptyItems DEF Held
<1>6. ASSUME NEW d \in Streams, NEW q \in Sources(d)', Held(q)' # {}
      PROVE  q \in Sources(d)
  <2>1. q \in Streams /\ q # c /\ Served(d)' /\ q \in {stream'[d].chan, channels'[stream'[d].sid]}
    BY <1>5, <1>6 DEF Sources
  <2>2. d # c
    BY <1>1, <1>2, <1>3, <2>1, RemoteHubAssumption
  <2>3. stream'[d] = stream[d] /\ Served(d)
    BY <1>1, <2>1, <2>2 DEF Served
  <2>4. stream[d].sid \in Sessions
    BY <2>3, ServedHasSession
  <2>5. stream[d].sid # s => channels'[stream[d].sid] = channels[stream[d].sid]
    BY <1>3, <2>4
  <2> QED BY <1>3, <2>1, <2>3, <2>5 DEF Sources
<1>7. ASSUME NEW d \in Streams PROVE Overtaken(d)'
  <2>1. Overtaken(d)
    BY DEF Delivery
  <2>2. stream'[d].chan \in {stream[d].chan, None}
    BY <1>1, <1>2
  <2>3. \A e \in Streams : stream[e].phase # "unused" => stream'[e].sid = stream[e].sid
    BY <1>1
  <2>4. \A z \in Sessions : channels'[z] \in {channels[z], None} \/ Held(channels[z])' = {}
    <3>1. Items(queue'[channels'[s]]) = {}
      BY <1>3, EmptyItems
    <3> QED BY <1>3, <3>1 DEF Held
  <2> QED BY <1>4, <2>1, <2>2, <2>3, <2>4, StillOvertaken
<1>8. \A d \in Streams : stream'[d].msg \in {stream[d].msg, 0}
  BY <1>1, <1>2
<1> QED BY <1>1, <1>3, <1>4, <1>6, <1>7, <1>8, LessToDeliver

\* A poll that begins, one that times out, and the end of a stream.
LEMMA IdleDelivers ==
    ASSUME Typed, Typed', Delivery, NEW c \in Streams, Poll(c) \/ Timeout(c) \/ Notice(c)
    PROVE  Delivery'
<1>1. /\ stream[c] \in Stream /\ stream[c].sid \in Sessions /\ StreamOK(c)
      /\ \A d \in Streams \ {c} : stream'[d] = stream[d]
      /\ stream'[c].sid = stream[c].sid
      /\ UNCHANGED <<open, tab, posts, pushes, acts>>
  BY GeneratorFrame DEF Generator
<1> PICK s \in Sessions : s = stream[c].sid
  BY <1>1
<1>2. /\ UNCHANGED <<queue, screen>> /\ \A z \in Sessions : channels'[z] \in {channels[z], None}
      /\ Served(c)
  BY DEF Poll, Timeout, Notice, hub, history, Typed, TypeOK, Served, Serving
<1>3. \A q \in Streams : Held(q)' = Held(q) /\ Ordered(queue[q])'
  BY <1>2, SameQueues
<1>4. stream'[c].msg \in {stream[c].msg, 0}
      /\ \/ stream'[c].chan = None
         \/ Poll(c) /\ stream'[c].chan = channels[s] /\ channels'[s] = channels[s]
  <2>1. CASE Poll(c)
    <3>1. stream'[c] = [stream[c] EXCEPT !.phase = "waiting", !.chan = channels[s]]
      BY <1>1, <2>1 DEF Poll, Typed, TypeOK
    <3>2. stream'[c].chan = channels[s] /\ stream'[c].msg = stream[c].msg
      BY <1>1, <3>1 DEF Stream
    <3> QED BY <2>1, <3>2 DEF Poll, hub
  <2>2. CASE Timeout(c)
    <3>1. stream'[c] = [stream[c] EXCEPT !.phase = "polling", !.chan = None]
      BY <1>1, <2>2 DEF Timeout, Typed, TypeOK
    <3> QED BY <1>1, <3>1 DEF Stream
  <2>3. CASE Notice(c)
    <3>1. stream'[c] = [stream[c] EXCEPT !.phase = "over", !.chan = None, !.msg = 0]
      BY <1>1, <2>3 DEF Notice, Over, Typed, TypeOK
    <3> QED BY <1>1, <3>1 DEF Stream
  <2> QED BY <2>1, <2>2, <2>3
<1>5. ASSUME NEW d \in Streams, NEW q \in Sources(d)' PROVE q \in Sources(d)
  <2>1. q \in Streams /\ Served(d)' /\ q \in {stream'[d].chan, channels'[stream'[d].sid]}
    BY <1>5 DEF Sources
  <2>2. CASE d = c
    BY <1>1, <1>2, <1>4, <2>1, <2>2, RemoteHubAssumption DEF Sources
  <2>3. CASE d # c
    <3>1. stream'[d] = stream[d] /\ Served(d)
      BY <1>1, <2>1, <2>3 DEF Served
    <3>2. stream[d].sid \in Sessions
      BY <3>1, ServedHasSession
    <3> QED BY <1>2, <2>1, <3>1, <3>2, RemoteHubAssumption DEF Sources
  <2> QED BY <2>2, <2>3
<1>6. ASSUME NEW d \in Streams PROVE Overtaken(d)'
  <2>1. Overtaken(d)
    BY DEF Delivery
  <2>2. \A e \in Streams : stream[e].phase # "unused" => stream'[e].sid = stream[e].sid
    BY <1>1
  <2>3. CASE stream'[d].chan \in {stream[d].chan, None}
    BY <1>2, <1>3, <2>1, <2>2, <2>3, StillOvertaken
  <2>4. CASE stream'[d].chan \notin {stream[d].chan, None}
    <3>1. d = c /\ stream'[c].chan = channels[s] /\ channels'[s] = channels[s]
      BY <1>1, <1>4, <2>4
    <3>2. channels[s] \in Streams /\ stream[channels[s]].sid = s
      BY <2>4, <3>1 DEF Typed, TypeOK, Maybe
    <3>3. stream'[channels[s]].sid = s
      BY <1>1, <3>2
    <3> QED BY <1>1, <3>1, <3>3 DEF Overtaken
  <2> QED BY <2>3, <2>4
<1>7. \A d \in Streams : stream'[d].msg \in {stream[d].msg, 0}
  BY <1>1, <1>4
<1> QED BY <1>1, <1>2, <1>3, <1>5, <1>6, <1>7, LessToDeliver

LEMMA TakeDelivers ==
    ASSUME Typed, Typed', Delivery, NEW c \in Streams, Take(c)
    PROVE  Delivery'
<1>1. /\ stream[c] \in Stream /\ stream[c].sid \in Sessions /\ StreamOK(c)
      /\ \A d \in Streams \ {c} : stream'[d] = stream[d]
      /\ stream'[c].sid = stream[c].sid
      /\ UNCHANGED <<open, tab, posts, pushes, acts>>
  BY GeneratorFrame DEF Generator
<1> PICK s \in Sessions : s = stream[c].sid
  BY <1>1
<1>2. stream[c].phase = "waiting" /\ stream[c].chan \in Streams /\ stream[c].msg = 0
  BY <1>1 DEF Take, StreamOK, Stream, Maybe
<1> PICK k \in Streams : k = stream[c].chan
  BY <1>2
<1>3. queue[k] \in Seq(Nat) /\ queue[k] # <<>> /\ Ordered(queue[k])
  BY <1>2, ItemsAreNumbers DEF Take, Delivery, Accepted
<1> PICK m : m = Head(queue[k])
  OBVIOUS
<1>4. /\ queue'[k] = Tail(queue[k]) /\ \A q \in Streams \ {k} : queue'[q] = queue[q]
      /\ UNCHANGED <<channels, screen>>
  BY DEF Take, history, Typed, TypeOK
<1>5. stream'[c].msg = m /\ stream'[c].chan = None /\ Served(c) /\ Served(c)'
  <2>1. stream'[c] = [stream[c] EXCEPT !.phase = "sending", !.msg = m, !.chan = None]
    BY DEF Take, Typed, TypeOK
  <2> QED BY <1>1, <1>2, <2>1 DEF Stream, Served, Serving
<1>6. /\ m \in Held(k) /\ Held(k)' = Held(k) \ {m}
      /\ \A r \in Held(k)' : m < r
      /\ Ordered(queue[k])'
  BY <1>3, <1>4, TailItems DEF Held, Ordered
<1>7. \A q \in Streams : q # k => Held(q)' = Held(q) /\ Ordered(queue[q])'
  BY <1>4 DEF Held, Items, Ordered, Delivery, Accepted
<1>8. \A t \in Tabs : Seen(t)' = Seen(t) /\ Ordered(screen[t])'
  BY <1>4 DEF Seen, Items, Ordered, Delivery, Accepted
<1>9. m \in Nat /\ m # 0 /\ m \in DOMAIN pushes
  BY <1>6, ItemsAreNumbers DEF Delivery, Accepted
<1>10. Accepted'
  <2>1. ASSUME NEW d \in Streams
        PROVE  /\ Held(d)' \subseteq DOMAIN pushes /\ Ordered(queue[d])'
               /\ stream'[d].msg \in {0} \cup DOMAIN pushes
    BY <1>1, <1>5, <1>6, <1>7, <1>9 DEF Delivery, Accepted
  <2> QED BY <1>1, <1>8, <2>1 DEF Accepted, Delivery
<1>11. OnePlace'
  <2>1. \A d \in Streams : Held(d)' \subseteq Held(d) /\ m \notin Held(d)'
    BY <1>6, <1>7 DEF Delivery, OnePlace
  <2>2. \A d \in Streams \ {c} : stream'[d].msg = stream[d].msg /\ stream[d].msg # m
    BY <1>1, <1>6 DEF Delivery, OnePlace
  <2>3. \A t \in Tabs : m \notin Seen(t)
    BY <1>6 DEF Delivery, OnePlace
  <2>4. \A d, e \in Streams : stream'[e].msg \notin Held(d)'
    BY <1>5, <2>1, <2>2 DEF Delivery, OnePlace
  <2>5. \A d, e \in Streams : d # e /\ stream'[d].msg # 0 => stream'[d].msg # stream'[e].msg
    BY <1>5, <2>2 DEF Delivery, OnePlace
  <2>6. \A t \in Tabs, d \in Streams : Seen(t) \cap Held(d)' = {} /\ stream'[d].msg \notin Seen(t)
    BY <1>5, <2>1, <2>2, <2>3 DEF Delivery, OnePlace
  <2> QED BY <1>8, <2>1, <2>4, <2>5, <2>6 DEF OnePlace, Delivery
<1>12. k \in Sources(c) /\ Ahead(c) /\ Overtaken(c)
  BY <1>5 DEF Sources, Delivery
<1>13. /\ c \in pushes[m].by
       /\ \A t \in Tabs : tab[t].es = c => \A r \in Seen(t) : r < m
  BY <1>6, <1>12 DEF Ahead
<1>14. Ahead(c)'
  <2>1. ASSUME NEW q \in Sources(c)', NEW p \in Held(q)'
        PROVE  /\ c \in pushes[p].by /\ m < p
               /\ \A t \in Tabs : tab[t].es = c => \A r \in Seen(t) : r < p
    <3>1. q \in Streams /\ q = channels[s]
      BY <1>1, <1>4, <1>5, <2>1, RemoteHubAssumption DEF Sources
    <3>2. q \in Sources(c)
      BY <1>5, <3>1 DEF Sources
    <3>3. p \in Held(q)
      BY <1>6, <1>7, <2>1, <3>1
    <3>4. m < p
      <4>1. CASE q = k
        BY <1>6, <2>1, <4>1
      <4>2. CASE q # k
        <5>1. q \notin {None, k}
          BY <3>1, <4>2, RemoteHubAssumption
        <5> QED BY <1>2, <1>6, <1>12, <3>1, <3>3, <5>1, RemoteHubAssumption DEF Overtaken
      <4> QED BY <4>1, <4>2
    <3> QED BY <1>12, <3>2, <3>3, <3>4 DEF Ahead
  <2> QED BY <1>1, <1>5, <1>8, <1>13, <2>1 DEF Ahead
<1>15. ASSUME NEW d \in Streams \ {c} PROVE Ahead(d)'
  <2>1. stream'[d] = stream[d] /\ Sources(d)' = Sources(d) /\ Ahead(d)
    BY <1>1, <1>4 DEF Sources, Served, Delivery
  <2>2. \A q \in Sources(d) : Held(q)' \subseteq Held(q)
    BY <1>6, <1>7 DEF Sources
  <2> QED BY <1>1, <1>8, <2>1, <2>2 DEF Ahead
<1>16. ASSUME NEW d \in Streams PROVE Overtaken(d)'
  <2>1. Overtaken(d)
    BY DEF Delivery
  <2>2. \A e \in Streams : stream[e].phase # "unused" => stream'[e].sid = stream[e].sid
    BY <1>1
  <2>3. stream'[d].chan \in {stream[d].chan, None}
    BY <1>1, <1>5
  <2>4. \A q \in Streams : Held(q)' \subseteq Held(q)
    BY <1>6, <1>7
  <2> QED BY <1>4, <2>1, <2>2, <2>3, <2>4, StillOvertaken
<1> QED BY <1>10, <1>11, <1>14, <1>15, <1>16 DEF Delivery

LEMMA ArriveDelivers ==
    ASSUME Typed, Typed', Delivery, NEW c \in Streams, Arrive(c)
    PROVE  Delivery'
<1>1. /\ stream[c] \in Stream /\ stream[c].sid \in Sessions /\ StreamOK(c)
      /\ \A d \in Streams \ {c} : stream'[d] = stream[d]
      /\ stream'[c].sid = stream[c].sid
      /\ UNCHANGED <<open, tab, posts, pushes, acts>>
  BY GeneratorFrame DEF Generator
<1> PICK m : m = stream[c].msg
  OBVIOUS
<1>2. /\ UNCHANGED <<channels, queue>>
      /\ stream[c].phase = "sending" /\ stream[c].chan = None /\ m # 0
      /\ \A t \in Tabs : screen'[t] = IF c \in open /\ tab[t].es = c
                                      THEN Append(screen[t], m) ELSE screen[t]
  BY <1>1 DEF Arrive, hub, StreamOK
<1>3. stream'[c].msg = 0 /\ stream'[c].chan = None /\ Served(c) /\ Served(c)'
  <2>1. stream'[c] = [stream[c] EXCEPT !.phase = "polling", !.msg = 0]
    BY DEF Arrive, Typed, TypeOK
  <2> QED BY <1>1, <1>2, <2>1 DEF Stream, Served, Serving
<1>4. m \in Nat /\ m \in DOMAIN pushes /\ \A q \in Streams : m \notin Held(q)
  BY <1>2, ItemsAreNumbers DEF Delivery, Accepted, OnePlace
<1>5. \A q \in Streams : Held(q)' = Held(q) /\ Ordered(queue[q])'
  BY <1>2, SameQueues
<1>6. /\ Ahead(c) /\ c \in pushes[m].by
      /\ \A t \in Tabs : m \notin Seen(t)
      /\ \A t \in Tabs : tab[t].es = c => \A r \in Seen(t) : r < m
  BY <1>2 DEF Delivery, Ahead, OnePlace
<1>7. ASSUME NEW t \in Tabs
      PROVE  /\ Ordered(screen[t])'
             /\ \/ Seen(t)' = Seen(t)
                \/ tab[t].es = c /\ Seen(t)' = Seen(t) \cup {m}
  <2>1. screen[t] \in Seq(Nat) /\ Ordered(screen[t])
    BY ItemsAreNumbers DEF Delivery, Accepted
  <2>2. CASE c \in open /\ tab[t].es = c
    <3>1. screen'[t] = Append(screen[t], m)
      BY <1>2, <2>2
    <3>2. \A r \in Items(screen[t]) : r < m
      BY <1>6, <2>2 DEF Seen
    <3>3. Items(Append(screen[t], m)) = Items(screen[t]) \cup {m} /\ Ordered(Append(screen[t], m))
      BY <1>4, <2>1, <3>2, AppendItems
    <3> QED BY <2>2, <3>1, <3>3 DEF Seen, Ordered
  <2>3. CASE ~(c \in open /\ tab[t].es = c)
    <3>1. screen'[t] = screen[t]
      BY <1>2, <2>3
    <3> QED BY <2>1, <3>1 DEF Seen, Ordered, Items
  <2> QED BY <2>2, <2>3
<1>8. Accepted'
  <2>1. \A t \in Tabs : Seen(t)' \subseteq DOMAIN pushes /\ Ordered(screen[t])'
    BY <1>4, <1>7 DEF Delivery, Accepted
  <2>2. \A d \in Streams : stream'[d].msg \in {0} \cup DOMAIN pushes
    BY <1>1, <1>3 DEF Delivery, Accepted
  <2>3. \A d \in Streams : Held(d)' \subseteq DOMAIN pushes /\ Ordered(queue[d])'
    BY <1>5 DEF Delivery, Accepted
  <2> QED BY <1>1, <2>1, <2>2, <2>3 DEF Accepted
<1>9. OnePlace'
  <2>1. \A d \in Streams : stream'[d].msg # m /\ stream'[d].msg \in {stream[d].msg, 0}
    BY <1>1, <1>2, <1>3 DEF Delivery, OnePlace
  <2>2. \A d \in Streams : 0 \notin Held(d)
    BY ItemsAreNumbers
  <2>3. \A t \in Tabs : 0 \notin Seen(t)
    BY ItemsAreNumbers
  <2>4. \A d, e \in Streams : stream'[e].msg \notin Held(d)'
    BY <1>5, <2>1, <2>2 DEF Delivery, OnePlace
  <2>5. \A d, e \in Streams : d # e /\ stream'[d].msg # 0 => stream'[d].msg # stream'[e].msg
    BY <1>1, <1>3 DEF Delivery, OnePlace
  <2>6. ASSUME NEW t \in Tabs, NEW d \in Streams
        PROVE  Seen(t)' \cap Held(d)' = {} /\ stream'[d].msg \notin Seen(t)'
    <3>1. Seen(t)' \subseteq Seen(t) \cup {m}
      BY <1>7
    <3>2. Seen(t) \cap Held(d) = {} /\ stream[d].msg \notin Seen(t)
      BY DEF Delivery, OnePlace
    <3> QED BY <1>4, <1>5, <2>1, <2>3, <3>1, <3>2
  <2>7. ASSUME NEW t \in Tabs, NEW u \in Tabs, t # u PROVE Seen(t)' \cap Seen(u)' = {}
    <3>1. Seen(t) \cap Seen(u) = {}
      BY <2>7 DEF Delivery, OnePlace
    <3>2. ~(tab[t].es = c /\ tab[u].es = c)
      BY <2>7, RemoteHubAssumption DEF Typed, EsOK
    <3> QED BY <1>6, <1>7, <3>1, <3>2
  <2>8. \A d, e \in Streams : d # e => Held(d)' \cap Held(e)' = {}
    BY <1>5 DEF Delivery, OnePlace
  <2> QED BY <2>4, <2>5, <2>6, <2>7, <2>8 DEF OnePlace
<1>10. \A d \in Streams : Sources(d)' = Sources(d) /\ Sources(d) \subseteq Streams
  <2>1. Sources(c)' = Sources(c)
    BY <1>1, <1>2, <1>3 DEF Sources
  <2>2. \A d \in Streams \ {c} : Sources(d)' = Sources(d)
    BY <1>1, <1>2 DEF Sources, Served
  <2> QED BY <2>1, <2>2 DEF Sources
<1>11. ASSUME NEW d \in Streams PROVE Ahead(d)'
  <2>1. Ahead(d)
    BY DEF Delivery
  <2>2. ASSUME NEW q \in Sources(d)', NEW p \in Held(q)'
        PROVE  /\ d \in pushes[p].by /\ stream'[d].msg < p
               /\ \A t \in Tabs : tab[t].es = d => \A r \in Seen(t)' : r < p
    <3>1. q \in Sources(d) /\ p \in Held(q) /\ q \in Streams
      BY <1>5, <1>10, <2>2
    <3>2. /\ d \in pushes[p].by /\ stream[d].msg < p
          /\ \A t \in Tabs : tab[t].es = d => \A r \in Seen(t) : r < p
      BY <2>1, <3>1 DEF Ahead
    <3>3. stream'[d].msg < p
      <4>1. p \in Nat /\ 0 < p
        BY <3>1, ItemsAreNumbers
      <4> QED BY <1>1, <1>3, <3>2, <4>1
    <3>4. ASSUME NEW t \in Tabs, tab[t].es = d, NEW r \in Seen(t)' PROVE r < p
      <4>1. CASE r \in Seen(t)
        BY <3>2, <3>4, <4>1
      <4>2. CASE r \notin Seen(t)
        <5>1. tab[t].es = c /\ r = m
          BY <1>7, <3>4, <4>2
        <5> QED BY <3>2, <3>4, <5>1
      <4> QED BY <4>1, <4>2
    <3> QED BY <3>2, <3>3, <3>4
  <2>3. ASSUME stream'[d].msg # 0
        PROVE  /\ d \in pushes[stream'[d].msg].by
               /\ \A t \in Tabs : tab[t].es = d => \A r \in Seen(t)' : r < stream'[d].msg
    <3>1. d # c /\ stream'[d] = stream[d] /\ stream[d].msg # 0
      BY <1>1, <1>3, <2>3
    <3>2. \A t \in Tabs : tab[t].es = d => Seen(t)' = Seen(t)
      BY <1>7, <3>1
    <3> QED BY <2>1, <3>1, <3>2 DEF Ahead
  <2> QED BY <1>1, <2>2, <2>3 DEF Ahead
<1>12. ASSUME NEW d \in Streams PROVE Overtaken(d)'
  <2>1. Overtaken(d)
    BY DEF Delivery
  <2>2. \A e \in Streams : stream[e].phase # "unused" => stream'[e].sid = stream[e].sid
    BY <1>1
  <2>3. stream'[d].chan \in {stream[d].chan, None}
    BY <1>1, <1>3
  <2> QED BY <1>2, <1>5, <2>1, <2>2, <2>3, StillOvertaken
<1> QED BY <1>8, <1>9, <1>11, <1>12 DEF Delivery

LEMMA PushDelivers ==
    ASSUME Typed, Typed', Delivery, NEW s \in Sessions, Push(s)
    PROVE  Delivery'
<1> PICK k, n : k = channels[s] /\ n = Len(pushes) + 1
  OBVIOUS
<1>1. /\ k \in Streams /\ n \in Pushes /\ Len(pushes) \in Nat
      /\ queue' = [queue EXCEPT ![k] = Append(@, n)]
      /\ DOMAIN pushes' = DOMAIN pushes \cup {n}
      /\ \A p \in DOMAIN pushes : pushes'[p] = pushes[p] /\ p < n
      /\ pushes'[n].by = {d \in Streams : Served(d)}
      /\ UNCHANGED <<channels, stream, tab, screen>>
  BY PushTypes
<1>2. n \in Nat /\ n # 0 /\ n \notin DOMAIN pushes
  BY <1>1
<1>3. queue \in [Streams -> Seq(Pushes)]
  BY DEF Typed, TypeOK
<1>4. Held(k)' = Held(k) \cup {n} /\ Ordered(queue[k])'
  <2>1. queue[k] \in Seq(Nat) /\ Ordered(queue[k]) /\ \A r \in Items(queue[k]) : r < n
    BY <1>1, ItemsAreNumbers DEF Delivery, Accepted, Held
  <2>2. queue'[k] = Append(queue[k], n)
    BY <1>1, <1>3
  <2>3. Items(Append(queue[k], n)) = Items(queue[k]) \cup {n} /\ Ordered(Append(queue[k], n))
    BY <1>2, <2>1, AppendItems
  <2> QED BY <2>2, <2>3 DEF Held, Ordered
<1>5. ASSUME NEW q \in Streams \ {k} PROVE Held(q)' = Held(q) /\ Ordered(queue[q])'
  <2>1. queue'[q] = queue[q]
    BY <1>1, <1>3
  <2> QED BY <2>1 DEF Held, Items, Ordered, Delivery, Accepted
<1>6. \A t \in Tabs : Seen(t)' = Seen(t) /\ Ordered(screen[t])'
  BY <1>1 DEF Seen, Items, Ordered, Delivery, Accepted
<1>7. /\ \A q \in Streams : \A p \in Held(q) : p < n /\ p # n
      /\ \A t \in Tabs : \A p \in Seen(t) : p < n /\ p # n
      /\ \A d \in Streams : stream[d].msg < n /\ stream[d].msg # n
  <2>1. 0 < n
    BY <1>1
  <2> QED BY <1>1, <1>2, <2>1 DEF Delivery, Accepted
<1>8. Accepted'
  <2>1. \A c \in Streams : Held(c)' \subseteq DOMAIN pushes' /\ Ordered(queue[c])'
    BY <1>1, <1>4, <1>5 DEF Delivery, Accepted
  <2>2. \A c \in Streams : stream'[c].msg \in {0} \cup DOMAIN pushes'
    BY <1>1 DEF Delivery, Accepted
  <2>3. \A t \in Tabs : Seen(t)' \subseteq DOMAIN pushes' /\ Ordered(screen[t])'
    BY <1>1, <1>6 DEF Delivery, Accepted
  <2> QED BY <2>1, <2>2, <2>3 DEF Accepted
<1>9. OnePlace'
  <2>1. \A d \in Streams : Held(d)' \subseteq Held(d) \cup {n}
    BY <1>4, <1>5
  <2>2. ASSUME NEW c \in Streams, NEW d \in Streams, c # d PROVE Held(c)' \cap Held(d)' = {}
    <3>1. Held(c) \cap Held(d) = {}
      BY <2>2 DEF Delivery, OnePlace
    <3>2. Held(c)' = Held(c) \/ Held(d)' = Held(d)
      BY <1>5, <2>2
    <3> QED BY <1>4, <1>5, <1>7, <2>2, <3>1, <3>2
  <2>3. \A c, d \in Streams : stream[d].msg \notin Held(c)'
    BY <1>7, <2>1 DEF Delivery, OnePlace
  <2>4. \A t \in Tabs, c \in Streams : Seen(t) \cap Held(c)' = {}
    BY <1>7, <2>1 DEF Delivery, OnePlace
  <2>5. UNCHANGED stream
    BY <1>1
  <2> QED BY <1>6, <2>2, <2>3, <2>4, <2>5 DEF Delivery, OnePlace
<1>10. ASSUME NEW d \in Streams PROVE Ahead(d)'
  <2>1. Ahead(d) /\ Sources(d)' = Sources(d)
    BY <1>1 DEF Delivery, Sources, Served
  <2>2. ASSUME NEW q \in Sources(d), NEW p \in Held(q)'
        PROVE  /\ d \in pushes'[p].by /\ stream[d].msg < p
               /\ \A t \in Tabs : tab[t].es = d => \A r \in Seen(t) : r < p
    <3>1. q \in Streams /\ Served(d)
      BY DEF Sources
    <3>2. CASE p = n
      BY <1>1, <1>7, <3>1, <3>2
    <3>3. CASE p # n
      <4>1. p \in Held(q)
        BY <1>4, <1>5, <2>2, <3>1, <3>3
      <4>2. p \in DOMAIN pushes
        BY <3>1, <4>1 DEF Delivery, Accepted
      <4> QED BY <1>1, <2>1, <2>2, <4>1, <4>2 DEF Ahead
    <3> QED BY <3>2, <3>3
  <2>3. ASSUME stream[d].msg # 0
        PROVE  /\ d \in pushes'[stream[d].msg].by
               /\ \A t \in Tabs : tab[t].es = d => \A r \in Seen(t) : r < stream[d].msg
    <3>1. stream[d].msg \in DOMAIN pushes
      BY <2>3 DEF Delivery, Accepted
    <3> QED BY <1>1, <2>1, <2>3, <3>1 DEF Ahead
  <2>4. UNCHANGED <<stream, tab>>
    BY <1>1
  <2> QED BY <1>6, <2>1, <2>2, <2>3, <2>4 DEF Ahead
<1>11. ASSUME NEW d \in Streams PROVE Overtaken(d)'
  <2>1. SUFFICES ASSUME stream[d].chan # None PROVE Overtaken(d)'
    BY <1>1 DEF Overtaken
  <2>2. StreamOK(d) /\ stream[d] \in Stream /\ stream[d].chan \in Streams
    BY <2>1 DEF Typed, TypeOK, Stream, Maybe
  <2>3. Served(d)
    BY <2>1, <2>2 DEF StreamOK, Served, Serving
  <2>4. stream[d].sid \in Sessions
    BY <2>3, ServedHasSession
  <2> PICK z \in Sessions, h \in Streams : z = stream[d].sid /\ h = stream[d].chan
    BY <2>2, <2>4
  <2>5. stream[h].sid = z
    BY <2>1 DEF Delivery, Overtaken
  <2>6. ASSUME NEW g \in Streams, g = channels[z], g # h, NEW p \in Held(h)', NEW r \in Held(g)'
        PROVE  p < r
    <3>1. p \in Held(h)
      <4>1. CASE h = k
        <5>1. z = s
          BY <1>1, <2>5, <4>1, RemoteHubAssumption DEF Typed, TypeOK
        <5> QED BY <2>6, <4>1, <5>1
      <4>2. CASE h # k
        BY <1>5, <2>6, <4>2
      <4> QED BY <4>1, <4>2
    <3>2. CASE r = n
      BY <1>7, <3>1, <3>2
    <3>3. CASE r # n
      <4>1. r \in Held(g)
        BY <1>4, <1>5, <2>6, <3>3
      <4>2. Overtaken(d) /\ g # None
        BY <2>6, RemoteHubAssumption DEF Delivery
      <4> QED BY <2>1, <2>6, <3>1, <4>1, <4>2 DEF Overtaken
    <3> QED BY <3>2, <3>3
  <2>7. ASSUME channels[z] \notin {None, h}, NEW p \in Held(h)', NEW r, r \in Items(queue'[channels[z]])
        PROVE  p < r
    <3>1. PICK g \in Streams : g = channels[z]
      BY <2>7 DEF Typed, TypeOK, Maybe
    <3> QED BY <2>6, <2>7, <3>1 DEF Held
  <2>8. \A p \in Held(h)' : p \in Items(queue'[h])
    BY DEF Held
  <2> QED BY <1>1, <2>5, <2>7 DEF Overtaken, Held
<1> QED BY <1>8, <1>9, <1>10, <1>11 DEF Delivery

-----------------------------------------------------------------------------
(* The edit lock.                                                           *)

LEMMA LockNumbers ==
    ASSUME Typed, NEW c \in Streams, NEW t \in Tabs
    PROVE  /\ lock[c] \in 0 .. LockTTL /\ lock[c] \in Nat
           /\ tab[t].since \in 0 .. BeatEvery /\ tab[t].since \in Nat
           /\ tab[t].sid \in Sessions /\ tab[t].got \in BOOLEAN
BY Numbers DEF Typed, TypeOK, Tab

\* A channel backs a tab still when the streams' sessions, and the tab's lock, are the same.
LEMMA StillBacked ==
    ASSUME NEW t \in Tabs, NEW c \in Streams, Backed(t, c), Typed,
           \A d \in Streams : stream[d].sid # None => stream'[d].sid = stream[d].sid,
           Registered(c)', tab'[t].sid = tab[t].sid,
           channels'[tab[t].sid] = c => channels[tab[t].sid] = c,
           tab[t].frozen => tab'[t].frozen,
           Fresh(t, c) => Fresh(t, c)'
    PROVE  Backed(t, c)'
<1>1. stream[c].sid = tab[t].sid /\ tab[t].sid # None
  BY LockNumbers, RemoteHubAssumption DEF Backed
<1>2. stream'[c].sid = tab'[t].sid
  BY <1>1
<1>3. Alone(c)' => Alone(c)
  <2>1. ASSUME NEW d \in Streams \ {c}, stream[d].sid = stream[c].sid
        PROVE  stream'[d].sid = stream'[c].sid
    BY <1>1, <2>1
  <2> QED BY <2>1 DEF Alone
<1> QED BY <1>2, <1>3 DEF Backed

LEMMA SameLock ==
    ASSUME NEW t \in Tabs, NEW c \in Streams, UNCHANGED <<posts, tab>>, lock'[c] = lock[c]
    PROVE  /\ Fresh(t, c) => Fresh(t, c)'
           /\ ReleaseComing(t)' = ReleaseComing(t)
BY DEF Fresh, Coming, ReleaseComing

LEMMA PostedFacts ==
    ASSUME Typed, NEW t \in Tabs, NEW action \in {"acquire", "release"},
           posts' \in {posts, Posted(t, action)}
    PROVE  /\ \A u \in Tabs \ {t} : ReleaseComing(u)' => ReleaseComing(u)
           /\ action = "acquire" => (ReleaseComing(t)' => ReleaseComing(t))
           /\ \A j \in DOMAIN posts : j \in DOMAIN posts' /\ posts'[j] = posts[j]
           /\ posts' # posts =>
                 \E j \in DOMAIN posts' :
                    posts'[j] = [tab |-> t, sid |-> RemoteId(t), action |-> action]
<1> DEFINE m == [tab |-> t, sid |-> RemoteId(t), action |-> action]
<1>1. posts \in Seq(Post) /\ Len(posts) \in Nat /\ DOMAIN posts = 1 .. Len(posts)
  BY DEF Typed, TypeOK
<1>2. posts' = posts \/ posts' = Append(posts, m)
  BY DEF Posted
<1>3. m.tab = t /\ m.action = action
  OBVIOUS
<1> HIDE DEF m
<1>4. CASE posts' = posts
  BY <1>1, <1>4 DEF ReleaseComing
<1>5. CASE posts' = Append(posts, m)
  <2>1. /\ DOMAIN posts' = 1 .. Len(posts) + 1 /\ posts'[Len(posts) + 1] = m
        /\ \A j \in DOMAIN posts : j \in DOMAIN posts' /\ posts'[j] = posts[j]
    <3>1. posts \in Seq(Post \cup {m}) /\ m \in Post \cup {m}
      BY <1>1, SeqMonotonic
    <3>2. /\ Len(posts') = Len(posts) + 1 /\ posts'[Len(posts) + 1] = m
          /\ \A j \in 1 .. Len(posts) : posts'[j] = posts[j]
          /\ posts' \in Seq(Post \cup {m})
      BY <1>5, <3>1, AppendProperties
    <3> QED BY <1>1, <3>2
  <2>2. \A j \in DOMAIN posts' : j \in DOMAIN posts \/ posts'[j] = m
    BY <1>1, <2>1
  <2>3. ASSUME NEW u \in Tabs, ReleaseComing(u)'
        PROVE  ReleaseComing(u) \/ (u = t /\ action = "release")
    <3>1. PICK j \in DOMAIN posts' : posts'[j].tab = u /\ posts'[j].action = "release"
      BY <2>3 DEF ReleaseComing
    <3>2. CASE j \in DOMAIN posts
      BY <2>1, <3>1, <3>2 DEF ReleaseComing
    <3>3. CASE posts'[j] = m
      BY <1>3, <3>1, <3>3
    <3> QED BY <2>2, <3>2, <3>3
  <2>4. Len(posts) + 1 \in DOMAIN posts'
    BY <1>1, <2>1
  <2> QED BY <2>1, <2>3, <2>4 DEF m
<1> QED BY <1>2, <1>4, <1>5

\* What is done to a hub without touching the locks of the channels in service, or to
\* the posts of others, leaves a tab's lock as it was.
LEMMA StillKept ==
    ASSUME Typed, NEW u \in Tabs, Kept(u),
           \E e : tab'[u] = [tab[u] EXCEPT !.es = e],
           ReleaseComing(u)' => ReleaseComing(u),
           \A j \in DOMAIN posts : j \in DOMAIN posts' /\ posts'[j] = posts[j],
           \A d \in Streams : stream[d].sid # None => stream'[d].sid = stream[d].sid,
           \A d \in Streams : Registered(d) => Registered(d)' /\ lock'[d] = lock[d],
           \A s \in Sessions, d \in Streams :
              Registered(d) /\ channels'[s] = d => channels[s] = d
    PROVE  Kept(u)'
<1>1. PICK c \in Streams : Backed(u, c)
  BY DEF Kept
<1>2. /\ tab'[u].sid = tab[u].sid /\ tab'[u].focus = tab[u].focus
      /\ tab'[u].ready = tab[u].ready /\ tab'[u].frozen = tab[u].frozen
      /\ tab'[u].since = tab[u].since
  BY DEF Typed, TypeOK, Tab
<1>3. Registered(c) /\ Registered(c)' /\ lock'[c] = lock[c]
  BY <1>1 DEF Backed
<1>4. Coming(u) => Coming(u)'
  BY <1>2 DEF Coming
<1>5. Fresh(u, c) => Fresh(u, c)'
  BY <1>2, <1>3, <1>4 DEF Fresh
<1>6. tab[u].sid \in Sessions
  BY <1>1, LockNumbers
<1>7. Backed(u, c)'
  BY <1>1, <1>2, <1>3, <1>5, <1>6, StillBacked
<1> QED BY <1>2, <1>7 DEF Kept

LEMMA SamePosts ==
    ASSUME UNCHANGED posts
    PROVE  /\ \A u \in Tabs : ReleaseComing(u)' => ReleaseComing(u)
           /\ \A j \in DOMAIN posts : j \in DOMAIN posts' /\ posts'[j] = posts[j]
BY DEF ReleaseComing

\* What users do: the tab's own posts touch nobody else's lock, and a beat renews its own.
LEMMA UserKeeps ==
    ASSUME Typed, Typed', LockKept, NEW t \in Tabs, Uses(t)
    PROVE  LockKept'
<1>1. UNCHANGED <<channels, lock, stream>> /\ tab \in [Tabs -> Tab]
  BY UserFacts DEF Typed, TypeOK
<1>2. PICK action \in {"acquire", "release"} : posts' \in {posts, Posted(t, action)}
  BY UserFacts DEF Typed
<1>3. /\ \A u \in Tabs \ {t} : ReleaseComing(u)' => ReleaseComing(u)
      /\ \A j \in DOMAIN posts : j \in DOMAIN posts' /\ posts'[j] = posts[j]
  BY <1>2, PostedFacts
<1>4. /\ \A d \in Streams : stream'[d].sid = stream[d].sid
      /\ \A d \in Streams : Registered(d)' = Registered(d) /\ lock'[d] = lock[d]
  BY <1>1 DEF Registered
<1>5. ASSUME NEW u \in Tabs \ {t}, tab'[u].got PROVE Kept(u)'
  <2>1. tab'[u] = tab[u]
    BY <1>1, UserFacts DEF UsesShape, Typed
  <2>2. Kept(u) /\ tab[u] = [tab[u] EXCEPT !.es = tab[u].es]
    BY <1>1, <1>5, <2>1 DEF LockKept, Tab
  <2> QED BY <1>1, <1>3, <1>4, <2>1, <2>2, StillKept
<1>6. ASSUME tab'[t].got PROVE Kept(t)'
  <2>1. CASE Focus(t)
    <3>1. tab'[t].got = tab[t].got /\ ~tab[t].focus
      BY <1>1, <2>1 DEF Focus, Tab
    <3> QED BY <1>6, <3>1 DEF LockKept, Kept
  <2>2. CASE Blur(t) \/ Disarm(t) \/ Reload(t) \/ \E s \in Sessions : Switch(t, s)
    <3>1. tab[t] \in Tab
      BY <1>1
    <3>2. ~Blur(t) /\ ~Disarm(t)
      BY <1>1, <1>6, <3>1 DEF Blur, Disarm, Tab
    <3>3. ~Reload(t)
      BY <1>1, <1>6, <3>1 DEF Reload, Tab
    <3>4. \A s \in Sessions : ~Switch(t, s)
      BY <1>1, <1>6, <3>1 DEF Switch, Tab
    <3> QED BY <2>2, <3>2, <3>3, <3>4
  <2>3. CASE Ready(t)
    <3>1. tab'[t].got = tab[t].got /\ ~tab[t].ready
      BY <1>1, <2>3 DEF Ready, Tab
    <3> QED BY <1>6, <3>1 DEF LockKept, Kept
  <2>4. CASE Freeze(t)
    <3>1. tab'[t] = [tab[t] EXCEPT !.frozen = TRUE] /\ UNCHANGED posts
      BY <1>1, <2>4 DEF Freeze
    <3>2. /\ tab'[t].sid = tab[t].sid /\ tab'[t].got = tab[t].got
          /\ tab'[t].focus = tab[t].focus /\ tab'[t].ready = tab[t].ready /\ tab'[t].frozen
      BY <1>1, <3>1 DEF Tab
    <3>3. Kept(t)
      BY <1>6, <3>2 DEF LockKept
    <3>4. PICK c \in Streams : Backed(t, c)
      BY <3>3 DEF Kept
    <3>5. Backed(t, c)'
      BY <1>4, <3>2, <3>4 DEF Backed
    <3> QED BY <3>1, <3>2, <3>3, <3>5 DEF Kept, ReleaseComing
  <2>5. CASE BeatLock(t)
    <3>1. tab'[t] = [tab[t] EXCEPT !.since = 0] /\ posts' = Posted(t, "acquire") /\ RemoteId(t) # None
      BY <1>1, <2>5 DEF BeatLock
    <3>2. /\ tab'[t].sid = tab[t].sid /\ tab'[t].got = tab[t].got
          /\ tab'[t].focus = tab[t].focus /\ tab'[t].ready = tab[t].ready
          /\ tab'[t].frozen = tab[t].frozen
      BY <1>1, <3>1 DEF Tab
    <3>3. Kept(t)
      BY <1>6, <3>2 DEF LockKept
    <3>4. PICK c \in Streams : Backed(t, c)
      BY <3>3 DEF Kept
    <3>5. ~ReleaseComing(t)'
      BY <3>1, <3>3, PostedFacts DEF Kept
    <3>6. Coming(t)'
      <4>1. RemoteId(t) = tab[t].sid
        BY <3>1 DEF RemoteId
      <4>2. posts' # posts
        <5>1. posts' = Append(posts, [tab |-> t, sid |-> RemoteId(t), action |-> "acquire"])
          BY <3>1 DEF Posted
        <5>2. posts \in Seq(Post \cup {[tab |-> t, sid |-> RemoteId(t), action |-> "acquire"]})
          BY SeqMonotonic DEF Typed, TypeOK
        <5>3. Len(posts') = Len(posts) + 1 /\ Len(posts) \in Nat
          BY <5>1, <5>2, AppendProperties
        <5> QED BY <5>3
      <4>3. PICK j \in DOMAIN posts' :
               posts'[j] = [tab |-> t, sid |-> RemoteId(t), action |-> "acquire"]
        BY <3>1, <4>2, PostedFacts
      <4> QED BY <3>2, <4>1, <4>3 DEF Coming
    <3>7. Fresh(t, c) => Fresh(t, c)'
      <4>1. lock'[c] = lock[c] /\ lock[c] \in Nat /\ tab[t].since \in 0 .. BeatEvery
        BY <1>4, LockNumbers
      <4>2. Fresh(t, c) => lock[c] <= 2 * BeatEvery
        BY <4>1, Numbers DEF Fresh
      <4> QED BY <3>6, <4>1, <4>2 DEF Fresh
    <3>8. Backed(t, c)'
      BY <1>1, <1>4, <3>2, <3>4, <3>7, StillBacked DEF Backed
    <3> QED BY <3>2, <3>3, <3>5, <3>8 DEF Kept
  <2> QED BY <2>1, <2>2, <2>3, <2>4, <2>5 DEF Uses
<1> QED BY <1>5, <1>6 DEF LockKept

LEMMA ConnectKeeps ==
    ASSUME Typed, LockKept, NEW t \in Tabs, NEW c \in Streams,
           Connects(t, c)
    PROVE  LockKept'
<1> PICK s \in Sessions : Asks(c, s)
  BY ConnectFacts
<1>1. stream' = [stream EXCEPT ![c] = [@ EXCEPT !.phase = "asked", !.sid = s]]
  BY DEF Asks
<1>2. /\ stream[c].phase = "unused" /\ stream[c].sid = None
      /\ tab' = [tab EXCEPT ![t].es = c]
      /\ UNCHANGED <<channels, lock, posts>>
      /\ tab \in [Tabs -> Tab] /\ stream \in [Streams -> Stream]
  BY ConnectFacts DEF Typed, TypeOK, StreamOK
<1>3. \A d \in Streams \ {c} : stream'[d] = stream[d]
  BY <1>1, <1>2
<1>4. ASSUME NEW u \in Tabs, tab'[u].got PROVE Kept(u)'
  <2>1. \E e : tab'[u] = [tab[u] EXCEPT !.es = e]
    <3>1. CASE u = t
      BY <1>2, <3>1
    <3>2. CASE u # t
      <4>1. tab'[u] = [tab[u] EXCEPT !.es = tab[u].es]
        BY <1>2, <3>2 DEF Tab
      <4> QED BY <4>1
    <3> QED BY <3>1, <3>2
  <2>2. tab[u].got
    BY <1>2, <1>4, <2>1 DEF Tab
  <2>3. Kept(u)
    BY <2>2 DEF LockKept
  <2>4. \A d \in Streams : Registered(d) => d # c /\ Registered(d)' /\ lock'[d] = lock[d]
    BY <1>2, <1>3 DEF Registered
  <2>5. \A d \in Streams : stream[d].sid # None => stream'[d].sid = stream[d].sid
    BY <1>2, <1>3
  <2>6. \A z \in Sessions, d \in Streams :
           Registered(d) /\ channels'[z] = d => channels[z] = d
    BY <1>2
  <2> QED BY <1>2, <2>1, <2>3, <2>4, <2>5, <2>6, SamePosts, StillKept
<1> QED BY <1>4 DEF LockKept

\* A channel that is registered over another starts with its lock free; nobody's was taken
\* on it.
LEMMA GeneratorKeeps ==
    ASSUME Typed, LockKept, NEW c \in Streams, Generator(c)
    PROVE  LockKept'
<1>1. /\ stream[c].sid \in Sessions /\ stream \in [Streams -> Stream]
      /\ \A d \in Streams \ {c} : stream'[d] = stream[d]
      /\ stream'[c].sid = stream[c].sid
      /\ UNCHANGED <<tab, posts>>
      /\ tab \in [Tabs -> Tab] /\ channels \in [Sessions -> Maybe(Streams)]
      /\ lock \in [Streams -> 0 .. LockTTL] /\ None \notin Streams
  BY GeneratorFrame, RemoteHubAssumption DEF Typed, TypeOK
<1>2. Registered(c)'
  <2>1. stream'[c].phase \in Serving \cup {"over"}
    <3>1. CASE Register(c) \/ Timeout(c) \/ Arrive(c)
      <4>1. Register(c) => stream'[c].phase = "polling"
        BY <1>1 DEF Register
      <4>2. Timeout(c) => stream'[c].phase = "polling"
        BY <1>1 DEF Timeout
      <4>3. Arrive(c) => stream'[c].phase = "polling"
        BY <1>1 DEF Arrive
      <4> QED BY <3>1, <4>1, <4>2, <4>3 DEF Serving
    <3>2. CASE Poll(c)
      <4>1. stream'[c].phase = "waiting"
        BY <1>1, <3>2 DEF Poll
      <4> QED BY <4>1 DEF Serving
    <3>3. CASE Take(c)
      <4>1. stream'[c].phase = "sending"
        BY <1>1, <3>3 DEF Take
      <4> QED BY <4>1 DEF Serving
    <3>4. CASE Notice(c)
      <4>1. stream'[c].phase = "over"
        BY <1>1, <3>4 DEF Notice, Over
      <4> QED BY <4>1
    <3> QED BY <3>1, <3>2, <3>3, <3>4 DEF Generator
  <2> QED BY <2>1 DEF Registered, Serving
<1>3. \A d \in Streams :
        Registered(d) => /\ Registered(d)' /\ lock'[d] = lock[d]
                         /\ \A z \in Sessions : channels'[z] = d => channels[z] = d
  <2>1. CASE Register(c)
    <3>1. ~Registered(c)
      BY <2>1 DEF Register, Registered
    <3> QED BY <1>1, <1>2, <2>1, <3>1 DEF Register, Registered
  <2>2. CASE ~Register(c)
    <3>1. UNCHANGED lock /\ \A z \in Sessions : channels'[z] \in {channels[z], None}
      BY <1>1, <2>2 DEF Generator, Poll, Take, Timeout, Arrive, Notice, hub
    <3> QED BY <1>1, <1>2, <3>1 DEF Registered
  <2> QED BY <2>1, <2>2
<1>4. \A d \in Streams : stream'[d].sid = stream[d].sid
  BY <1>1
<1>5. ASSUME NEW u \in Tabs, tab'[u].got PROVE Kept(u)'
  <2>1. Kept(u) /\ tab'[u] = [tab[u] EXCEPT !.es = tab[u].es]
    BY <1>1, <1>5 DEF LockKept, Tab
  <2> QED BY <1>1, <1>3, <1>4, <2>1, SamePosts, StillKept
<1> QED BY <1>5 DEF LockKept

LEMMA RestartKeeps ==
    ASSUME Typed, LockKept, Restart
    PROVE  LockKept'
<1>1. /\ \A c \in Streams : /\ stream'[c].sid = stream[c].sid
                            /\ Registered(c) => Registered(c)'
      /\ \A s \in Sessions : channels'[s] = None
      /\ UNCHANGED <<lock, tab, posts>>
  BY RestartTypes
<1>2. tab \in [Tabs -> Tab] /\ None \notin Streams
  BY RemoteHubAssumption DEF Typed, TypeOK
<1>3. ASSUME NEW u \in Tabs, tab'[u].got PROVE Kept(u)'
  <2>1. Kept(u) /\ tab'[u] = [tab[u] EXCEPT !.es = tab[u].es]
    BY <1>1, <1>2, <1>3 DEF LockKept, Tab
  <2> QED BY <1>1, <1>2, <2>1, SamePosts, StillKept
<1> QED BY <1>3 DEF LockKept

LEMMA PushKeeps ==
    ASSUME LockKept, UNCHANGED <<channels, lock, stream, tab, posts>>
    PROVE  LockKept'
BY DEF LockKept, Kept, ReleaseComing, Backed, Registered, Alone, Fresh, Coming

\* Of the posts in flight one less: nothing new is on the way, and the others still are.
LEMMA OnePostLess ==
    ASSUME Typed, NEW i \in DOMAIN posts, posts' = Without(posts, i), NEW u \in Tabs,
           tab'[u].sid = tab[u].sid
    PROVE  /\ posts[i] \in Post
           /\ ReleaseComing(u)' => ReleaseComing(u)
           /\ Coming(u) => \/ Coming(u)'
                           \/ posts[i] = [tab |-> u, sid |-> tab[u].sid, action |-> "acquire"]
<1>1. posts \in Seq(Post) /\ posts[i] \in Post
  BY DEF Typed, TypeOK
<1>2. /\ \A j \in DOMAIN posts' : \E k \in DOMAIN posts : posts'[j] = posts[k]
      /\ \A k \in DOMAIN posts \ {i} : \E j \in DOMAIN posts' : posts'[j] = posts[k]
  BY <1>1, WithoutFacts
<1>3. ReleaseComing(u)' => ReleaseComing(u)
  BY <1>2 DEF ReleaseComing
<1>4. ASSUME Coming(u), posts[i] # [tab |-> u, sid |-> tab[u].sid, action |-> "acquire"]
      PROVE  Coming(u)'
  <2>1. PICK k \in DOMAIN posts \ {i} :
           posts[k] = [tab |-> u, sid |-> tab[u].sid, action |-> "acquire"]
    BY <1>4 DEF Coming
  <2> QED BY <1>2, <2>1 DEF Coming
<1> QED BY <1>1, <1>3, <1>4

\* The post that is lost was not one the lock could not do without.
LEMMA LoseKeeps ==
    ASSUME Typed, LockKept, NEW i \in DOMAIN posts, LosePost(i)
    PROVE  LockKept'
<1>1. /\ UNCHANGED <<channels, lock, stream, tab>> /\ posts' = Without(posts, i)
      /\ channels[posts[i].sid] # None =>
            lock[channels[posts[i].sid]] \notin (BeatEvery + 1) .. (LockTTL - 1)
  BY DEF LosePost, hub
<1>2. ASSUME NEW u \in Tabs, tab'[u].got PROVE Kept(u)'
  <2>1. /\ tab[u].focus /\ tab[u].ready /\ ~ReleaseComing(u)
        /\ tab[u].got
    BY <1>1, <1>2 DEF LockKept, Kept
  <2>2. PICK c \in Streams : Backed(u, c)
    BY <2>1 DEF LockKept, Kept
  <2>3. ~ReleaseComing(u)'
    BY <1>1, <2>1, OnePostLess
  <2>4. ASSUME channels[tab[u].sid] = c, Fresh(u, c) PROVE Fresh(u, c)'
    <3>1. /\ lock[c] \in Nat /\ tab[u].since \in Nat /\ c # None
          /\ tab[u].since <= BeatEvery
      BY LockNumbers, RemoteHubAssumption
    <3>2. CASE lock[c] <= BeatEvery + tab[u].since
      BY <1>1, <3>2 DEF Fresh
    <3>3. CASE lock[c] <= 2 * BeatEvery /\ Coming(u)
      <4>1. CASE Coming(u)'
        BY <1>1, <3>3, <4>1 DEF Fresh
      <4>2. CASE posts[i] = [tab |-> u, sid |-> tab[u].sid, action |-> "acquire"]
        <5>1. lock[c] \notin (BeatEvery + 1) .. (LockTTL - 1)
          BY <1>1, <2>4, <3>1, <4>2
        <5>2. lock[c] <= BeatEvery
          BY <3>1, <3>3, <5>1, Numbers
        <5>3. lock'[c] <= BeatEvery + tab'[u].since
          BY <1>1, <3>1, <5>2, Numbers
        <5> QED BY <5>3 DEF Fresh
      <4> QED BY <1>1, <3>3, <4>1, <4>2, OnePostLess
    <3> QED BY <2>4, <3>2, <3>3 DEF Fresh
  <2>5. Backed(u, c)'
    BY <1>1, <2>2, <2>4 DEF Backed, Registered, Alone
  <2> QED BY <1>1, <2>1, <2>3, <2>5 DEF Kept
<1> QED BY <1>2 DEF LockKept

\* A post that is served: an acquire renews the lock of whoever holds it, and another tab's
\* release ends what the tab has.
LEMMA ServeKeeps ==
    ASSUME Typed, LockKept, NEW i \in DOMAIN posts, ServePost(i)
    PROVE  LockKept'
<1> PICK m, k : m = posts[i] /\ k = channels[m.sid]
  OBVIOUS
<1>1. /\ UNCHANGED <<channels, stream>> /\ posts' = Without(posts, i)
      /\ lock' = IF k = None THEN lock
                 ELSE [lock EXCEPT ![k] = IF m.action = "acquire" THEN 0 ELSE LockTTL]
      /\ m \in Post /\ m.sid \in Sessions /\ m.action \in {"acquire", "release"}
  <2>1. m \in Post /\ m.sid \in Sessions /\ m.action \in {"acquire", "release"}
    <3>1. posts \in Seq(Post)
      BY DEF Typed, TypeOK
    <3>2. m \in Post
      BY <3>1
    <3> QED BY <3>2 DEF Post
  <2>2. /\ UNCHANGED <<channels, stream>> /\ posts' = Without(posts, i)
        /\ IF k = None THEN lock' = lock
           ELSE IF m.action = "acquire" THEN Acquire(k) ELSE Release(k)
    BY Zenon DEF ServePost
  <2> QED BY <2>1, <2>2 DEF Acquire, Release
<1>2. ASSUME NEW u \in Tabs
      PROVE  /\ tab'[u].sid = tab[u].sid /\ tab'[u].focus = tab[u].focus
             /\ tab'[u].ready = tab[u].ready /\ tab'[u].frozen = tab[u].frozen
             /\ tab'[u].since = tab[u].since
             /\ tab'[u].got => \/ tab[u].got /\ (u # m.tab => ~(m.action = "release" /\ tab[u].sid = m.sid))
                               \/ /\ k # None /\ m.action = "acquire" /\ tab[u].focus
                                  /\ RemoteId(u) = m.sid /\ ~ReleaseComing(u)
  <2>1. /\ tab[u] \in Tab
        /\ tab'[u] = [tab[u] EXCEPT !.got =
                         IF u # m.tab THEN @ /\ ~(m.action = "release" /\ tab[u].sid = m.sid)
                         ELSE @ \/ (k # None /\ m.action = "acquire" /\ tab[u].focus
                                    /\ RemoteId(u) = m.sid /\ ~ReleaseComing(u))]
    BY DEF ServePost, Typed, TypeOK
  <2> QED BY <2>1 DEF Tab
<1>3. k # None => /\ k \in Streams /\ stream[k].sid = m.sid /\ Registered(k)
                  /\ lock'[k] = IF m.action = "acquire" THEN 0 ELSE LockTTL
  BY <1>1 DEF Typed, TypeOK, Maybe, Registered, Serving
<1>4. \A c \in Streams : c # k => lock'[c] = lock[c]
  BY <1>1 DEF Typed, TypeOK
<1>5. \A c \in Streams, u \in Tabs : lock'[c] = 0 => Fresh(u, c)'
  <2>1. \A u \in Tabs : tab'[u].since \in Nat
    BY <1>2, Numbers DEF Typed, TypeOK, Tab
  <2> QED BY <2>1, Numbers DEF Fresh
<1>6. ASSUME NEW u \in Tabs, tab'[u].got, tab[u].got,
             u # m.tab => ~(m.action = "release" /\ tab[u].sid = m.sid)
      PROVE  Kept(u)'
  <2>1. tab[u].focus /\ tab[u].ready /\ ~ReleaseComing(u)
    BY <1>6 DEF LockKept, Kept
  <2>2. PICK c \in Streams : Backed(u, c)
    BY <1>6 DEF LockKept, Kept
  <2>3. u = m.tab => m.action = "acquire"
    BY <1>1, <2>1 DEF ReleaseComing
  <2>4. ASSUME channels[tab[u].sid] = c, Fresh(u, c) PROVE Fresh(u, c)'
    <3>1. CASE k = c
      <4>1. tab[u].sid = m.sid /\ k # None
        BY <1>3, <2>2, <3>1, RemoteHubAssumption DEF Backed
      <4> QED BY <1>1, <1>3, <1>5, <1>6, <2>3, <3>1, <4>1
    <3>2. CASE k # c
      <4>1. lock'[c] = lock[c] /\ tab'[u].since = tab[u].since
        BY <1>2, <1>4, <3>2
      <4>2. m # [tab |-> u, sid |-> tab[u].sid, action |-> "acquire"]
        BY <2>4, <3>2
      <4>3. Coming(u) => Coming(u)'
        BY <1>1, <1>2, <4>2, OnePostLess
      <4> QED BY <2>4, <4>1, <4>3 DEF Fresh
    <3> QED BY <3>1, <3>2
  <2>5. Backed(u, c)'
    BY <1>1, <1>2, <2>2, <2>4 DEF Backed, Registered, Alone
  <2>6. ~ReleaseComing(u)'
    BY <1>1, <1>2, <2>1, OnePostLess
  <2> QED BY <1>2, <2>1, <2>5, <2>6 DEF Kept
<1>7. ASSUME NEW u \in Tabs, k # None, m.action = "acquire", tab[u].focus,
             RemoteId(u) = m.sid, ~ReleaseComing(u)
      PROVE  Kept(u)'
  <2>1. tab[u].ready /\ tab[u].sid = m.sid
    BY <1>1, <1>7, RemoteHubAssumption DEF RemoteId
  <2>2. Fresh(u, k)' /\ k \in Streams
    BY <1>3, <1>5, <1>7
  <2>3. Backed(u, k)'
    BY <1>1, <1>2, <1>3, <1>7, <2>1, <2>2 DEF Backed, Registered
  <2>4. ~ReleaseComing(u)'
    BY <1>1, <1>2, <1>7, OnePostLess
  <2> QED BY <1>2, <1>7, <2>1, <2>2, <2>3, <2>4 DEF Kept
<1> QED BY <1>2, <1>6, <1>7 DEF LockKept

\* Time passes only while the posts that keep locks fresh are served.
LEMMA TickKeeps ==
    ASSUME Typed, LockKept, Tick
    PROVE  LockKept'
<1>1. /\ UNCHANGED <<channels, stream, posts>> /\ posts = <<>>
      /\ \A t \in Tabs : tab[t].focus /\ ~tab[t].frozen /\ RemoteId(t) # None =>
            tab[t].since < BeatEvery
      /\ \A c \in Streams : lock'[c] = IF lock[c] < LockTTL THEN lock[c] + 1 ELSE LockTTL
      /\ \A t \in Tabs : tab'[t] = [tab[t] EXCEPT !.since = IF @ < BeatEvery THEN @ + 1 ELSE @]
  BY DEF Tick
<1>2. ASSUME NEW u \in Tabs, tab'[u].got PROVE Kept(u)'
  <2>1. /\ tab'[u].sid = tab[u].sid /\ tab'[u].focus = tab[u].focus
        /\ tab'[u].ready = tab[u].ready /\ tab'[u].frozen = tab[u].frozen
        /\ tab'[u].got = tab[u].got
        /\ tab'[u].since = IF tab[u].since < BeatEvery THEN tab[u].since + 1 ELSE tab[u].since
    <3>1. tab[u] \in Tab
      BY DEF Typed, TypeOK
    <3>2. PICK n : n = IF tab[u].since < BeatEvery THEN tab[u].since + 1 ELSE tab[u].since
      OBVIOUS
    <3>3. tab'[u] = [tab[u] EXCEPT !.since = n]
      BY <1>1, <3>2
    <3> QED BY <3>1, <3>2, <3>3 DEF Tab
  <2>2. tab[u].focus /\ tab[u].ready /\ tab[u].sid # None
    BY <1>2, <2>1, RemoteHubAssumption DEF LockKept, Kept, Typed, TypeOK, Tab
  <2>3. PICK c \in Streams : Backed(u, c)
    BY <1>2, <2>1 DEF LockKept, Kept
  <2>4. ~ReleaseComing(u)' /\ ~Coming(u)
    BY <1>1 DEF ReleaseComing, Coming
  <2>5. ASSUME ~tab[u].frozen, Fresh(u, c) PROVE Fresh(u, c)'
    <3>1. tab'[u].since = tab[u].since + 1 /\ tab[u].since < BeatEvery
      BY <1>1, <2>1, <2>2, <2>5 DEF RemoteId
    <3>2. lock[c] \in Nat /\ tab[u].since \in Nat
      BY LockNumbers
    <3>3. lock[c] <= BeatEvery + tab[u].since
      BY <2>4, <2>5 DEF Fresh
    <3>4. lock'[c] <= BeatEvery + tab'[u].since
      BY <1>1, <3>1, <3>2, <3>3, Numbers
    <3> QED BY <3>4 DEF Fresh
  <2>6. Backed(u, c)'
    BY <1>1, <2>1, <2>3, <2>5 DEF Backed, Registered, Alone
  <2> QED BY <2>1, <2>2, <2>4, <2>6 DEF Kept
<1> QED BY <1>2 DEF LockKept

-----------------------------------------------------------------------------
(* The invariant holds.                                                     *)

LEMMA InitInvariant ==
    ASSUME Init
    PROVE  IInv
<1>1. TypeOK
  <2>1. /\ channels \in [Sessions -> Maybe(Streams)] /\ stream \in [Streams -> Stream]
        /\ \A s \in Sessions : channels[s] = None
    BY DEF Init, Maybe, Stream, Serving
  <2>2. lock \in [Streams -> 0 .. LockTTL] /\ queue \in [Streams -> Seq(Pushes)]
        /\ screen \in [Tabs -> Seq(Pushes)]
    BY Numbers DEF Init
  <2>3. tab \in [Tabs -> Tab]
    <3>1. \A t \in Tabs : tab[t] \in [sid: Sessions, es: {None}, ready: {FALSE}, focus: {FALSE},
                                     held: {FALSE}, got: {FALSE}, frozen: {FALSE}, since: {0}]
      BY DEF Init
    <3>2. \A t \in Tabs : tab[t] \in Tab
      BY <3>1, Numbers DEF Tab, Maybe
    <3> QED BY <3>2 DEF Init
  <2>4. /\ posts = <<>> /\ posts \in Seq(Post) /\ open \subseteq Streams /\ acts \in Nat
        /\ pushes \in Seq([sid: Sessions, chan: Streams, by: SUBSET Streams])
    BY DEF Init
  <2> QED BY <2>1, <2>2, <2>3, <2>4 DEF TypeOK
<1>2. \A t \in Tabs : tab[t].es = None /\ tab[t].got = FALSE
  BY DEF Init
<1>3. \A c \in Streams :
        /\ stream[c].phase = "unused" /\ stream[c].sid = None
        /\ stream[c].chan = None /\ stream[c].msg = 0
  BY DEF Init
<1>4. EsOK /\ LockKept /\ \A c \in Streams : StreamOK(c)
  BY <1>2, <1>3 DEF EsOK, LockKept, StreamOK
<1>5. /\ \A c \in Streams : Held(c) = {} /\ Ordered(queue[c])
      /\ \A t \in Tabs : Seen(t) = {} /\ Ordered(screen[t])
  BY EmptyItems DEF Init, Held, Seen
<1>6. Accepted /\ OnePlace
  BY <1>3, <1>5 DEF Accepted, OnePlace
<1>7. \A c \in Streams : Sources(c) = {} /\ Ahead(c) /\ Overtaken(c)
  BY <1>3 DEF Sources, Ahead, Overtaken, Served, Serving
<1> QED BY <1>1, <1>4, <1>6, <1>7 DEF IInv, Typed, Delivery

LEMMA NextInvariant ==
    ASSUME IInv, [Next]_vars
    PROVE  IInv'
<1> USE DEF IInv
<1>1. CASE \E t \in Tabs : Uses(t)
  <2>1. PICK t \in Tabs : Uses(t)
    BY <1>1
  <2>2. Typed' /\ LockKept'
    BY <2>1, UserTypes, UserKeeps
  <2>3. Delivery'
    <3>1. PICK r : UsesShape(t, r)
      BY <2>1, UserFacts DEF Typed
    <3>2. \A u \in Tabs : tab'[u].es \in {tab[u].es, None}
      BY <3>1 DEF UsesShape, Typed, TypeOK
    <3> QED BY <2>1, <2>2, <3>2, UserFacts, SameHub DEF Typed
  <2> QED BY <2>2, <2>3
<1>2. CASE \E t \in Tabs, c \in Streams : Connects(t, c)
  BY <1>2, ConnectTypes, ConnectDelivers, ConnectKeeps DEF IInv
<1>3. CASE \E i \in DOMAIN posts : ServePost(i) \/ LosePost(i)
  <2>1. PICK i \in DOMAIN posts : ServePost(i) \/ LosePost(i)
    BY <1>3
  <2>2. Typed' /\ LockKept'
    BY <2>1, PostTypes, ServeKeeps, LoseKeeps
  <2>3. UNCHANGED <<channels, queue, stream, pushes, screen>>
    BY <2>1 DEF ServePost, LosePost, hub, history
  <2>4. \A u \in Tabs : tab'[u].es = tab[u].es
    <3>1. CASE ServePost(i)
      <4>1. \A u \in Tabs : \E b \in BOOLEAN : tab'[u] = [tab[u] EXCEPT !.got = b]
        BY <3>1 DEF ServePost, Typed, TypeOK, Tab, ReleaseComing
      <4>2. \A u \in Tabs : tab[u] \in Tab
        BY DEF Typed, TypeOK
      <4>3. ASSUME NEW u \in Tabs, NEW b \in BOOLEAN, tab'[u] = [tab[u] EXCEPT !.got = b]
            PROVE  tab'[u].es = tab[u].es
        BY <4>2, <4>3 DEF Tab
      <4> QED BY <4>1, <4>3
    <3>2. CASE LosePost(i)
      BY <3>2 DEF LosePost
    <3> QED BY <2>1, <3>1, <3>2
  <2> QED BY <2>2, <2>3, <2>4, SameHub
<1>4. CASE \E c \in Streams : Generator(c)
  <2>1. PICK c \in Streams : Generator(c)
    BY <1>4
  <2>2. Typed' /\ LockKept'
    BY <2>1, GeneratorTypes, GeneratorKeeps
  <2> QED
    BY <2>1, <2>2, RegisterDelivers, IdleDelivers, TakeDelivers, ArriveDelivers DEF Generator
<1>5. CASE \E s \in Sessions : Push(s)
  BY <1>5, PushTypes, PushDelivers, PushKeeps
<1>6. CASE Restart
  BY <1>6, RestartTypes, RestartDelivers, RestartKeeps
<1>7. CASE Tick
  <2>1. \A u \in Tabs : tab'[u].es = tab[u].es
    BY <1>7 DEF Tick, Typed, TypeOK, Tab
  <2>2. UNCHANGED <<channels, queue, stream, pushes, screen>>
    BY <1>7 DEF Tick, history
  <2> QED BY <1>7, <2>1, <2>2, TickTypes, TickKeeps, SameHub
<1>8. CASE UNCHANGED vars
  <2>1. UNCHANGED <<channels, queue, lock, stream, open, tab, posts, pushes, screen, acts>>
    BY <1>8 DEF vars
  <2>2. Typed'
    BY <2>1 DEF Typed, TypeOK, EsOK, StreamOK
  <2> QED BY <2>1, <2>2, SameHub, PushKeeps
<1> QED
  BY <1>1, <1>2, <1>3, <1>4, <1>5, <1>6, <1>7, <1>8 DEF Next, Uses, Connects, Generator

\* In every reachable state: nothing is queued, in hand or shown twice or out of order, and
\* the lock of an editing tab is as fresh as its beats make it.
THEOREM Inductive == Spec => []IInv
<1>1. Init => IInv
  BY InitInvariant
<1>2. IInv /\ [Next]_vars => IInv'
  BY NextInvariant
<1> QED BY <1>1, <1>2, PTL DEF Spec

\* The state of the hub, the streams and the tabs keeps its types, and the channel a session
\* has is one that a generator of that session serves (remote.py, register and unregister).
THEOREM TypeCorrect == Spec => []TypeOK
<1>1. IInv => TypeOK
  BY DEF IInv, Typed
<1> QED BY <1>1, Inductive, PTL

LEMMA ShownIsOnceInOrder ==
    ASSUME IInv
    PROVE  ShownOnceInOrder
<1>1. Typed /\ Accepted /\ OnePlace /\ DOMAIN screen = Tabs
  BY DEF IInv, Delivery, Typed, TypeOK
<1>2. InOrder
  BY <1>1 DEF InOrder, Accepted, Ordered
<1>3. ASSUME NEW t \in Tabs, NEW u \in Tabs,
             NEW i \in DOMAIN screen[t], NEW j \in DOMAIN screen[u], <<t, i>> # <<u, j>>
      PROVE  screen[t][i] # screen[u][j]
  <2>1. screen[t][i] \in Seen(t) /\ screen[u][j] \in Seen(u)
    BY DEF Seen, Items
  <2>2. CASE t # u
    BY <1>1, <2>1, <2>2 DEF OnePlace
  <2>3. CASE t = u
    <3>1. i # j /\ i \in Nat /\ j \in Nat
      <4>1. screen[t] \in Seq(Pushes) /\ screen[u] \in Seq(Pushes)
        BY <1>1 DEF Typed, TypeOK
      <4> QED BY <1>3, <2>3, <4>1
    <3>2. screen[t][i] \in Nat /\ screen[t][j] \in Nat
      BY <1>1, <2>1, <2>3, ItemsAreNumbers
    <3>3. screen[t][i] < screen[t][j] \/ screen[t][j] < screen[t][i]
      BY <1>1, <1>2, <2>3, <3>1 DEF InOrder
    <3> QED BY <2>3, <3>2, <3>3
  <2> QED BY <2>2, <2>3
<1> QED BY <1>1, <1>2, <1>3 DEF ShownOnceInOrder, ShownOnce

\* However streams share queues, drop, connect again and are noticed late, a push is shown at
\* most once, and a tab shows pushes in the order they were accepted (main.py,
\* `_event_stream`; remote.py, push and next_message).
THEOREM ShownOnlyOnceInOrder == Spec => []ShownOnceInOrder
<1>1. IInv => ShownOnceInOrder
  BY ShownIsOnceInOrder
<1> QED BY <1>1, Inductive, PTL

\* Arming is the gate: a message in the hand of a stream's generator was accepted while that
\* generator was running, on the channel it registered or another (remote.py, register).
THEOREM NothingIsFromBefore == Spec => []NothingFromBefore
<1>1. IInv => NothingFromBefore
  BY DEF IInv, Delivery, Ahead, NothingFromBefore, Typed, TypeOK
<1> QED BY <1>1, Inductive, PTL

\* "A push is refused with `blocked, user editing` while you type" (docs/remote.md): a push to
\* a session gets past a tab that is editing it only where the session has had another stream
\* (remote.py, push, acquire and the heartbeat of useEditLock).
THEOREM EditingIsNotInterrupted == Spec => EditingBlocks
<1> DEFINE A == \A t \in Tabs : Editing(t) /\ pushes' # pushes =>
                   LET p == pushes'[Len(pushes')] IN p.sid = tab[t].sid => Shared(p)
<1>1. ASSUME IInv, [Next]_vars, NEW t \in Tabs, Editing(t), pushes' # pushes,
             pushes'[Len(pushes')].sid = tab[t].sid
      PROVE  Shared(pushes'[Len(pushes')])
  <2>1. PICK s \in Sessions : Push(s)
    <3>1. \A u \in Tabs : ~Uses(u)
      BY <1>1, UserFacts DEF IInv, Typed
    <3>2. \A u \in Tabs, c \in Streams : ~Connects(u, c)
      BY <1>1, ConnectFacts DEF IInv
    <3>3. \A i \in DOMAIN posts : ~ServePost(i) /\ ~LosePost(i)
      BY <1>1 DEF ServePost, LosePost, history
    <3>4. \A c \in Streams : ~Generator(c)
      BY <1>1, GeneratorFrame DEF IInv
    <3>5. ~Restart /\ ~Tick /\ ~UNCHANGED vars
      BY <1>1 DEF Restart, Tick, history, vars
    <3> QED
      BY <1>1, <3>1, <3>2, <3>3, <3>4, <3>5 DEF Next, Uses, Connects, Generator
  <2>2. /\ Typed /\ channels[s] \in Streams /\ stream[channels[s]].sid = s
        /\ ~(lock[channels[s]] < LockTTL)
    BY <1>1, <2>1, PushTypes, RemoteHubAssumption DEF IInv, Typed, TypeOK, Push, HumanHolds
  <2> PICK c \in Streams : c = channels[s]
    BY <2>2
  <2>3. pushes'[Len(pushes')].sid = s /\ pushes'[Len(pushes')].chan = c
    BY <1>1, <2>1, PushTypes DEF IInv, Push, Typed, TypeOK
  <2>4. tab[t].sid = s /\ ~tab[t].frozen /\ \E d \in Streams : Backed(t, d)
    BY <1>1, <2>3 DEF Editing, IInv, LockKept, Kept
  <2>5. PICK d \in Streams : Backed(t, d)
    BY <2>4
  <2>6. CASE d = c
    <3>1. ~Fresh(t, c)
      BY <2>2, LockNumbers, Numbers DEF Fresh
    <3>2. ~Alone(c)
      BY <2>4, <2>5, <2>6, <3>1 DEF Backed
    <3> QED BY <2>2, <2>3, <3>2 DEF Shared, Alone
  <2>7. CASE d # c
    BY <2>3, <2>4, <2>5, <2>7 DEF Shared, Backed
  <2> QED BY <2>6, <2>7
<1>2. IInv /\ [Next]_vars => [A]_vars
  BY <1>1
<1>3. Spec => [][A]_vars
  BY <1>2, Inductive, PTL DEF Spec
<1> QED BY <1>3 DEF EditingBlocks

=============================================================================
