------------------------- MODULE EngineRelayProofs -------------------------
(***************************************************************************)
(* The line relay, for any processes, links, sockets and lines: what is    *)
(* said on a link is said in turn.                                         *)
(***************************************************************************)
EXTENDS EngineRelay, SequenceTheorems, WellFoundedInduction, TLAPS

-----------------------------------------------------------------------------
(* Types.                                                                  *)

Bare  == {"dialing", "live", "detached", "closed", "held"}
ToApp == [op : Bare]
         \union [op : {"open", "attached"}, sock : Socks]
         \union [op : {"line"}, sock : Socks, seq : Seqs]
         \union [op : {"gap"}, sock : Socks, gap : Gap]
ToEng == [op : {"hello", "connect", "detach"}] \union [op : {"ack"}, seq : Seqs]

Upstream == [st : {"none", "dialing", "open"}, sock : 0 .. MaxSockets, buf : BufferType,
             sink : {0} \union Links, sent : {0} \union Seqs, stalled : BOOLEAN,
             liveAfter : {0} \union Seqs]

Link == [owner : {0} \union Apps, toApp : Seq(ToApp), toEng : Seq(ToEng),
         appEnd : BOOLEAN, engEnd : BOOLEAN]

States == {"unborn", "linkless", "asking", "up", "redial", "over", "gone"}

Process == [st : States, link : {0} \union Links, sock : {0} \union Socks,
            catching : BOOLEAN, maxRow : Nat, under : {0} \union Seqs,
            at : {0} \union Seqs, todo : SUBSET (Nat \ {0}),
            ackSeq : {0} \union Seqs, known : SUBSET Seqs]

History == [acked : SUBSET (Socks \X Seqs), shed : SUBSET (Socks \X Seqs),
            told : SUBSET (Socks \X Nat), forgot : SUBSET Socks]

-----------------------------------------------------------------------------
(* The invariant.                                                          *)

Held(b) ==
    /\ b \in BufferType
    /\ b.first <= b.next /\ b.next <= MaxSeq + 1
    /\ b.gap.last < b.first

\* The engine's cursor is within the lines there are, and there are none but on
\* an open socket.
UpSound(u) ==
    /\ u \in Upstream /\ Held(u.buf)
    /\ u.sent <= LastSeq(u.buf)
    /\ u.st # "open" => u.buf = EmptyBuffer
    /\ u.st # "none" => u.sock # 0
    /\ u.st = "none" => u.sink = 0
    /\ u.stalled => u.st = "open"

Sane(p) ==
    /\ p \in Process
    /\ p.st \in {"asking", "up", "redial"} => p.link # 0
    /\ p.st \in {"unborn", "gone"} => p.link = 0
    /\ p.st = "up" => p.sock # 0
    /\ p.todo # {} => p.st = "up" /\ p.at # 0

\* A link and the process that has its end.
Placed ==
    /\ \A l \in Links :
          /\ links[l].appEnd => links[l].owner # 0 /\ apps[links[l].owner].link = l
          /\ ~links[l].appEnd => links[l].toApp = <<>>
          /\ links[l].appEnd \/ links[l].engEnd => l <= nLinks
    /\ \A a \in Apps :
          apps[a].link # 0 => links[apps[a].link].appEnd /\ links[apps[a].link].owner = a
    /\ up.sink # 0 => links[up.sink].engEnd

Ends(f)   == f.op \in {"detached", "closed", "dialing"}
Starts(f) == f.op \in {"open", "attached"}

\* What is written at position i reaches a process that is up by then.
InSession(t, st, i) ==
    \/ \E j \in 1 .. i - 1 : Starts(t[j]) /\ \A n \in j + 1 .. i - 1 : ~Ends(t[n])
    \/ st = "up" /\ \A n \in 1 .. i - 1 : ~Ends(t[n])

OnlyHeld(t) == \A i \in DOMAIN t : t[i].op = "held"
Connects(e) == {i \in DOMAIN e : e[i].op = "connect"}

\* What is said on link k of a process in state st; mine: the engine's session
\* reports to it; open: that session's socket is open.  One question at a time
\* is asked and answered; after the answer `detached' or `closed' the engine
\* has nothing to say but what it offers.
Talk(k, st, mine, open) ==
    /\ Connects(k.toEng) # {} => st = "asking"
    /\ \A i, j \in Connects(k.toEng) : i = j
    /\ st \notin {"asking", "up"} \/ Connects(k.toEng) # {} =>
          OnlyHeld(k.toApp) /\ ~(mine /\ k.engEnd)
    /\ \A i, j \in DOMAIN k.toApp :
          k.toApp[i].op \in {"detached", "closed"} /\ i < j => k.toApp[j].op = "held"
    /\ \A i \in DOMAIN k.toApp : k.toApp[i].op = "line" => InSession(k.toApp, st, i)
    /\ mine /\ k.engEnd =>
          /\ \A i \in DOMAIN k.toApp : k.toApp[i].op \notin {"detached", "closed"}
          /\ open => InSession(k.toApp, st, Len(k.toApp) + 1)

InTurn(l) ==
    links[l].appEnd =>
        Talk(links[l], apps[links[l].owner].st, up.sink = l, up.st = "open")

Typed ==
    /\ links \in [Links -> Link] /\ nLinks \in 0 .. MaxLinks
    /\ apps \in [Apps -> Process]
    /\ marks \in [Socks -> {0} \union Seqs]
    /\ log \in Seq(Row) /\ hist \in History

IInv ==
    /\ Typed /\ Placed /\ UpSound(up)
    /\ \A a \in Apps : Sane(apps[a]) /\ apps[a].maxRow <= Len(log)
    /\ \A l \in Links : InTurn(l)

-----------------------------------------------------------------------------
(* The backlog's operators.                                                *)

\* What the bounds are.
LEMMA Bounds ==
    /\ MaxApps \in Nat \ {0} /\ MaxLinks \in Nat \ {0} /\ MaxSockets \in Nat \ {0}
    /\ MaxSeq \in Nat
    /\ Seqs \subseteq Nat \ {0} /\ Socks \subseteq Nat \ {0}
    /\ Links \subseteq Nat \ {0} /\ Apps \subseteq Nat \ {0}
BY RelayConstants DEF Seqs, Socks, Links, Apps

\* A buffer with a gap of the right type is one of the type.
LEMMA BufferIs ==
    ASSUME NEW b, b = [first |-> b.first, next |-> b.next, gap |-> b.gap],
           b.first \in Nat \ {0}, b.next \in Nat \ {0},
           b.gap = [first |-> b.gap.first, last |-> b.gap.last],
           b.gap.first \in Nat, b.gap.last \in Nat
    PROVE  b \in BufferType
BY DEF BufferType, Gap

\* The lines received are of the numbers there are.
LEMMA HeldIs ==
    ASSUME NEW b, Held(b)
    PROVE  /\ b.first \in Nat \ {0} /\ b.next \in Nat \ {0} /\ b.gap \in Gap
           /\ LastSeq(b) \in {0} \union Seqs /\ LastSeq(b) \in Nat
           /\ Pending(b) \subseteq Seqs
BY Bounds DEF Held, BufferType, LastSeq, Pending, Seqs

\* A line more, as long as there is room for it.
LEMMA PushedHeld ==
    ASSUME NEW b, Held(b), LastSeq(b) < MaxSeq
    PROVE  Held(Pushed(b)) /\ LastSeq(Pushed(b)) = LastSeq(b) + 1
BY Bounds DEF Held, BufferType, Gap, LastSeq, Pushed

\* Shedding takes from the front.
LEMMA ShedHeld ==
    ASSUME NEW b, Held(b), NEW k \in ShedCounts(b)
    PROVE  /\ Held(Shed(b, k)) /\ LastSeq(Shed(b, k)) = LastSeq(b)
           /\ Shed(b, k).first = b.first + k
           /\ Dropped(b, k) \subseteq Seqs
<1>1. k \in Nat /\ b.first + k <= b.next
  BY DEF ShedCounts, PendingLen, Held, BufferType
<1>2. Dropped(b, k) \subseteq Seqs
  BY <1>1, Bounds DEF Dropped, Seqs, Held, BufferType
<1>3. CASE k = 0
  BY <1>2, <1>3 DEF Shed, Held, BufferType
<1>4. CASE k # 0
  <2> DEFINE c == Shed(b, k)
             g == [first |-> IF b.gap.last = 0 THEN b.first ELSE b.gap.first,
                   last |-> b.first + k - 1]
  <2>1. c = [b EXCEPT !.first = b.first + k, !.gap = g]
    BY <1>4 DEF Shed
  <2>2. g \in Gap /\ g.last = b.first + k - 1
    BY <1>1, <1>4 DEF Held, BufferType, Gap
  <2>4. b \in BufferType /\ b.first + k \in Nat \ {0}
    BY <1>1 DEF Held, BufferType
  <2> HIDE DEF g, c
  <2>3. c \in BufferType /\ c.first = b.first + k /\ c.next = b.next /\ c.gap = g
    BY <2>1, <2>2, <2>4 DEF BufferType
  <2> USE DEF c
  <2> QED BY <1>1, <1>2, <2>2, <2>3 DEF Held, BufferType, LastSeq
<1> QED BY <1>3, <1>4

\* An ack releases what it covers and is there.
LEMMA AckedHeld ==
    ASSUME NEW b, Held(b), NEW q \in Nat
    PROVE  /\ Held(Acked(b, q)) /\ LastSeq(Acked(b, q)) = LastSeq(b)
           /\ Acked(b, q).first >= b.first
           /\ \A s \in 1 .. Acked(b, q).first - 1 : s < b.first \/ s <= q
           /\ Released(b, q) \subseteq Seqs
<1> DEFINE f == IF q < b.first THEN b.first ELSE IF q < b.next THEN q + 1 ELSE b.next
           c == Acked(b, q)
<1>1. c = [b EXCEPT !.first = f, !.gap = AckedGap(b.gap, q)]
  BY DEF Acked
<1>2. b \in BufferType /\ b.gap \in Gap
  BY DEF Held, BufferType
<1>3. f \in Nat \ {0} /\ b.first <= f /\ f <= b.next
  BY <1>2 DEF Held, BufferType
<1>4. AckedGap(b.gap, q) \in Gap /\ AckedGap(b.gap, q).last < f
  BY <1>2 DEF AckedGap, Held, BufferType, Gap, NoGap
<1> HIDE DEF f
<1>5. c \in BufferType /\ c.first = f /\ c.next = b.next /\ c.gap = AckedGap(b.gap, q)
  BY <1>1, <1>2, <1>3, <1>4 DEF BufferType
<1>6. \A s \in 1 .. f - 1 : s < b.first \/ s <= q
  BY <1>2, <1>3 DEF f, BufferType
<1>7. Released(b, q) \subseteq Seqs
  BY HeldIs DEF Released
<1> QED BY <1>3, <1>4, <1>5, <1>6, <1>7 DEF Held, LastSeq

\* Handing the gap over leaves the lines.
LEMMA TakenHeld ==
    ASSUME NEW b, Held(b)
    PROVE  /\ Held(GapTaken(b)) /\ LastSeq(GapTaken(b)) = LastSeq(b)
           /\ GapTaken(b).first = b.first
BY DEF Held, BufferType, Gap, GapTaken, NoGap, LastSeq

-----------------------------------------------------------------------------
(* What is written to a link.                                              *)

\* A link that is the other but for what was written.
Wrote(k, k2, toApp, toEng) ==
    /\ k2.owner = k.owner /\ k2.appEnd = k.appEnd /\ k2.engEnd = k.engEnd
    /\ k2.toApp = toApp /\ k2.toEng = toEng

\* Frames for one link leave the others as they are.
LEMMA Delivers ==
    ASSUME NEW ls \in [Links -> Link], NEW l \in {0} \union Links, NEW out \in Seq(ToApp)
    PROVE  /\ Deliver(ls, l, out) \in [Links -> Link]
           /\ \A m \in Links : m # l \/ ~ls[m].appEnd \/ ~ls[m].engEnd =>
                 Deliver(ls, l, out)[m] = ls[m]
           /\ \A m \in Links : m = l /\ ls[m].appEnd /\ ls[m].engEnd =>
                 Wrote(ls[m], Deliver(ls, l, out)[m], ls[m].toApp \o out, ls[m].toEng)
<1>0. 0 \notin Links
  BY Bounds
<1>1. CASE l # 0 /\ ls[l].appEnd /\ ls[l].engEnd
  <2> DEFINE w == ls[l].toApp \o out
             k2 == [ls[l] EXCEPT !.toApp = w]
  <2>1. l \in Links /\ ls[l] \in Link /\ w \in Seq(ToApp)
    BY <1>1, ConcatProperties DEF Link
  <2>3. Deliver(ls, l, out) = [ls EXCEPT ![l] = k2]
    BY <1>1 DEF Deliver
  <2> HIDE DEF w
  <2>2. k2 \in Link /\ Wrote(ls[l], k2, w, ls[l].toEng)
    BY <2>1 DEF Link, Wrote
  <2> HIDE DEF k2
  <2>4. Deliver(ls, l, out) \in [Links -> Link] /\ Deliver(ls, l, out)[l] = k2
        /\ \A m \in Links : m # l => Deliver(ls, l, out)[m] = ls[m]
    BY <2>1, <2>2, <2>3
  <2> QED BY <1>1, <2>2, <2>4 DEF w
<1>2. CASE ~(l # 0 /\ ls[l].appEnd /\ ls[l].engEnd)
  <2>1. Deliver(ls, l, out) = ls
    BY <1>2 DEF Deliver
  <2> QED BY <1>0, <1>2, <2>1
<1> QED BY <1>1, <1>2

\* And a request likewise.
LEMMA AsksOne ==
    ASSUME NEW ls \in [Links -> Link], NEW l \in {0} \union Links, NEW f \in ToEng
    PROVE  /\ Ask(ls, l, f) \in [Links -> Link]
           /\ \A m \in Links : m # l \/ ~ls[m].engEnd => Ask(ls, l, f)[m] = ls[m]
           /\ \A m \in Links : m = l /\ ls[m].engEnd =>
                 Wrote(ls[m], Ask(ls, l, f)[m], ls[m].toApp, Append(ls[m].toEng, f))
<1>0. 0 \notin Links
  BY Bounds
<1>1. CASE l # 0 /\ ls[l].engEnd
  <2> DEFINE w == Append(ls[l].toEng, f)
             k2 == [ls[l] EXCEPT !.toEng = w]
  <2>1. l \in Links /\ ls[l] \in Link /\ w \in Seq(ToEng)
    BY <1>1, AppendProperties DEF Link
  <2>3. Ask(ls, l, f) = [ls EXCEPT ![l] = k2]
    BY <1>1 DEF Ask
  <2> HIDE DEF w
  <2>2. k2 \in Link /\ Wrote(ls[l], k2, ls[l].toApp, w)
    BY <2>1 DEF Link, Wrote
  <2> HIDE DEF k2
  <2>4. Ask(ls, l, f) \in [Links -> Link] /\ Ask(ls, l, f)[l] = k2
        /\ \A m \in Links : m # l => Ask(ls, l, f)[m] = ls[m]
    BY <2>1, <2>2, <2>3
  <2> QED BY <1>1, <2>2, <2>4 DEF w
<1>2. CASE ~(l # 0 /\ ls[l].engEnd)
  <2>1. Ask(ls, l, f) = ls
    BY <1>2 DEF Ask
  <2> QED BY <1>0, <1>2, <2>1
<1> QED BY <1>1, <1>2

\* The bare frames.
LEMMA BareIs == \A o \in Bare : Op(o) \in ToApp /\ <<Op(o)>> \in Seq(ToApp) /\ Op(o).op = o
BY DEF Op, ToApp

\* An offer is one frame more on each link that is there.
LEMMA Offers ==
    ASSUME NEW ls \in [Links -> Link]
    PROVE  /\ Offered(ls) \in [Links -> Link]
           /\ \A m \in Links : ~ls[m].appEnd \/ ~ls[m].engEnd => Offered(ls)[m] = ls[m]
           /\ \A m \in Links : ls[m].appEnd /\ ls[m].engEnd =>
                 Wrote(ls[m], Offered(ls)[m], ls[m].toApp \o <<Op("held")>>, ls[m].toEng)
<1>1. Op("held") \in ToApp
  BY BareIs DEF Bare
<1>2. ASSUME NEW m \in Links
      PROVE  /\ Wrote(ls[m], [ls[m] EXCEPT !.toApp = Append(ls[m].toApp, Op("held"))],
                      ls[m].toApp \o <<Op("held")>>, ls[m].toEng)
             /\ [ls[m] EXCEPT !.toApp = Append(ls[m].toApp, Op("held"))] \in Link
  <2> DEFINE w == Append(ls[m].toApp, Op("held"))
  <2>1. ls[m] \in Link /\ ls[m].toApp \in Seq(ToApp)
    BY DEF Link
  <2>2. w \in Seq(ToApp)
    BY <1>1, <2>1, AppendProperties
  <2>3. w = ls[m].toApp \o <<Op("held")>>
    BY <1>1, <2>1, AppendIsConcat
  <2> HIDE DEF w
  <2>4. [ls[m] EXCEPT !.toApp = w] \in Link /\ Wrote(ls[m], [ls[m] EXCEPT !.toApp = w], w, ls[m].toEng)
    BY <2>1, <2>2 DEF Link, Wrote
  <2> QED BY <2>3, <2>4 DEF w
<1> QED BY <1>2 DEF Offered

-----------------------------------------------------------------------------
(* What a flush sends.                                                     *)

IsLine(f) == f.op = "line"

\* Lines i .. j, in order and each once, and perhaps other frames.
Runs(t, i, j) ==
    /\ \A n \in DOMAIN t : IsLine(t[n]) =>
          /\ t[n].seq \in i .. j
          /\ \A s \in i .. t[n].seq - 1 : \E m \in 1 .. n - 1 : IsLine(t[m]) /\ t[m].seq = s
    /\ \A s \in i .. j : \E n \in DOMAIN t : IsLine(t[n]) /\ t[n].seq = s
    /\ \A m, n \in DOMAIN t : m < n /\ IsLine(t[m]) /\ IsLine(t[n]) => t[m].seq < t[n].seq

\* A run of lines is one.
LEMMA LinesRun ==
    ASSUME NEW n \in Socks, NEW i \in Nat \ {0}, NEW j \in Nat, j <= MaxSeq
    PROVE  /\ LineFrames(n, i, j) \in Seq(ToApp)
           /\ Len(LineFrames(n, i, j)) = IF i > j THEN 0 ELSE j - i + 1
           /\ \A k \in 1 .. j - i + 1 : LineFrames(n, i, j)[k] = Line(n, i + k - 1)
<1>1. \A k \in 1 .. j - i + 1 : Line(n, i + k - 1) \in ToApp
  BY Bounds DEF Line, ToApp, Seqs
<1>2. CASE i > j
  <2>1. 1 .. j - i + 1 = 1 .. 0
    BY <1>2
  <2>2. [k \in 1 .. 0 |-> Line(n, i + k - 1)] \in Seq(ToApp)
    BY <1>1, <2>1, IsASeq
  <2> DEFINE z == [k \in 1 .. 0 |-> Line(n, i + k - 1)]
  <2>3. LineFrames(n, i, j) = z
    BY <2>1 DEF LineFrames
  <2>4. DOMAIN z = 1 .. 0
    OBVIOUS
  <2> HIDE DEF z
  <2>5. Len(z) = 0
    BY <2>2, <2>4, LenProperties DEF z
  <2>6. z \in Seq(ToApp)
    BY <2>2 DEF z
  <2> QED BY <1>2, <2>1, <2>3, <2>5, <2>6
<1>3. CASE i <= j
  <2>1. j - i + 1 \in Nat
    BY <1>3
  <2>2. LineFrames(n, i, j) \in Seq(ToApp)
    BY <1>1, <2>1, IsASeq DEF LineFrames
  <2> QED BY <1>3, <2>1, <2>2 DEF LineFrames
<1> QED BY <1>2, <1>3

\* `live' may come between two of them.
LEMMA LiveRuns ==
    ASSUME NEW u, u.sock \in Socks, u.liveAfter \in Nat,
           NEW i \in Nat \ {0}, NEW j \in Nat, j <= MaxSeq
    PROVE  /\ WithLive(u, i, j) \in Seq(ToApp) /\ Runs(WithLive(u, i, j), i, j)
           /\ \A k \in DOMAIN WithLive(u, i, j) : WithLive(u, i, j)[k].op \in {"line", "live"}
<1> DEFINE at == IF i > u.liveAfter THEN i ELSE u.liveAfter
           w  == WithLive(u, i, j)
<1>l. \A s \in Nat : Line(u.sock, s).op = "line" /\ Line(u.sock, s).seq = s
  BY DEF Line
<1>1. CASE u.liveAfter = 0 \/ at > j
  <2>1. w = LineFrames(u.sock, i, j)
    BY <1>1 DEF WithLive
  <2> HIDE DEF w
  <2>2. w \in Seq(ToApp) /\ Len(w) = (IF i > j THEN 0 ELSE j - i + 1)
        /\ \A k \in 1 .. j - i + 1 : w[k] = Line(u.sock, i + k - 1)
    BY <2>1, LinesRun
  <2>3. DOMAIN w = 1 .. j - i + 1
    BY <2>2, LenProperties
  <2>4. \A k \in DOMAIN w : w[k].op = "line" /\ w[k].seq = i + k - 1
    BY <2>2, <2>3, <1>l
  <2>5. ASSUME NEW s \in i .. j PROVE s - i + 1 \in DOMAIN w /\ w[s - i + 1].op = "line" /\ w[s - i + 1].seq = s
    BY <2>3, <2>4
  <2>6. Runs(w, i, j)
    <3>1. ASSUME NEW k \in DOMAIN w, NEW s \in i .. w[k].seq - 1
          PROVE  \E m \in 1 .. k - 1 : IsLine(w[m]) /\ w[m].seq = s
      <4>1. s \in i .. j /\ s - i + 1 \in 1 .. k - 1
        BY <2>3, <2>4
      <4> QED BY <2>5, <4>1 DEF IsLine
    <3>2. \A k \in DOMAIN w : w[k].seq \in i .. j
      BY <2>3, <2>4
    <3>3. \A m, n \in DOMAIN w : m < n => w[m].seq < w[n].seq
      BY <2>3, <2>4
    <3>4. \A s \in i .. j : \E n \in DOMAIN w : IsLine(w[n]) /\ w[n].seq = s
      BY <2>5 DEF IsLine
    <3> QED BY <3>1, <3>2, <3>3, <3>4 DEF Runs
  <2> QED BY <2>2, <2>4, <2>6 DEF w
<1>2. CASE ~(u.liveAfter = 0 \/ at > j)
  <2>1. at \in Nat /\ i <= at /\ at <= j
    BY <1>2
  <2> DEFINE o == <<Op("live")>>
  <2>2. w = LineFrames(u.sock, i, at) \o o \o LineFrames(u.sock, at + 1, j)
    BY <1>2 DEF WithLive
  <2> HIDE DEF at, w
  <2>3. PICK a \in Nat : a = at - i + 1
    BY <2>1
  <2>4. PICK c \in Nat : c = j - at
    BY <2>1
  <2> DEFINE p == LineFrames(u.sock, i, at)
  <2>5. /\ p \in Seq(ToApp) /\ Len(p) = a
        /\ \A k \in 1 .. a : p[k] = Line(u.sock, i + k - 1)
    <3>1. at <= MaxSeq /\ ~(i > at)
      BY <2>1, Bounds
    <3>2. /\ p \in Seq(ToApp) /\ Len(p) = (IF i > at THEN 0 ELSE at - i + 1)
          /\ \A k \in 1 .. at - i + 1 : p[k] = Line(u.sock, i + k - 1)
      BY <2>1, <3>1, LinesRun
    <3> HIDE DEF p
    <3> QED BY <2>3, <3>1, <3>2
  <2>p. p = LineFrames(u.sock, i, at)
    OBVIOUS
  <2> HIDE DEF p
  <2>6. PICK q : /\ q = LineFrames(u.sock, at + 1, j) /\ q \in Seq(ToApp) /\ Len(q) = c
                 /\ \A k \in 1 .. c : q[k] = Line(u.sock, i + a + k - 1)
    <3> DEFINE b == at + 1
               q == LineFrames(u.sock, b, j)
    <3>1. b \in Nat \ {0} /\ b = i + a /\ c = j - b + 1 /\ (c = IF b > j THEN 0 ELSE j - b + 1)
      BY <2>1, <2>3, <2>4
    <3> HIDE DEF b
    <3>2. q \in Seq(ToApp) /\ Len(q) = c /\ \A k \in 1 .. c : q[k] = Line(u.sock, b + k - 1)
      <4>1. /\ q \in Seq(ToApp) /\ Len(q) = (IF b > j THEN 0 ELSE j - b + 1)
            /\ \A k \in 1 .. j - b + 1 : q[k] = Line(u.sock, b + k - 1)
        BY <3>1, LinesRun
      <4> QED BY <3>1, <4>1
    <3> HIDE DEF q
    <3>3. q = LineFrames(u.sock, at + 1, j)
      BY DEF q, b
    <3> QED BY <3>1, <3>2, <3>3
  <2>7. o \in Seq(ToApp) /\ Len(o) = 1 /\ o[1].op = "live"
    BY BareIs DEF Bare, Op
  <2> HIDE DEF o
  <2> DEFINE r == p \o o
  <2>8. /\ r \in Seq(ToApp) /\ Len(r) = a + 1
        /\ \A k \in 1 .. a + 1 : r[k] = IF k <= a THEN p[k] ELSE o[k - a]
    <3>1. /\ p \o o \in Seq(ToApp) /\ Len(p \o o) = Len(p) + Len(o)
          /\ \A k \in 1 .. Len(p) + Len(o) : (p \o o)[k] =
                IF k <= Len(p) THEN p[k] ELSE o[k - Len(p)]
      BY <2>5, <2>7, ConcatProperties
    <3> HIDE DEF r
    <3>2. r = p \o o
      BY DEF r
    <3> QED BY <2>5, <2>7, <3>1, <3>2
  <2>r. r = p \o o
    OBVIOUS
  <2> HIDE DEF r
  <2>9. /\ w \in Seq(ToApp) /\ Len(w) = a + 1 + c
        /\ \A k \in 1 .. a + 1 + c : w[k] = IF k <= a + 1 THEN r[k] ELSE q[k - (a + 1)]
    <3>1. w = r \o q
      BY <2>2, <2>p, <2>r, <2>6
    <3>2. /\ r \o q \in Seq(ToApp) /\ Len(r \o q) = Len(r) + Len(q)
          /\ \A k \in 1 .. Len(r) + Len(q) : (r \o q)[k] =
                IF k <= Len(r) THEN r[k] ELSE q[k - Len(r)]
      BY <2>6, <2>8, ConcatProperties, ZenonT(60)
    <3> QED BY <2>6, <2>8, <3>1, <3>2
  <2>10. DOMAIN w = 1 .. a + 1 + c
    BY <2>9, LenProperties
  <2>11. ASSUME NEW k \in DOMAIN w
         PROVE  /\ k <= a => w[k].op = "line" /\ w[k].seq = i + k - 1
                /\ k = a + 1 => w[k].op = "live"
                /\ k > a + 1 => w[k].op = "line" /\ w[k].seq = i + k - 2
    <3>1. CASE k <= a
      <4>1. k \in 1 .. a /\ k \in 1 .. a + 1 /\ k \in 1 .. a + 1 + c /\ k <= a + 1
        BY <2>10, <3>1
      <4>2. w[k] = Line(u.sock, i + k - 1)
        BY <2>5, <2>8, <2>9, <3>1, <4>1
      <4> QED BY <3>1, <4>1, <4>2, <1>l
    <3>2. CASE k = a + 1
      <4>1. k \in 1 .. a + 1 /\ k \in 1 .. a + 1 + c /\ k <= a + 1 /\ ~(k <= a) /\ k - a = 1
        BY <2>10, <3>2
      <4>2. w[k] = o[1]
        BY <2>8, <2>9, <4>1
      <4> QED BY <2>7, <3>2, <4>1, <4>2
    <3>3. CASE k > a + 1
      <4>0. k \in Nat /\ k <= a + 1 + c
        BY <2>10
      <4>1. /\ k - (a + 1) \in 1 .. c /\ i + a + (k - (a + 1)) - 1 = i + k - 2
            /\ k \in 1 .. a + 1 + c /\ ~(k <= a + 1) /\ i + k - 2 \in Nat
        BY <3>3, <4>0
      <4>2. w[k] = q[k - (a + 1)]
        BY <2>9, <4>1
      <4>3. w[k] = Line(u.sock, i + k - 2)
        BY <2>6, <4>1, <4>2
      <4> QED BY <3>3, <4>1, <4>3, <1>l
    <3> QED BY <2>10, <3>1, <3>2, <3>3
  <2>12. i + a + c = j + 1
    BY <2>1, <2>3, <2>4
  <2> DEFINE place(s) == IF s < i + a THEN s - i + 1 ELSE s - i + 2
  <2>13. ASSUME NEW s \in i .. j
         PROVE  place(s) \in DOMAIN w /\ w[place(s)].op = "line" /\ w[place(s)].seq = s
    BY <2>10, <2>11, <2>12
  <2>14. Runs(w, i, j)
    <3>1. ASSUME NEW k \in DOMAIN w, w[k].op = "line"
          PROVE  w[k].seq \in i .. j /\ k = place(w[k].seq)
      <4>1. k \in Nat /\ 1 <= k /\ k <= a + 1 + c
        BY <2>10
      <4>2. CASE k <= a
        BY <2>11, <2>12, <4>1, <4>2
      <4>3. CASE k > a
        BY <2>11, <2>12, <3>1, <4>1, <4>3
      <4> QED BY <4>1, <4>2, <4>3
    <3>2. ASSUME NEW s \in i .. j, NEW z \in i .. j, s < z
          PROVE  place(s) \in 1 .. place(z) - 1
      BY <3>2
    <3>3. ASSUME NEW s \in i .. j, NEW z \in i .. j, place(s) < place(z)
          PROVE  s < z
      BY <3>3
    <3> HIDE DEF place
    <3>4. ASSUME NEW k \in DOMAIN w, IsLine(w[k]), NEW s \in i .. w[k].seq - 1
          PROVE  \E m \in 1 .. k - 1 : IsLine(w[m]) /\ w[m].seq = s
      <4>1. w[k].seq \in i .. j /\ k = place(w[k].seq)
        BY <3>1, <3>4 DEF IsLine
      <4>2. s \in i .. j /\ s < w[k].seq
        BY <4>1
      <4> QED BY <2>13, <3>2, <4>1, <4>2 DEF IsLine
    <3>5. ASSUME NEW m \in DOMAIN w, NEW n \in DOMAIN w, m < n, IsLine(w[m]), IsLine(w[n])
          PROVE  w[m].seq < w[n].seq
      BY <3>1, <3>3, <3>5 DEF IsLine
    <3> QED BY <2>13, <3>1, <3>4, <3>5 DEF Runs, IsLine
  <2>15. \A k \in DOMAIN w : w[k].op \in {"line", "live"}
    BY <2>10, <2>11
  <2> QED BY <2>9, <2>14, <2>15 DEF w
<1> QED BY <1>1, <1>2

\* What a flush of u is: v is what u becomes, out what its sink is sent.
Flows(u, v, out) ==
    /\ v.st = u.st /\ v.sock = u.sock /\ v.sink = u.sink
    /\ v.buf.first = u.buf.first /\ LastSeq(v.buf) = LastSeq(u.buf)
    /\ u.sent <= v.sent
    /\ out \in Seq(ToApp)
    /\ \A n \in DOMAIN out : out[n].op \in {"gap", "line", "live"}
    /\ \A n \in DOMAIN out : IsLine(out[n]) =>
          /\ u.sent < out[n].seq /\ out[n].seq <= v.sent
          /\ \A s \in 1 .. out[n].seq - 1 :
                \/ s <= u.sent \/ s < u.buf.first
                \/ \E m \in 1 .. n - 1 : IsLine(out[m]) /\ out[m].seq = s
    /\ \A s \in 1 .. v.sent :
          \/ s <= u.sent \/ s < u.buf.first
          \/ \E n \in DOMAIN out : IsLine(out[n]) /\ out[n].seq = s
    /\ \A m, n \in DOMAIN out :
          m < n /\ IsLine(out[m]) /\ IsLine(out[n]) => out[m].seq < out[n].seq

\* Other frames before or after a run do not matter to it.
LEMMA RunsPadded ==
    ASSUME NEW i \in Nat, NEW j \in Nat, NEW t \in Seq(ToApp), Runs(t, i, j),
           NEW f \in ToApp, ~IsLine(f)
    PROVE  Runs(<<f>> \o t, i, j) /\ Runs(t \o <<f>>, i, j)
<1> DEFINE h == <<f>> \o t
           e == t \o <<f>>
           n == Len(t)
<1>0. n \in Nat /\ DOMAIN t = 1 .. n /\ \A k \in 1 .. n : t[k] \in ToApp
  BY LenProperties, ElementOfSeq
<1>1. /\ h \in Seq(ToApp) /\ DOMAIN h = 1 .. n + 1 /\ h[1] = f
      /\ \A k \in 1 .. n : h[k + 1] = t[k]
  <2>1. /\ h \in Seq(ToApp) /\ Len(h) = 1 + n
        /\ \A k \in 1 .. 1 + n : h[k] = IF k <= 1 THEN <<f>>[k] ELSE t[k - 1]
    BY ConcatProperties, Len(<<f>>) = 1
  <2> HIDE DEF h, n
  <2>2. \A k \in 1 .. n : k + 1 \in 1 .. 1 + n /\ ~(k + 1 <= 1) /\ (k + 1) - 1 = k
    BY <1>0
  <2> QED BY <1>0, <2>1, <2>2, LenProperties
<1>2. /\ e \in Seq(ToApp) /\ DOMAIN e = 1 .. n + 1 /\ e[n + 1] = f
      /\ \A k \in 1 .. n : e[k] = t[k]
  <2>1. /\ e \in Seq(ToApp) /\ Len(e) = n + 1
        /\ \A k \in 1 .. n + 1 : e[k] = IF k <= n THEN t[k] ELSE <<f>>[k - n]
    BY ConcatProperties, Len(<<f>>) = 1
  <2> HIDE DEF e, n
  <2> QED BY <1>0, <2>1, LenProperties
<1> HIDE DEF h, e, n
<1>3. Runs(h, i, j)
  <2>1. ASSUME NEW k \in DOMAIN h, IsLine(h[k])
        PROVE  k - 1 \in 1 .. n /\ h[k] = t[k - 1] /\ IsLine(t[k - 1])
    BY <1>0, <1>1, <2>1
  <2>2. ASSUME NEW k \in 1 .. n, IsLine(t[k])
        PROVE  k + 1 \in DOMAIN h /\ h[k + 1] = t[k]
    BY <1>0, <1>1
  <2>3. ASSUME NEW k \in DOMAIN h, IsLine(h[k])
        PROVE  /\ h[k].seq \in i .. j
               /\ \A s \in i .. h[k].seq - 1 : \E m \in 1 .. k - 1 : IsLine(h[m]) /\ h[m].seq = s
    <3>1. k - 1 \in 1 .. n /\ h[k] = t[k - 1] /\ IsLine(t[k - 1])
      BY <2>1, <2>3
    <3>2. ASSUME NEW s \in i .. h[k].seq - 1
          PROVE  \E m \in 1 .. k - 1 : IsLine(h[m]) /\ h[m].seq = s
      <4>1. PICK m \in 1 .. (k - 1) - 1 : IsLine(t[m]) /\ t[m].seq = s
        BY <1>0, <3>1 DEF Runs
      <4>2. m \in 1 .. n /\ m + 1 \in 1 .. k - 1
        BY <1>0, <3>1
      <4> QED BY <2>2, <4>1, <4>2
    <3> QED BY <1>0, <3>1, <3>2 DEF Runs
  <2>4. ASSUME NEW s \in i .. j PROVE \E k \in DOMAIN h : IsLine(h[k]) /\ h[k].seq = s
    <3>1. PICK k \in 1 .. n : IsLine(t[k]) /\ t[k].seq = s
      BY <1>0 DEF Runs
    <3> QED BY <2>2, <3>1
  <2>5. ASSUME NEW m \in DOMAIN h, NEW k \in DOMAIN h, m < k, IsLine(h[m]), IsLine(h[k])
        PROVE  h[m].seq < h[k].seq
    <3>1. m - 1 \in 1 .. n /\ h[m] = t[m - 1] /\ IsLine(t[m - 1])
      BY <2>1, <2>5
    <3>2. k - 1 \in 1 .. n /\ h[k] = t[k - 1] /\ IsLine(t[k - 1])
      BY <2>1, <2>5
    <3>3. m - 1 < k - 1
      BY <1>1, <2>5, <1>0
    <3> QED BY <1>0, <3>1, <3>2, <3>3 DEF Runs
  <2> QED BY <2>3, <2>4, <2>5 DEF Runs
<1>4. Runs(e, i, j)
  <2>1. ASSUME NEW k \in DOMAIN e, IsLine(e[k])
        PROVE  k \in 1 .. n /\ e[k] = t[k]
    BY <1>0, <1>2, <2>1
  <2>2. \A k \in 1 .. n : k \in DOMAIN e /\ e[k] = t[k]
    BY <1>0, <1>2
  <2>3. ASSUME NEW k \in DOMAIN e, IsLine(e[k])
        PROVE  /\ e[k].seq \in i .. j
               /\ \A s \in i .. e[k].seq - 1 : \E m \in 1 .. k - 1 : IsLine(e[m]) /\ e[m].seq = s
    <3>1. k \in 1 .. n /\ e[k] = t[k]
      BY <2>1, <2>3
    <3>2. \A m \in 1 .. k - 1 : m \in 1 .. n /\ e[m] = t[m]
      BY <1>0, <2>2, <3>1
    <3>3. ASSUME NEW s \in i .. e[k].seq - 1
          PROVE  \E m \in 1 .. k - 1 : IsLine(e[m]) /\ e[m].seq = s
      <4>1. k \in DOMAIN t /\ IsLine(t[k]) /\ s \in i .. t[k].seq - 1
        BY <1>0, <2>3, <3>1
      <4>2. PICK m \in 1 .. k - 1 : IsLine(t[m]) /\ t[m].seq = s
        BY <4>1 DEF Runs
      <4> QED BY <3>2, <4>2
    <3>4. e[k].seq \in i .. j
      BY <1>0, <2>3, <3>1 DEF Runs
    <3> QED BY <3>3, <3>4
  <2>4. \A s \in i .. j : \E k \in DOMAIN e : IsLine(e[k]) /\ e[k].seq = s
    BY <1>0, <2>2 DEF Runs
  <2>5. \A m, k \in DOMAIN e : m < k /\ IsLine(e[m]) /\ IsLine(e[k]) => e[m].seq < e[k].seq
    BY <1>0, <2>1 DEF Runs
  <2> QED BY <2>3, <2>4, <2>5 DEF Runs
<1> QED BY <1>3, <1>4 DEF h, e

\* What the parts of the upstream are.
LEMMA UpIs ==
    ASSUME NEW u, UpSound(u)
    PROVE  /\ u = [st |-> u.st, sock |-> u.sock, buf |-> u.buf, sink |-> u.sink,
                   sent |-> u.sent, stalled |-> u.stalled, liveAfter |-> u.liveAfter]
           /\ u.st \in {"none", "dialing", "open"} /\ u.sock \in 0 .. MaxSockets
           /\ Held(u.buf) /\ u.buf \in BufferType
           /\ u.buf.first \in Nat \ {0} /\ u.buf.next \in Nat \ {0} /\ u.buf.gap \in Gap
           /\ LastSeq(u.buf) \in Nat /\ LastSeq(u.buf) \in {0} \union Seqs
           /\ u.sink \in {0} \union Links /\ u.stalled \in BOOLEAN
           /\ u.sent \in {0} \union Seqs /\ u.sent \in Nat
           /\ u.liveAfter \in {0} \union Seqs /\ u.liveAfter \in Nat
           /\ u.st # "none" => u.sock \in Socks
<1>1. u \in Upstream /\ Held(u.buf) /\ (u.st # "none" => u.sock # 0)
  BY DEF UpSound
<1>2. u.sent \in {0} \union Seqs /\ u.liveAfter \in {0} \union Seqs /\ u.sock \in 0 .. MaxSockets
  BY <1>1 DEF Upstream
<1>3. u.sent \in Nat /\ u.liveAfter \in Nat /\ (u.sock # 0 => u.sock \in Socks)
  <2>0. MaxSeq \in Nat /\ MaxSockets \in Nat
    BY Bounds
  <2>1. u.sent \in Nat /\ u.liveAfter \in Nat
    BY <1>2, <2>0 DEF Seqs
  <2>2. u.sock # 0 => u.sock \in Socks
    BY <1>2, <2>0 DEF Socks
  <2> QED BY <2>1, <2>2
<1>4. /\ u = [st |-> u.st, sock |-> u.sock, buf |-> u.buf, sink |-> u.sink,
              sent |-> u.sent, stalled |-> u.stalled, liveAfter |-> u.liveAfter]
      /\ u.st \in {"none", "dialing", "open"} /\ u.sink \in {0} \union Links
      /\ u.stalled \in BOOLEAN /\ u.buf \in BufferType
  BY <1>1 DEF Upstream
<1> QED BY <1>1, <1>2, <1>3, <1>4, HeldIs

\* A run from the next owed line on is a flush.
LEMMA RunsFlow ==
    ASSUME NEW u, NEW v, UpSound(u), UpSound(v),
           v.st = u.st /\ v.sock = u.sock /\ v.sink = u.sink,
           v.buf.first = u.buf.first /\ LastSeq(v.buf) = LastSeq(u.buf),
           NEW k \in Nat, v.sent = IF NextOwed(u) > k THEN u.sent ELSE k,
           NEW out \in Seq(ToApp), Runs(out, NextOwed(u), k),
           \A n \in DOMAIN out : out[n].op \in {"gap", "line", "live"}
    PROVE  Flows(u, v, out)
<1> DEFINE i == NextOwed(u)
<1>0. u.sent \in Nat /\ v.sent \in Nat /\ u.buf.first \in Nat \ {0}
  BY UpIs
<1>1. i \in Nat /\ i > u.sent /\ \A s \in 1 .. i - 1 : s <= u.sent \/ s < u.buf.first
  BY <1>0 DEF NextOwed
<1>r. Runs(out, i, k) /\ v.sent = IF i > k THEN u.sent ELSE k
  OBVIOUS
<1> HIDE DEF i
<1>2. u.sent <= v.sent
  BY <1>0, <1>1, <1>r
<1>3. ASSUME NEW n \in DOMAIN out, IsLine(out[n])
      PROVE  /\ u.sent < out[n].seq /\ out[n].seq <= v.sent
             /\ \A s \in 1 .. out[n].seq - 1 :
                   \/ s <= u.sent \/ s < u.buf.first
                   \/ \E m \in 1 .. n - 1 : IsLine(out[m]) /\ out[m].seq = s
  <2>1. out[n].seq \in i .. k
    BY <1>3, <1>r DEF Runs
  <2>2. ASSUME NEW s \in 1 .. out[n].seq - 1, ~(s <= u.sent), ~(s < u.buf.first)
        PROVE  \E m \in 1 .. n - 1 : IsLine(out[m]) /\ out[m].seq = s
    <3>1. s \in i .. out[n].seq - 1
      BY <1>0, <1>1, <2>1, <2>2
    <3> QED BY <1>3, <1>r, <3>1 DEF Runs
  <2>3. i <= k /\ v.sent = k
    BY <1>1, <1>r, <2>1
  <2> QED BY <1>0, <1>1, <2>1, <2>2, <2>3
<1>4. ASSUME NEW s \in 1 .. v.sent, ~(s <= u.sent), ~(s < u.buf.first)
      PROVE  \E n \in DOMAIN out : IsLine(out[n]) /\ out[n].seq = s
  <2>1. s \in i .. k
    BY <1>0, <1>1, <1>4, <1>r
  <2> QED BY <1>r, <2>1 DEF Runs
<1>5. \A m, n \in DOMAIN out : m < n /\ IsLine(out[m]) /\ IsLine(out[n]) => out[m].seq < out[n].seq
  BY <1>r DEF Runs
<1> QED BY <1>2, <1>3, <1>4, <1>5 DEF Flows

AllOf(t, ops) == \A n \in DOMAIN t : t[n].op \in ops

\* One sequence after another.
LEMMA Joined ==
    ASSUME NEW s \in Seq(ToApp), NEW t \in Seq(ToApp)
    PROVE  /\ s \o t \in Seq(ToApp) /\ Len(s \o t) = Len(s) + Len(t)
           /\ Len(s) \in Nat /\ Len(t) \in Nat
           /\ DOMAIN s = 1 .. Len(s) /\ DOMAIN t = 1 .. Len(t)
           /\ DOMAIN (s \o t) = 1 .. Len(s) + Len(t)
           /\ \A i \in 1 .. Len(s) : (s \o t)[i] = s[i]
           /\ \A i \in 1 .. Len(t) : (s \o t)[Len(s) + i] = t[i]
           /\ \A i \in 1 .. Len(s) + Len(t) :
                 i > Len(s) => i - Len(s) \in 1 .. Len(t) /\ (s \o t)[i] = t[i - Len(s)]
<1> DEFINE r == s \o t
<1>1. Len(s) \in Nat /\ Len(t) \in Nat /\ DOMAIN s = 1 .. Len(s) /\ DOMAIN t = 1 .. Len(t)
  BY LenProperties
<1>2. /\ r \in Seq(ToApp) /\ Len(r) = Len(s) + Len(t)
      /\ \A i \in 1 .. Len(s) + Len(t) : r[i] = IF i <= Len(s) THEN s[i] ELSE t[i - Len(s)]
  BY ConcatProperties
<1> HIDE DEF r
<1>3. DOMAIN r = 1 .. Len(s) + Len(t)
  BY <1>2, LenProperties
<1>4. ASSUME NEW i \in 1 .. Len(s) PROVE r[i] = s[i]
  BY <1>1, <1>2
<1>5. ASSUME NEW i \in 1 .. Len(t) PROVE r[Len(s) + i] = t[i]
  <2>1. Len(s) + i \in 1 .. Len(s) + Len(t) /\ ~(Len(s) + i <= Len(s)) /\ Len(s) + i - Len(s) = i
    BY <1>1
  <2> QED BY <1>2, <2>1
<1>6. ASSUME NEW i \in 1 .. Len(s) + Len(t), i > Len(s)
      PROVE  i - Len(s) \in 1 .. Len(t) /\ r[i] = t[i - Len(s)]
  BY <1>1, <1>2, <1>6
<1> QED BY <1>1, <1>2, <1>3, <1>4, <1>5, <1>6 DEF r

\* What both are of, so is the whole.
LEMMA JoinedOf ==
    ASSUME NEW s \in Seq(ToApp), NEW t \in Seq(ToApp), NEW ops, AllOf(s, ops), AllOf(t, ops)
    PROVE  AllOf(s \o t, ops)
<1> SUFFICES ASSUME NEW i \in DOMAIN (s \o t) PROVE (s \o t)[i].op \in ops
  BY DEF AllOf
<1>1. i \in 1 .. Len(s) + Len(t)
  BY Joined
<1>2. CASE i <= Len(s)
  BY <1>1, <1>2, Joined DEF AllOf
<1>3. CASE i > Len(s)
  BY <1>1, <1>3, Joined DEF AllOf
<1> QED BY <1>1, <1>2, <1>3, Joined

\* The cursor moves, within the lines there are.
LEMMA Altered ==
    ASSUME NEW u, UpSound(u), u.st = "open", NEW k \in Nat, k <= LastSeq(u.buf),
           NEW b \in BOOLEAN, NEW a \in {0} \union Seqs,
           NEW x, x = [u EXCEPT !.sent = k, !.stalled = b, !.liveAfter = a]
    PROVE  /\ UpSound(x) /\ x.st = u.st /\ x.sock = u.sock /\ x.sink = u.sink
           /\ x.buf = u.buf /\ x.sent = k
<1>1. u \in Upstream /\ k \in {0} \union Seqs
  <2>1. LastSeq(u.buf) <= MaxSeq /\ LastSeq(u.buf) \in Nat /\ MaxSeq \in Nat
    BY UpIs, Bounds DEF UpSound, Held, LastSeq
  <2> QED BY <2>1 DEF UpSound, Seqs
<1>2. x \in Upstream /\ x.st = u.st /\ x.sock = u.sock /\ x.sink = u.sink
      /\ x.buf = u.buf /\ x.sent = k /\ x.stalled = b
  BY <1>1 DEF Upstream
<1> QED BY <1>2 DEF UpSound

\* EngineUpstream.flush sends what is owed, in order, as far as it gets.
LEMMA FlushFlows ==
    ASSUME NEW u, UpSound(u), u.st = "open", NEW f \in FlushOutcomes(u)
    PROVE  UpSound(f.u) /\ Flows(u, f.u, f.out)
<1> DEFINE due  == u.buf.gap.last > u.sent
           hole == IF due THEN <<GapFrame(u.sock, u.buf.gap)>> ELSE <<>>
           v    == IF due THEN [u EXCEPT !.buf = GapTaken(u.buf)] ELSE u
           from == NextOwed(v)
           to   == LastSeq(v.buf)
           done == IF from > to THEN v ELSE AfterLines(v, to)
           tail == IF done.liveAfter # 0 THEN <<Op("live")>> ELSE <<>>
<1>u. UpSound(u) /\ u.sock \in Socks /\ u.buf.gap \in Gap
  BY UpIs
<1>v. /\ UpSound(v) /\ v.st = u.st /\ v.sock = u.sock /\ v.sink = u.sink /\ v.sent = u.sent
      /\ v.buf.first = u.buf.first /\ LastSeq(v.buf) = LastSeq(u.buf)
      /\ v.liveAfter = u.liveAfter
  <2>1. CASE due
    <3>1. /\ Held(GapTaken(u.buf)) /\ LastSeq(GapTaken(u.buf)) = LastSeq(u.buf)
          /\ GapTaken(u.buf).first = u.buf.first
      BY UpIs, TakenHeld
    <3> DEFINE w == [u EXCEPT !.buf = GapTaken(u.buf)]
    <3>2. w \in Upstream /\ w.buf = GapTaken(u.buf) /\ w.st = u.st /\ w.sock = u.sock
          /\ w.sink = u.sink /\ w.sent = u.sent /\ w.liveAfter = u.liveAfter
          /\ w.stalled = u.stalled
      BY <3>1, UpIs DEF UpSound, Upstream, Held
    <3>3. v = w
      BY <2>1
    <3> HIDE DEF w, v
    <3>4. UpSound(w)
      BY <1>u, <3>1, <3>2 DEF UpSound
    <3> QED BY <3>1, <3>2, <3>3, <3>4
  <2>2. CASE ~due
    BY <2>2
  <2> QED BY <2>1, <2>2
<1>h. hole \in Seq(ToApp) /\ AllOf(hole, {"gap", "line", "live"})
      /\ (hole = <<>> \/ \E g \in ToApp : ~IsLine(g) /\ hole = <<g>>)
  <2>1. GapFrame(u.sock, u.buf.gap) \in ToApp /\ GapFrame(u.sock, u.buf.gap).op = "gap"
    BY <1>u DEF GapFrame, ToApp
  <2> QED BY <2>1 DEF AllOf, IsLine
<1>l. <<Op("live")>> \in Seq(ToApp) /\ Op("live") \in ToApp /\ ~IsLine(Op("live"))
      /\ AllOf(<<Op("live")>>, {"gap", "line", "live"})
  BY BareIs DEF Bare, AllOf, Op, IsLine
<1>n. from \in Nat \ {0} /\ to \in Nat /\ to <= MaxSeq /\ NextOwed(v) = NextOwed(u)
      /\ from > u.sent
  <2> HIDE DEF v
  <2>1. /\ v.sent \in Nat /\ v.buf.first \in Nat \ {0} /\ LastSeq(v.buf) \in Nat
        /\ Held(v.buf) /\ v.buf.next \in Nat
    BY <1>v, UpIs
  <2> QED BY <1>v, <2>1, Bounds DEF NextOwed, Held, LastSeq
<1>w. ASSUME NEW k \in Nat, k <= MaxSeq, NEW e \in {<<>>, <<Op("live")>>},
             NEW x, UpSound(x), x.st = u.st, x.sock = u.sock, x.sink = u.sink,
             x.buf.first = u.buf.first, LastSeq(x.buf) = LastSeq(u.buf),
             x.sent = IF from > k THEN u.sent ELSE k
      PROVE  Flows(u, x, hole \o WithLive(v, from, k) \o e)
  <2> DEFINE r == WithLive(v, from, k)
             y == hole \o r
  <2> HIDE DEF due, hole, v, from, to
  <2>1. r \in Seq(ToApp) /\ Runs(r, from, k) /\ AllOf(r, {"gap", "line", "live"})
    <3>1. v.sock \in Socks /\ v.liveAfter \in Nat
      BY <1>u, <1>v, UpIs
    <3> QED BY <1>n, <1>w, <3>1, LiveRuns DEF AllOf
  <2> HIDE DEF r
  <2>2. y \in Seq(ToApp) /\ Runs(y, from, k) /\ AllOf(y, {"gap", "line", "live"})
    <3>1. y \in Seq(ToApp) /\ AllOf(y, {"gap", "line", "live"})
      BY <1>h, <2>1, Joined, JoinedOf
    <3>2. CASE hole = <<>>
      BY <2>1, <3>1, <3>2, ConcatEmptySeq
    <3>3. CASE \E g \in ToApp : ~IsLine(g) /\ hole = <<g>>
      BY <1>n, <2>1, <3>1, <3>3, RunsPadded
    <3> QED BY <1>h, <3>1, <3>2, <3>3
  <2> HIDE DEF y
  <2>3. y \o e \in Seq(ToApp) /\ Runs(y \o e, from, k) /\ AllOf(y \o e, {"gap", "line", "live"})
    <3>1. CASE e = <<>>
      BY <2>2, <3>1, ConcatEmptySeq
    <3>2. CASE e = <<Op("live")>>
      BY <1>l, <1>n, <2>2, <3>2, Joined, JoinedOf, RunsPadded
    <3> QED BY <3>1, <3>2
  <2>4. from = NextOwed(u)
    BY <1>n DEF from
  <2>5. Flows(u, x, y \o e)
    BY <1>u, <1>w, <2>3, <2>4, RunsFlow DEF AllOf
  <2> QED BY <2>5 DEF y, r
<1>o. CASE u.sink = 0 \/ u.stalled
  <2>1. f.u = u /\ f.out = <<>>
    BY <1>o DEF FlushOutcomes
  <2>2. Flows(u, u, <<>>)
    BY UpIs DEF Flows
  <2> QED BY <2>1, <2>2
<1>q. ASSUME NEW k \in from .. to
      PROVE  /\ k \in Nat /\ k <= MaxSeq /\ ~(from > k)
             /\ AfterLines(v, k) = [v EXCEPT !.sent = k, !.liveAfter = AfterLines(v, k).liveAfter]
             /\ AfterLines(v, k).liveAfter \in {0} \union Seqs
             /\ AfterLines(v, k).stalled = v.stalled
  <2> HIDE DEF v, from, to
  <2>1. k \in Nat /\ k <= MaxSeq /\ ~(from > k)
    BY <1>n, Bounds
  <2>2. v = [st |-> v.st, sock |-> v.sock, buf |-> v.buf, sink |-> v.sink,
             sent |-> v.sent, stalled |-> v.stalled, liveAfter |-> v.liveAfter]
        /\ v.liveAfter \in {0} \union Seqs
    BY <1>v, UpIs
  <2> QED BY <2>1, <2>2 DEF AfterLines
<1>r. CASE ~(u.sink = 0 \/ u.stalled)
  <2>1. \/ f = [u |-> [done EXCEPT !.liveAfter = 0], out |-> hole \o WithLive(v, from, to) \o tail]
        \/ \E k \in from .. to : f = [u |-> [AfterLines(v, k) EXCEPT !.stalled = TRUE],
                                     out |-> hole \o WithLive(v, from, k)]
        \/ due /\ f = [u |-> [v EXCEPT !.stalled = TRUE], out |-> hole]
    BY <1>r DEF FlushOutcomes
  <2>v. v = [st |-> v.st, sock |-> v.sock, buf |-> v.buf, sink |-> v.sink,
             sent |-> v.sent, stalled |-> v.stalled, liveAfter |-> v.liveAfter]
        /\ v.liveAfter \in {0} \union Seqs /\ v.stalled \in BOOLEAN /\ v.sent \in Nat
        /\ v.sent <= LastSeq(v.buf) /\ v.st = "open"
    BY <1>v, UpIs DEF UpSound
  <2>h. hole \o <<>> = hole /\ \A k : (hole \o WithLive(v, from, k)) \o <<>> = hole \o WithLive(v, from, k)
    OBVIOUS
  <2>2. CASE f = [u |-> [done EXCEPT !.liveAfter = 0], out |-> hole \o WithLive(v, from, to) \o tail]
    <3> DEFINE x == [done EXCEPT !.liveAfter = 0]
               k == IF from > to THEN v.sent ELSE to
    <3>1. done = [v EXCEPT !.sent = k, !.liveAfter = done.liveAfter]
      <4>1. CASE from > to
        <5>1. done = v /\ k = v.sent
          BY <4>1
        <5> HIDE DEF v, done, k
        <5> QED BY <5>1, <2>v
      <4>2. CASE ~(from > to)
        <5>1. to \in from .. to /\ done = AfterLines(v, to) /\ k = to
          BY <1>n, <4>2
        <5> HIDE DEF v, from, to, done, k
        <5> QED BY <1>q, <5>1
      <4> QED BY <4>1, <4>2
    <3>k. k \in Nat /\ k <= to
      <4> HIDE DEF v
      <4> QED BY <1>n, <2>v
    <3> HIDE DEF k, done
    <3>2. x = [v EXCEPT !.sent = k, !.stalled = v.stalled, !.liveAfter = 0]
      <4> HIDE DEF v
      <4> QED BY <3>1, <2>v
    <3> HIDE DEF x
    <3>3. UpSound(x) /\ x.st = v.st /\ x.sock = v.sock /\ x.sink = v.sink
          /\ x.buf = v.buf /\ x.sent = k
      <4> HIDE DEF v
      <4>1. 0 \in {0} \union Seqs /\ k <= LastSeq(v.buf)
        BY <3>k
      <4> QED BY <1>v, <2>v, <3>2, <3>k, <4>1, Altered
    <3>4. Flows(u, x, hole \o WithLive(v, from, to) \o tail)
      <4>1. tail \in {<<>>, <<Op("live")>>}
        OBVIOUS
      <4>2. x.sent = IF from > to THEN u.sent ELSE to
        BY <1>v, <3>3 DEF k
      <4> HIDE DEF tail, hole, v, from, to
      <4> QED BY <1>n, <1>v, <1>w, <3>3, <4>1, <4>2
    <3>5. f.u = x /\ f.out = hole \o WithLive(v, from, to) \o tail
      BY <2>2 DEF x
    <3> HIDE DEF hole, tail, v, from, to
    <3> QED BY <3>3, <3>4, <3>5
  <2>3. ASSUME NEW k \in from .. to,
               f = [u |-> [AfterLines(v, k) EXCEPT !.stalled = TRUE],
                    out |-> hole \o WithLive(v, from, k)]
        PROVE  UpSound(f.u) /\ Flows(u, f.u, f.out)
    <3> DEFINE x == [AfterLines(v, k) EXCEPT !.stalled = TRUE]
               a == AfterLines(v, k).liveAfter
    <3>f. f.u = x /\ f.out = (hole \o WithLive(v, from, k)) \o <<>>
      BY <2>3, <2>h
    <3> HIDE DEF hole, tail, v, from, to, done
    <3>t. k <= to /\ to = LastSeq(v.buf)
      BY <1>n DEF to
    <3>1. k \in Nat /\ k <= MaxSeq /\ ~(from > k) /\ k <= LastSeq(v.buf)
          /\ AfterLines(v, k) = [v EXCEPT !.sent = k, !.liveAfter = a]
          /\ a \in {0} \union Seqs
      BY <1>q, <3>t
    <3> HIDE DEF a
    <3>2. x = [v EXCEPT !.sent = k, !.stalled = TRUE, !.liveAfter = a]
      BY <2>v, <3>1
    <3> HIDE DEF x
    <3>3. UpSound(x) /\ x.st = v.st /\ x.sock = v.sock /\ x.sink = v.sink
          /\ x.buf = v.buf /\ x.sent = k
      BY <1>v, <2>v, <3>1, <3>2, Altered
    <3>4. Flows(u, x, hole \o WithLive(v, from, k) \o <<>>)
      BY <1>v, <1>w, <3>1, <3>3
    <3> QED BY <3>f, <3>3, <3>4
  <2>4. CASE due /\ f = [u |-> [v EXCEPT !.stalled = TRUE], out |-> hole]
    <3> DEFINE x == [v EXCEPT !.stalled = TRUE]
               k == from - 1
    <3>f. f.u = x /\ f.out = hole
      BY <2>4
    <3> HIDE DEF hole, tail, v, from, to, done
    <3>1. k \in Nat /\ from > k
      BY <1>n
    <3>2. x = [v EXCEPT !.sent = v.sent, !.stalled = TRUE, !.liveAfter = v.liveAfter]
      BY <2>v
    <3> HIDE DEF x
    <3>3. UpSound(x) /\ x.st = v.st /\ x.sock = v.sock /\ x.sink = v.sink
          /\ x.buf = v.buf /\ x.sent = v.sent
      BY <1>v, <2>v, <3>2, Altered
    <3>4. Runs(hole, from, k)
      <4>1. \A n \in DOMAIN hole : ~IsLine(hole[n])
        BY <1>h
      <4> QED BY <1>n, <4>1 DEF Runs
    <3>5. \A n \in DOMAIN hole : hole[n].op \in {"gap", "line", "live"}
      BY <1>h DEF AllOf
    <3>6. from = NextOwed(u)
      BY <1>n DEF from
    <3>7. Flows(u, x, hole)
      BY <1>u, <1>v, <1>h, <3>1, <3>3, <3>4, <3>5, <3>6, RunsFlow
    <3> QED BY <3>f, <3>3, <3>7
  <2> QED BY <2>1, <2>2, <2>3, <2>4
<1> QED BY <1>o, <1>r

-----------------------------------------------------------------------------
(* In turn: what is said on a link.                                        *)

\* What is appended does not change who is up by then.
LEMMA SessionGrows ==
    ASSUME NEW t \in Seq(ToApp), NEW out \in Seq(ToApp), NEW st
    PROVE  /\ \A i \in 1 .. Len(t) + 1 : InSession(t, st, i) => InSession(t \o out, st, i)
           /\ \A i \in 1 .. Len(out) + 1 :
                 InSession(out, "asking", i) => InSession(t \o out, st, Len(t) + i)
           /\ InSession(t, st, Len(t) + 1) =>
                 \A i \in 1 .. Len(out) + 1 :
                    InSession(out, "up", i) => InSession(t \o out, st, Len(t) + i)
<1> DEFINE r == t \o out
           m == Len(t)
           n == Len(out)
<1>1. /\ m \in Nat /\ n \in Nat
      /\ \A i \in 1 .. m : r[i] = t[i]
      /\ \A i \in 1 .. n : r[m + i] = out[i]
      /\ \A i \in 1 .. m + n : i > m => i - m \in 1 .. n /\ r[i] = out[i - m]
  BY Joined
<1> HIDE DEF r, m, n
<1>2. ASSUME NEW i \in 1 .. m + 1, InSession(t, st, i)
      PROVE  InSession(r, st, i)
  <2>1. \A x \in 1 .. i - 1 : x \in 1 .. m /\ r[x] = t[x]
    BY <1>1
  <2>2. CASE \E j \in 1 .. i - 1 : Starts(t[j]) /\ \A x \in j + 1 .. i - 1 : ~Ends(t[x])
    <3>1. PICK j \in 1 .. i - 1 : Starts(t[j]) /\ \A x \in j + 1 .. i - 1 : ~Ends(t[x])
      BY <2>2
    <3>2. \A x \in j + 1 .. i - 1 : x \in 1 .. i - 1
      OBVIOUS
    <3>3. Starts(r[j]) /\ \A x \in j + 1 .. i - 1 : ~Ends(r[x])
      BY <2>1, <3>1, <3>2
    <3> QED BY <3>3 DEF InSession
  <2>3. CASE st = "up" /\ \A x \in 1 .. i - 1 : ~Ends(t[x])
    BY <2>1, <2>3 DEF InSession
  <2> QED BY <1>2, <2>2, <2>3 DEF InSession
<1>3. ASSUME NEW i \in 1 .. n + 1, NEW j \in 1 .. i - 1, Starts(out[j]),
             \A x \in j + 1 .. i - 1 : ~Ends(out[x])
      PROVE  InSession(r, st, m + i)
  <2>1. m + j \in 1 .. (m + i) - 1 /\ j \in 1 .. n
    BY <1>1
  <2>2. ASSUME NEW x \in (m + j) + 1 .. (m + i) - 1 PROVE ~Ends(r[x])
    <3>1. x \in 1 .. m + n /\ x > m /\ x - m \in j + 1 .. i - 1
      BY <1>1, <2>1
    <3> QED BY <1>1, <1>3, <3>1
  <2>3. Starts(r[m + j])
    BY <1>1, <1>3, <2>1
  <2> QED BY <2>1, <2>2, <2>3 DEF InSession
<1>4. ASSUME NEW i \in 1 .. n + 1, InSession(out, "asking", i)
      PROVE  InSession(r, st, m + i)
  <2>1. PICK j \in 1 .. i - 1 : Starts(out[j]) /\ \A x \in j + 1 .. i - 1 : ~Ends(out[x])
    BY <1>4 DEF InSession
  <2> QED BY <1>3, <2>1
<1>5. ASSUME InSession(t, st, m + 1), NEW i \in 1 .. n + 1, InSession(out, "up", i)
      PROVE  InSession(r, st, m + i)
  <2>1. CASE \E j \in 1 .. i - 1 : Starts(out[j]) /\ \A x \in j + 1 .. i - 1 : ~Ends(out[x])
    <3>1. PICK j \in 1 .. i - 1 : Starts(out[j]) /\ \A x \in j + 1 .. i - 1 : ~Ends(out[x])
      BY <2>1
    <3> QED BY <1>3, <3>1
  <2>2. CASE \A x \in 1 .. i - 1 : ~Ends(out[x])
    <3>1. ASSUME NEW x \in 1 .. (m + i) - 1, x <= m \/ x > m, x > m PROVE ~Ends(r[x])
      <4>1. x \in 1 .. m + n /\ x > m /\ x - m \in 1 .. i - 1
        BY <1>1, <3>1
      <4> QED BY <1>1, <2>2, <4>1
    <3>2. CASE st = "up" /\ \A x \in 1 .. (m + 1) - 1 : ~Ends(t[x])
      <4>1. ASSUME NEW x \in 1 .. (m + i) - 1 PROVE ~Ends(r[x])
        <5>1. CASE x <= m
          <6>1. x \in 1 .. m /\ x \in 1 .. (m + 1) - 1
            BY <1>1, <5>1
          <6> QED BY <1>1, <3>2, <6>1
        <5>2. CASE x > m
          BY <3>1, <5>2
        <5> QED BY <1>1, <5>1, <5>2
      <4> QED BY <3>2, <4>1 DEF InSession
    <3>3. CASE \E j \in 1 .. (m + 1) - 1 :
                  Starts(t[j]) /\ \A x \in j + 1 .. (m + 1) - 1 : ~Ends(t[x])
      <4>1. PICK j \in 1 .. (m + 1) - 1 :
                    Starts(t[j]) /\ \A x \in j + 1 .. (m + 1) - 1 : ~Ends(t[x])
        BY <3>3
      <4>2. j \in 1 .. m /\ j \in 1 .. (m + i) - 1
        BY <1>1
      <4>3. ASSUME NEW x \in j + 1 .. (m + i) - 1 PROVE ~Ends(r[x])
        <5>1. x \in 1 .. (m + i) - 1
          BY <4>2
        <5>2. CASE x <= m
          <6>1. x \in 1 .. m /\ x \in j + 1 .. (m + 1) - 1
            BY <1>1, <4>2, <5>2
          <6> QED BY <1>1, <4>1, <6>1
        <5>3. CASE x > m
          BY <3>1, <5>1, <5>3
        <5> QED BY <1>1, <5>1, <5>2, <5>3
      <4>4. Starts(r[j])
        BY <1>1, <4>1, <4>2
      <4> QED BY <4>2, <4>3, <4>4 DEF InSession
    <3> QED BY <1>5, <3>2, <3>3 DEF InSession
  <2> QED BY <1>5, <2>1, <2>2 DEF InSession
<1> QED BY <1>2, <1>4, <1>5 DEF r, m, n

\* Reading the first frame does not either, if the reader is up once it has
\* read a frame that starts a session, and stays up until one that ends it.
LEMMA SessionRead ==
    ASSUME NEW t \in Seq(ToApp), t # <<>>, NEW st, NEW st2,
           Starts(t[1]) => st2 = "up",
           st = "up" /\ ~Ends(t[1]) => st2 = "up"
    PROVE  /\ Tail(t) \in Seq(ToApp) /\ Len(Tail(t)) = Len(t) - 1 /\ Len(t) \in Nat \ {0}
           /\ \A i \in 1 .. Len(t) - 1 : Tail(t)[i] = t[i + 1]
           /\ \A i \in 1 .. Len(t) : InSession(t, st, i + 1) => InSession(Tail(t), st2, i)
<1> DEFINE r == Tail(t)
           m == Len(t)
<1>1. /\ r \in Seq(ToApp) /\ Len(r) = m - 1 /\ m \in Nat \ {0}
      /\ \A i \in 1 .. m - 1 : r[i] = t[i + 1]
  BY HeadTailProperties, LenProperties, EmptySeq
<1> HIDE DEF r, m
<1>2. ASSUME NEW i \in 1 .. m, InSession(t, st, i + 1)
      PROVE  InSession(r, st2, i)
  <2>0. \A x \in 1 .. i - 1 : x \in 1 .. m - 1 /\ x + 1 \in 2 .. i /\ r[x] = t[x + 1]
    BY <1>1
  <2>1. ASSUME NEW j \in 1 .. i, Starts(t[j]), \A x \in j + 1 .. i : ~Ends(t[x])
        PROVE  InSession(r, st2, i)
    <3>1. CASE j = 1
      <4>1. \A x \in 1 .. i - 1 : ~Ends(r[x])
        BY <2>0, <2>1, <3>1
      <4> QED BY <2>1, <3>1, <4>1 DEF InSession
    <3>2. CASE j # 1
      <4>1. j - 1 \in 1 .. i - 1 /\ (j - 1) + 1 = j
        BY <3>2
      <4>2. Starts(r[j - 1])
        BY <2>0, <2>1, <4>1
      <4>3. ASSUME NEW x \in (j - 1) + 1 .. i - 1 PROVE ~Ends(r[x])
        <5>1. x \in 1 .. i - 1 /\ x + 1 \in j + 1 .. i
          BY <4>1
        <5> QED BY <2>0, <2>1, <5>1
      <4> QED BY <4>1, <4>2, <4>3 DEF InSession
    <3> QED BY <3>1, <3>2
  <2>2. CASE \E j \in 1 .. (i + 1) - 1 : Starts(t[j]) /\ \A x \in j + 1 .. (i + 1) - 1 : ~Ends(t[x])
    <3>1. PICK j \in 1 .. (i + 1) - 1 : Starts(t[j]) /\ \A x \in j + 1 .. (i + 1) - 1 : ~Ends(t[x])
      BY <2>2
    <3>2. (i + 1) - 1 = i
      OBVIOUS
    <3> QED BY <2>1, <3>1, <3>2
  <2>3. CASE st = "up" /\ \A x \in 1 .. (i + 1) - 1 : ~Ends(t[x])
    <3>1. 1 \in 1 .. (i + 1) - 1 /\ \A x \in 2 .. i : x \in 1 .. (i + 1) - 1
      OBVIOUS
    <3>2. st2 = "up" /\ \A x \in 1 .. i - 1 : ~Ends(r[x])
      BY <2>0, <2>3, <3>1
    <3> QED BY <3>2 DEF InSession
  <2> QED BY <1>2, <2>2, <2>3 DEF InSession
<1> QED BY <1>1, <1>2 DEF r, m

\* The parts of a link.
LEMMA LinkIs ==
    ASSUME NEW k \in Link
    PROVE  /\ k.toApp \in Seq(ToApp) /\ k.toEng \in Seq(ToEng)
           /\ Len(k.toApp) \in Nat /\ DOMAIN k.toApp = 1 .. Len(k.toApp)
           /\ Len(k.toEng) \in Nat /\ DOMAIN k.toEng = 1 .. Len(k.toEng)
           /\ k.owner \in {0} \union Apps /\ k.appEnd \in BOOLEAN /\ k.engEnd \in BOOLEAN
BY LenProperties DEF Link

\* The session may leave the link, or lose its socket.
LEMMA TalkLess ==
    ASSUME NEW k, NEW st, NEW mine \in BOOLEAN, NEW open \in BOOLEAN, Talk(k, st, mine, open),
           NEW mine2 \in BOOLEAN, NEW open2 \in BOOLEAN, mine2 => mine /\ (open2 => open)
    PROVE  Talk(k, st, mine2, open2)
BY DEF Talk

\* EngineServer.offer: a frame that nobody need read.
LEMMA TalkHeld ==
    ASSUME NEW k \in Link, NEW k2 \in Link, NEW st, NEW mine \in BOOLEAN, NEW open \in BOOLEAN,
           Talk(k, st, mine, open), NEW open2 \in BOOLEAN,
           k2.toApp = k.toApp \o <<Op("held")>>, k2.toEng = k.toEng
    PROVE  Talk(k2, st, FALSE, open2)
<1> DEFINE t == k.toApp
           m == Len(t)
           r == k2.toApp
<1>1. /\ m \in Nat /\ DOMAIN t = 1 .. m /\ DOMAIN r = 1 .. m + 1
      /\ \A i \in 1 .. m : r[i] = t[i]
      /\ r[m + 1].op = "held"
  <2>1. t \in Seq(ToApp) /\ <<Op("held")>> \in Seq(ToApp) /\ Len(<<Op("held")>>) = 1
    BY LinkIs, BareIs DEF Bare
  <2>2. DOMAIN r = 1 .. m + 1 /\ m \in Nat /\ DOMAIN t = 1 .. m
        /\ (\A i \in 1 .. m : r[i] = t[i])
        /\ \A i \in 1 .. 1 : r[m + i] = <<Op("held")>>[i]
    BY <2>1, Joined
  <2> QED BY <2>2, BareIs DEF Bare
<1>2. \A i \in 1 .. m : InSession(t, st, i) => InSession(r, st, i)
  <2>1. t \in Seq(ToApp) /\ <<Op("held")>> \in Seq(ToApp)
    BY LinkIs, BareIs DEF Bare
  <2>2. \A i \in 1 .. m + 1 : InSession(t, st, i) => InSession(r, st, i)
    BY <2>1, SessionGrows
  <2>3. \A i \in 1 .. m : i \in 1 .. m + 1
    BY <1>1
  <2> QED BY <2>2, <2>3
<1>3. OnlyHeld(t) => OnlyHeld(r)
  BY <1>1 DEF OnlyHeld
<1>4. ASSUME NEW i \in DOMAIN r, NEW j \in DOMAIN r, r[i].op \in {"detached", "closed"}, i < j
      PROVE  r[j].op = "held"
  BY <1>1, <1>4 DEF Talk
<1>5. ASSUME NEW i \in DOMAIN r, r[i].op = "line" PROVE InSession(r, st, i)
  BY <1>1, <1>2, <1>5 DEF Talk
<1>6. Talk(k, st, FALSE, open2)
  BY TalkLess
<1>7. /\ Connects(k.toEng) # {} => st = "asking"
      /\ \A i, j \in Connects(k.toEng) : i = j
      /\ st \notin {"asking", "up"} \/ Connects(k.toEng) # {} => OnlyHeld(t)
  BY <1>6 DEF Talk
<1> HIDE DEF t, r, m
<1> QED BY <1>3, <1>4, <1>5, <1>7 DEF Talk, r

\* What a session may say once its link is in state `was`: it is the session of
\* that link afterwards only if it said no last word, with an open socket only if
\* it said so.
Speech(out, was, mine, open) ==
    /\ \A i, j \in DOMAIN out : out[i].op \in {"detached", "closed"} /\ i < j =>
           out[j].op = "held"
    /\ \A i \in DOMAIN out : out[i].op = "line" => InSession(out, was, i)
    /\ mine => \A i \in DOMAIN out : out[i].op \notin {"detached", "closed"}
    /\ mine /\ open => InSession(out, was, Len(out) + 1)

\* The session says more on its link: its first word once the socket is open,
\* then lines, and a last word when it leaves.
LEMMA TalkGrows ==
    ASSUME NEW k \in Link, NEW k2 \in Link, NEW st, NEW open \in BOOLEAN,
           k.engEnd, Talk(k, st, TRUE, open), NEW out \in Seq(ToApp),
           k2.toApp = k.toApp \o out, k2.toEng = k.toEng,
           NEW mine2 \in BOOLEAN, NEW open2 \in BOOLEAN, NEW was,
           open => was = "up", ~open => was = "asking",
           Speech(out, was, mine2, open2)
    PROVE  Talk(k2, st, mine2, open2)
<1> DEFINE t == k.toApp
           m == Len(t)
           n == Len(out)
           r == k2.toApp
<1>1. /\ m \in Nat /\ n \in Nat /\ DOMAIN t = 1 .. m /\ DOMAIN out = 1 .. n
      /\ DOMAIN r = 1 .. m + n /\ Len(r) = m + n
      /\ \A i \in 1 .. m : r[i] = t[i]
      /\ \A i \in 1 .. m + n : i > m => i - m \in 1 .. n /\ r[i] = out[i - m]
  BY LinkIs, Joined
<1>2. \A i \in 1 .. m + 1 : InSession(t, st, i) => InSession(r, st, i)
  BY LinkIs, SessionGrows
<1>3. \A i \in 1 .. n + 1 : InSession(out, was, i) => InSession(r, st, m + i)
  <2>1. CASE open
    <3>1. InSession(t, st, m + 1) /\ was = "up"
      BY <2>1 DEF Talk
    <3> QED BY <3>1, LinkIs, SessionGrows
  <2>2. CASE ~open
    BY <2>2, LinkIs, SessionGrows
  <2> QED BY <2>1, <2>2
<1>0. /\ \A i \in 1 .. m : t[i].op \notin {"detached", "closed"}
      /\ st \in {"asking", "up"} /\ Connects(k.toEng) = {}
      /\ \A i \in 1 .. m : t[i].op = "line" => InSession(t, st, i)
  BY <1>1 DEF Talk
<1>s. /\ \A i, j \in DOMAIN out : out[i].op \in {"detached", "closed"} /\ i < j =>
             out[j].op = "held"
      /\ \A i \in DOMAIN out : out[i].op = "line" => InSession(out, was, i)
      /\ mine2 => \A i \in DOMAIN out : out[i].op \notin {"detached", "closed"}
      /\ (mine2 /\ open2) => InSession(out, was, Len(out) + 1)
  BY DEF Speech
<1> HIDE DEF t, r, m, n
<1>4. ASSUME NEW i \in DOMAIN r, NEW j \in DOMAIN r, r[i].op \in {"detached", "closed"}, i < j
      PROVE  r[j].op = "held"
  <2>1. i \in 1 .. m + n /\ j \in 1 .. m + n
    BY <1>1
  <2>2. i > m
    BY <1>0, <1>1, <1>4, <2>1
  <2>3. i - m \in DOMAIN out /\ r[i] = out[i - m]
    BY <1>1, <2>1, <2>2
  <2>4. j > m /\ i - m < j - m
    BY <1>1, <1>4, <2>1, <2>2
  <2>5. j - m \in DOMAIN out /\ r[j] = out[j - m]
    BY <1>1, <2>1, <2>4
  <2> QED BY <1>4, <1>s, <2>3, <2>4, <2>5
<1>5. ASSUME NEW i \in DOMAIN r, r[i].op = "line" PROVE InSession(r, st, i)
  <2>1. CASE i <= m
    <3>1. i \in 1 .. m /\ i \in 1 .. m + 1
      BY <1>1, <2>1
    <3> QED BY <1>0, <1>1, <1>2, <1>5, <3>1
  <2>2. CASE i > m
    <3>1. i - m \in DOMAIN out /\ r[i] = out[i - m] /\ i - m \in 1 .. n + 1 /\ m + (i - m) = i
      BY <1>1, <2>2
    <3>2. InSession(out, was, i - m)
      BY <1>5, <1>s, <3>1
    <3>3. InSession(r, st, m + (i - m))
      BY <1>3, <3>1, <3>2
    <3> QED BY <3>1, <3>3
  <2> QED BY <1>1, <2>1, <2>2
<1>6. ASSUME mine2, NEW i \in DOMAIN r PROVE r[i].op \notin {"detached", "closed"}
  <2>1. CASE i <= m
    BY <1>0, <1>1, <2>1
  <2>2. CASE i > m
    BY <1>1, <1>6, <1>s, <2>2
  <2> QED BY <1>1, <2>1, <2>2
<1>7. ASSUME mine2, open2 PROVE InSession(r, st, Len(r) + 1)
  <2>1. Len(r) + 1 = m + (n + 1) /\ n + 1 \in 1 .. n + 1
    BY <1>1
  <2>2. InSession(out, was, n + 1)
    BY <1>7, <1>s DEF n
  <2>3. InSession(r, st, m + (n + 1))
    BY <1>3, <2>1, <2>2
  <2> QED BY <2>1, <2>3
<1>8. Connects(k2.toEng) = {} /\ st \in {"asking", "up"}
  BY <1>0
<1> QED BY <1>4, <1>5, <1>6, <1>7, <1>8 DEF Talk, r

\* What a flush sends is said by a session with an open socket.
LEMMA TalkFlows ==
    ASSUME NEW k \in Link, NEW k2 \in Link, NEW st, k.engEnd, Talk(k, st, TRUE, TRUE),
           NEW out \in Seq(ToApp), k2.toApp = k.toApp \o out, k2.toEng = k.toEng,
           \A n \in DOMAIN out : out[n].op \in {"gap", "line", "live"}
    PROVE  Talk(k2, st, TRUE, TRUE)
<1>1. DOMAIN out = 1 .. Len(out) /\ Len(out) \in Nat
  BY LenProperties
<1>2. ASSUME NEW i \in 1 .. Len(out) + 1 PROVE InSession(out, "up", i)
  <2>1. \A n \in 1 .. i - 1 : n \in DOMAIN out
    BY <1>1
  <2>2. \A n \in 1 .. i - 1 : ~Ends(out[n])
    BY <2>1 DEF Ends
  <2> QED BY <2>2 DEF InSession
<1>3. \A i \in DOMAIN out : InSession(out, "up", i)
  BY <1>1, <1>2
<1>4. InSession(out, "up", Len(out) + 1)
  BY <1>1, <1>2
<1>5. Speech(out, "up", TRUE, TRUE)
  BY <1>3, <1>4 DEF Speech
<1> QED BY <1>5, TalkGrows

\* A session whose socket opens, or is reported open, begins with that.
LEMMA TalkStarts ==
    ASSUME NEW k \in Link, NEW k2 \in Link, NEW st, k.engEnd, Talk(k, st, TRUE, FALSE),
           NEW out \in Seq(ToApp), k2.toApp = k.toApp \o out, k2.toEng = k.toEng,
           out # <<>>, Starts(out[1]),
           \A n \in DOMAIN out : n > 1 => out[n].op \in {"gap", "line", "live"}
    PROVE  Talk(k2, st, TRUE, TRUE)
<1>1. DOMAIN out = 1 .. Len(out) /\ Len(out) \in Nat \ {0}
  BY LenProperties, EmptySeq
<1>2. ASSUME NEW i \in 1 .. Len(out) + 1, i > 1 PROVE InSession(out, "asking", i)
  <2>1. 1 \in 1 .. i - 1 /\ \A n \in 1 + 1 .. i - 1 : n \in DOMAIN out /\ n > 1
    BY <1>1, <1>2
  <2>2. \A n \in 1 + 1 .. i - 1 : ~Ends(out[n])
    BY <2>1 DEF Ends
  <2> QED BY <2>1, <2>2 DEF InSession
<1>3. ASSUME NEW i \in DOMAIN out
      PROVE  out[i].op \notin {"detached", "closed"} /\ (out[i].op = "line" => i > 1)
  <2>1. CASE i = 1
    BY <2>1 DEF Starts
  <2>2. CASE i > 1
    BY <2>2
  <2> QED BY <1>1, <2>1, <2>2
<1>4. \A i \in DOMAIN out : out[i].op = "line" => InSession(out, "asking", i)
  BY <1>1, <1>2, <1>3
<1>5. InSession(out, "asking", Len(out) + 1)
  BY <1>1, <1>2
<1>6. Speech(out, "asking", TRUE, TRUE)
  BY <1>3, <1>4, <1>5 DEF Speech
<1> QED BY <1>6, TalkGrows

\* One frame that ends what the process has.
LEMMA TalkOnce ==
    ASSUME NEW k \in Link, NEW k2 \in Link, NEW st, NEW open \in BOOLEAN,
           k.engEnd, Talk(k, st, TRUE, open),
           NEW o \in {"detached", "closed", "dialing"}, k2.toApp = k.toApp \o <<Op(o)>>,
           k2.toEng = k.toEng, NEW mine2 \in BOOLEAN, NEW open2 \in BOOLEAN,
           mine2 => o = "dialing" /\ ~open2
    PROVE  Talk(k2, st, mine2, open2)
<1> DEFINE out == <<Op(o)>>
<1>1. out \in Seq(ToApp) /\ DOMAIN out = {1} /\ out[1].op = o
  BY BareIs DEF Bare
<1> HIDE DEF out
<1>2. \A i, j \in DOMAIN out : ~(i < j)
  BY <1>1
<1>3. \A i \in DOMAIN out : out[i].op # "line" /\ out[i].op = o
  BY <1>1
<1>4. k2.toApp = k.toApp \o out
  BY DEF out
<1>5. /\ \A i, j \in DOMAIN out : out[i].op \in {"detached", "closed"} /\ i < j =>
               out[j].op = "held"
      /\ mine2 => \A i \in DOMAIN out : out[i].op \notin {"detached", "closed"}
      /\ ~(mine2 /\ open2)
  BY <1>2, <1>3
<1>6. \E was : (open => was = "up") /\ (~open => was = "asking")
  <2>1. CASE open
    BY <2>1
  <2>2. CASE ~open
    BY <2>2
  <2> QED BY <2>1, <2>2
<1>7. PICK was : (open => was = "up") /\ (~open => was = "asking")
  BY <1>6
<1>8. \A i \in DOMAIN out : out[i].op = "line" => InSession(out, was, i)
  BY <1>3
<1>9. Speech(out, was, mine2, open2)
  BY <1>5, <1>8 DEF Speech
<1>10. k \in Link /\ k2 \in Link /\ k.engEnd /\ Talk(k, st, TRUE, open) /\ k2.toEng = k.toEng
       /\ open \in BOOLEAN /\ mine2 \in BOOLEAN /\ open2 \in BOOLEAN
  OBVIOUS
<1>11. out \in Seq(ToApp) /\ (open => was = "up") /\ (~open => was = "asking")
  BY <1>1, <1>7
<1> QED BY ONLY <1>4, <1>9, <1>10, <1>11, TalkGrows, Zenon

\* EngineServer.dispatch reads a frame; a CONNECT it may answer at once.
LEMMA TalkHeard ==
    ASSUME NEW k \in Link, NEW k2 \in Link, NEW st, NEW mine \in BOOLEAN, NEW open \in BOOLEAN,
           k.engEnd, Talk(k, st, mine, open), k.toEng # <<>>,
           k2.toApp = k.toApp, k2.toEng = Tail(k.toEng)
    PROVE  /\ Talk(k2, st, mine, open)
           /\ Head(k.toEng).op = "connect" => Talk(k2, st, TRUE, FALSE) /\ ~mine /\ st = "asking"
<1> DEFINE e == k.toEng
           r == k2.toEng
           m == Len(e)
<1>1. /\ m \in Nat \ {0} /\ DOMAIN e = 1 .. m /\ DOMAIN r = 1 .. m - 1
      /\ \A i \in 1 .. m - 1 : r[i] = e[i + 1]
      /\ Head(e) = e[1]
  <2>1. e \in Seq(ToEng) /\ e # <<>>
    BY LinkIs
  <2>2. m \in Nat \ {0} /\ DOMAIN e = 1 .. m
    BY <2>1, LenProperties, EmptySeq
  <2>3. Tail(e) \in Seq(ToEng) /\ Len(Tail(e)) = m - 1 /\ \A i \in 1 .. Len(Tail(e)) : Tail(e)[i] = e[i + 1]
    BY <2>1, HeadTailProperties
  <2>4. DOMAIN Tail(e) = 1 .. m - 1
    BY <2>3, LenProperties
  <2> QED BY <2>2, <2>3, <2>4
<1> HIDE DEF e, r, m
<1>2. \A i \in Connects(r) : i + 1 \in Connects(e)
  BY <1>1 DEF Connects
<1>3. Connects(r) # {} => Connects(e) # {}
  BY <1>2
<1>4. \A i, j \in Connects(e) : i = j
  BY DEF Talk, e
<1>5. \A i, j \in Connects(r) : i = j
  <2> SUFFICES ASSUME NEW i \in Connects(r), NEW j \in Connects(r) PROVE i = j
    OBVIOUS
  <2>1. i + 1 = j + 1 /\ i \in Nat /\ j \in Nat
    BY <1>1, <1>2, <1>4 DEF Connects
  <2> QED BY <2>1
<1>6. Talk(k2, st, mine, open)
  BY <1>3, <1>5 DEF Talk, e, r
<1>7. ASSUME Head(e).op = "connect" PROVE Talk(k2, st, TRUE, FALSE) /\ ~mine /\ st = "asking"
  <2>1. 1 \in Connects(e)
    BY <1>1, <1>7 DEF Connects
  <2>2. Connects(r) = {}
    BY <1>1, <1>2, <1>4, <2>1 DEF Connects
  <2>3. st = "asking" /\ OnlyHeld(k.toApp) /\ ~mine
    BY <2>1 DEF Talk, e
  <2> QED BY <1>5, <1>6, <2>2, <2>3 DEF Talk, r, OnlyHeld
<1> QED BY <1>6, <1>7 DEF e

\* A frame more for the engine, that is no CONNECT.
LEMMA TalkTold ==
    ASSUME NEW k \in Link, NEW k2 \in Link, NEW st, NEW mine \in BOOLEAN, NEW open \in BOOLEAN,
           Talk(k, st, mine, open), NEW f \in ToEng, f.op # "connect",
           k2.toApp = k.toApp, k2.toEng = Append(k.toEng, f), k2.engEnd = k.engEnd
    PROVE  Talk(k2, st, mine, open)
<1>1. /\ DOMAIN k.toEng = 1 .. Len(k.toEng) /\ DOMAIN k2.toEng = 1 .. Len(k.toEng) + 1
      /\ Len(k.toEng) \in Nat
      /\ \A i \in 1 .. Len(k.toEng) : k2.toEng[i] = k.toEng[i]
      /\ k2.toEng[Len(k.toEng) + 1] = f
  BY LinkIs, AppendProperties, LenProperties
<1>2. Connects(k2.toEng) = Connects(k.toEng)
  BY <1>1 DEF Connects
<1> QED BY <1>2 DEF Talk

\* A process that is told nothing asks.
LEMMA TalkAsked ==
    ASSUME NEW k \in Link, NEW k2 \in Link, NEW st, NEW mine \in BOOLEAN, NEW open \in BOOLEAN,
           Talk(k, st, mine, open), st \notin {"asking", "up"},
           k2.toApp = k.toApp, k2.engEnd = k.engEnd,
           k2.toEng = (IF k.engEnd THEN Append(k.toEng, Op("connect")) ELSE k.toEng)
    PROVE  Talk(k2, "asking", mine, open)
<1> DEFINE m == Len(k.toEng)
<1>0. Connects(k.toEng) = {} /\ OnlyHeld(k.toApp) /\ ~(mine /\ k.engEnd)
  BY DEF Talk
<1>1. /\ DOMAIN k.toEng = 1 .. m /\ m \in Nat
      /\ DOMAIN Append(k.toEng, Op("connect")) = 1 .. m + 1
      /\ \A i \in 1 .. m : Append(k.toEng, Op("connect"))[i] = k.toEng[i]
      /\ Append(k.toEng, Op("connect"))[m + 1] = Op("connect")
  <2>1. Op("connect") \in ToEng /\ k.toEng \in Seq(ToEng)
    BY LinkIs DEF Op, ToEng
  <2> QED BY <2>1, LinkIs, AppendProperties, LenProperties
<1> HIDE DEF m
<1>2. Connects(Append(k.toEng, Op("connect"))) \subseteq {m + 1}
  BY <1>0, <1>1 DEF Connects
<1>3. \A i, j \in Connects(k2.toEng) : i = j
  BY <1>0, <1>2
<1>4. \A i \in DOMAIN k2.toApp : k2.toApp[i].op = "held"
  BY <1>0 DEF OnlyHeld
<1> QED BY <1>0, <1>3, <1>4 DEF Talk, OnlyHeld

\* EngineTransport.onFrame: the process reads a frame, and is in st2 then.
Read(k, k2, st, st2) ==
    /\ k.toApp # <<>> /\ k2.toApp = Tail(k.toApp)
    /\ k2.toEng = k.toEng /\ k2.engEnd = k.engEnd
    /\ Starts(Head(k.toApp)) => st2 = "up"
    /\ Head(k.toApp).op = "dialing" => st2 = "asking"
    /\ Head(k.toApp).op \in {"held", "line", "gap", "live"} => st2 = st

LEMMA TalkReads ==
    ASSUME NEW k \in Link, NEW k2 \in Link, NEW st, NEW st2, NEW mine \in BOOLEAN, NEW open \in BOOLEAN,
           Talk(k, st, mine, open), Read(k, k2, st, st2)
    PROVE  /\ Talk(k2, st2, mine, open)
           /\ Head(k.toApp).op # "held" => st \in {"asking", "up"} /\ Connects(k.toEng) = {}
           /\ Head(k.toApp).op = "line" => st = "up"
<1> SUFFICES ASSUME k.toApp # <<>>, k2.toApp = Tail(k.toApp), k2.toEng = k.toEng,
                    k2.engEnd = k.engEnd, Starts(Head(k.toApp)) => st2 = "up",
                    Head(k.toApp).op = "dialing" => st2 = "asking",
                    Head(k.toApp).op \in {"held", "line", "gap", "live"} => st2 = st
             PROVE  /\ Talk(k2, st2, mine, open)
                    /\ Head(k.toApp).op # "held" => st \in {"asking", "up"} /\ Connects(k.toEng) = {}
                    /\ Head(k.toApp).op = "line" => st = "up"
  BY DEF Read
<1> DEFINE t == k.toApp
           m == Len(t)
           r == k2.toApp
<1>0. t \in Seq(ToApp) /\ t # <<>> /\ Head(t) = t[1]
  BY LinkIs
<1>t. t[1] \in ToApp /\ t[1].op \in Bare \union {"open", "attached", "line", "gap"}
  <2>1. t[1] \in ToApp
    BY <1>0, HeadTailProperties
  <2> QED BY <2>1 DEF ToApp
<1>1. /\ r \in Seq(ToApp) /\ Len(r) = m - 1 /\ m \in Nat \ {0}
      /\ \A i \in 1 .. m - 1 : r[i] = t[i + 1]
      /\ \A i \in 1 .. m : InSession(t, st, i + 1) => InSession(r, st2, i)
  <2>1. Starts(t[1]) => st2 = "up"
    BY <1>0
  <2>2. st = "up" /\ ~Ends(t[1]) => st2 = "up"
    BY <1>0, <1>t DEF Ends, Starts, Bare
  <2> QED BY <1>0, <2>1, <2>2, SessionRead
<1>2. DOMAIN t = 1 .. m /\ DOMAIN r = 1 .. m - 1 /\ 1 \in DOMAIN t
  BY <1>0, <1>1, LenProperties
<1>3. Head(t).op # "held" => st \in {"asking", "up"} /\ Connects(k.toEng) = {}
  BY <1>0, <1>2 DEF Talk, OnlyHeld
<1>4. Head(t).op = "line" => st = "up"
  <2> SUFFICES ASSUME t[1].op = "line" PROVE st = "up"
    BY <1>0
  <2>1. InSession(t, st, 1)
    BY <1>2 DEF Talk
  <2> QED BY <2>1 DEF InSession
<1>a. /\ \A i, j \in DOMAIN t : t[i].op \in {"detached", "closed"} /\ i < j => t[j].op = "held"
      /\ \A i \in DOMAIN t : t[i].op = "line" => InSession(t, st, i)
      /\ mine /\ k.engEnd => /\ \A i \in DOMAIN t : t[i].op \notin {"detached", "closed"}
                             /\ open => InSession(t, st, m + 1)
      /\ st \notin {"asking", "up"} \/ Connects(k.toEng) # {} => OnlyHeld(t) /\ ~(mine /\ k.engEnd)
      /\ Connects(k.toEng) # {} => st = "asking"
      /\ \A i, j \in Connects(k.toEng) : i = j
  BY DEF Talk
<1>s. t[1].op = "held" => st2 = st
  BY <1>0
<1>e. st2 \notin {"asking", "up"} => st \notin {"asking", "up"} \/ t[1].op \in {"detached", "closed"}
  BY <1>0, <1>t DEF Starts, Bare
<1> HIDE DEF t, r, m
<1>b. \A i \in DOMAIN r : i + 1 \in DOMAIN t /\ r[i] = t[i + 1]
  BY <1>1, <1>2
<1>h. OnlyHeld(t) => OnlyHeld(r)
  BY <1>b DEF OnlyHeld
<1>5. Connects(k2.toEng) # {} => st2 = "asking"
  BY <1>a, <1>s, <1>2 DEF OnlyHeld
<1>6. \A i, j \in Connects(k2.toEng) : i = j
  BY <1>a
<1>7. ASSUME st2 \notin {"asking", "up"} \/ Connects(k2.toEng) # {}
      PROVE  OnlyHeld(r) /\ ~(mine /\ k2.engEnd)
  <2>1. CASE st \notin {"asking", "up"} \/ Connects(k2.toEng) # {}
    BY <1>a, <1>h, <2>1
  <2>2. CASE t[1].op \in {"detached", "closed"}
    <3>1. \A i \in DOMAIN r : r[i].op = "held"
      <4> SUFFICES ASSUME NEW i \in DOMAIN r PROVE r[i].op = "held"
        OBVIOUS
      <4>1. 1 < i + 1 /\ i + 1 \in DOMAIN t /\ r[i] = t[i + 1]
        BY <1>b, <1>2, <1>1
      <4> QED BY <1>2, <1>a, <2>2, <4>1
    <3> QED BY <1>2, <1>a, <2>2, <3>1 DEF OnlyHeld
  <2> QED BY <1>7, <1>e, <2>1, <2>2
<1>8. ASSUME NEW i \in DOMAIN r, NEW j \in DOMAIN r, r[i].op \in {"detached", "closed"}, i < j
      PROVE  r[j].op = "held"
  <2>1. i + 1 \in DOMAIN t /\ j + 1 \in DOMAIN t /\ i + 1 < j + 1 /\ r[i] = t[i + 1] /\ r[j] = t[j + 1]
    BY <1>1, <1>2, <1>b, <1>8
  <2> QED BY <1>8, <1>a, <2>1
<1>9. ASSUME NEW i \in DOMAIN r, r[i].op = "line" PROVE InSession(r, st2, i)
  <2>1. i + 1 \in DOMAIN t /\ r[i] = t[i + 1] /\ i \in 1 .. m
    BY <1>1, <1>2, <1>b
  <2>2. InSession(t, st, i + 1)
    BY <1>9, <1>a, <2>1
  <2> QED BY <1>1, <2>1, <2>2
<1>10. ASSUME mine, k2.engEnd
       PROVE  /\ \A i \in DOMAIN r : r[i].op \notin {"detached", "closed"}
              /\ open => InSession(r, st2, Len(r) + 1)
  <2>1. \A i \in DOMAIN r : r[i].op \notin {"detached", "closed"}
    BY <1>10, <1>a, <1>b
  <2>2. ASSUME open PROVE InSession(r, st2, Len(r) + 1)
    <3>1. InSession(t, st, m + 1) /\ m \in 1 .. m /\ Len(r) + 1 = m
      BY <1>1, <1>10, <1>a, <2>2
    <3> QED BY <1>1, <3>1
  <2> QED BY <2>1, <2>2
<1>11. Talk(k2, st2, mine, open)
  BY <1>5, <1>6, <1>7, <1>8, <1>9, <1>10 DEF Talk, r
<1> QED BY <1>3, <1>4, <1>11 DEF t

\* EngineServer.sweepSilentLinks: what is not read is lost from the end.
LEMMA TalkCut ==
    ASSUME NEW k \in Link, NEW k2 \in Link, NEW st, NEW mine \in BOOLEAN, NEW open \in BOOLEAN,
           Talk(k, st, mine, open), k2.toApp \in PrefixesOf(k.toApp), k2.toEng = <<>>, ~k2.engEnd,
           NEW mine2 \in BOOLEAN, NEW open2 \in BOOLEAN
    PROVE  Talk(k2, st, mine2, open2)
<1> DEFINE t == k.toApp
           r == k2.toApp
<1>1. PICK n \in 0 .. Len(t) : r = SubSeq(t, 1, n)
  BY DEF PrefixesOf
<1>2. /\ n \in Nat /\ DOMAIN t = 1 .. Len(t) /\ Len(t) \in Nat /\ DOMAIN r = 1 .. n
      /\ \A i \in 1 .. n : i \in DOMAIN t /\ r[i] = t[i]
  <2>1. n \in Nat /\ DOMAIN t = 1 .. Len(t) /\ Len(t) \in Nat /\ n <= Len(t)
    BY LinkIs
  <2>2. \A i \in 1 .. n : t[i] \in ToApp
    BY <2>1, LinkIs, ElementOfSeq
  <2>3. /\ SubSeq(t, 1, n) \in Seq(ToApp) /\ Len(SubSeq(t, 1, n)) = (IF 1 <= n THEN n - 1 + 1 ELSE 0)
        /\ \A i \in 1 .. n - 1 + 1 : SubSeq(t, 1, n)[i] = t[1 + i - 1]
    BY <2>1, <2>2, SubSeqProperties
  <2>4. Len(r) = n /\ r \in Seq(ToApp) /\ \A i \in 1 .. n : r[i] = t[i]
    BY <1>1, <2>1, <2>3
  <2> QED BY <2>1, <2>4, LenProperties
<1>3. ASSUME NEW i \in 1 .. n, InSession(t, st, i) PROVE InSession(r, st, i)
  <2>1. \A x \in 1 .. i - 1 : x \in 1 .. n /\ r[x] = t[x]
    BY <1>2
  <2>2. CASE \E j \in 1 .. i - 1 : Starts(t[j]) /\ \A x \in j + 1 .. i - 1 : ~Ends(t[x])
    <3>1. PICK j \in 1 .. i - 1 : Starts(t[j]) /\ \A x \in j + 1 .. i - 1 : ~Ends(t[x])
      BY <2>2
    <3>2. \A x \in j + 1 .. i - 1 : x \in 1 .. i - 1
      OBVIOUS
    <3>3. Starts(r[j]) /\ \A x \in j + 1 .. i - 1 : ~Ends(r[x])
      BY <2>1, <3>1, <3>2
    <3> QED BY <3>3 DEF InSession
  <2>3. CASE st = "up" /\ \A x \in 1 .. i - 1 : ~Ends(t[x])
    BY <2>1, <2>3 DEF InSession
  <2> QED BY <1>3, <2>2, <2>3 DEF InSession
<1>4. OnlyHeld(t) => OnlyHeld(r)
  BY <1>2 DEF OnlyHeld
<1>5. Connects(k2.toEng) = {}
  BY DEF Connects
<1>a. /\ \A i, j \in DOMAIN t : t[i].op \in {"detached", "closed"} /\ i < j => t[j].op = "held"
      /\ \A i \in DOMAIN t : t[i].op = "line" => InSession(t, st, i)
      /\ st \notin {"asking", "up"} => OnlyHeld(t)
  BY DEF Talk
<1> HIDE DEF t, r
<1>6. ASSUME NEW i \in DOMAIN r, NEW j \in DOMAIN r, r[i].op \in {"detached", "closed"}, i < j
      PROVE  r[j].op = "held"
  BY <1>2, <1>6, <1>a
<1>7. ASSUME NEW i \in DOMAIN r, r[i].op = "line" PROVE InSession(r, st, i)
  BY <1>2, <1>3, <1>7, <1>a
<1> QED BY <1>4, <1>5, <1>6, <1>7, <1>a DEF Talk, r

-----------------------------------------------------------------------------
(* The engine's steps keep the invariant.                                  *)

\* What the engine does to a link leaves who has it.
Kept(k, k2) ==
    /\ k2.owner = k.owner /\ k2.appEnd = k.appEnd
    /\ k2.engEnd => k.engEnd
    /\ ~k.appEnd => k2.toApp = k.toApp

Stays(k, k2) == Kept(k, k2) /\ (k.engEnd => k2.engEnd)

\* What is said on link m, with the links as in ls and the session at sink.
Told(ls, m, sink, open) ==
    links[m].appEnd => Talk(ls[m], apps[links[m].owner].st, sink = m, open)

LEMMA DeliverKeeps ==
    ASSUME NEW ls \in [Links -> Link], NEW l \in {0} \union Links, NEW out \in Seq(ToApp)
    PROVE  \A m \in Links : /\ Kept(ls[m], Deliver(ls, l, out)[m])
                            /\ Deliver(ls, l, out)[m].engEnd = ls[m].engEnd
                            /\ Deliver(ls, l, out)[m].toEng = ls[m].toEng
<1> DEFINE ls2 == Deliver(ls, l, out)
<1>0. /\ \A m \in Links : m # l \/ ~ls[m].appEnd \/ ~ls[m].engEnd => ls2[m] = ls[m]
      /\ \A m \in Links : m = l /\ ls[m].appEnd /\ ls[m].engEnd =>
            Wrote(ls[m], ls2[m], ls[m].toApp \o out, ls[m].toEng)
  BY Delivers
<1> HIDE DEF ls2
<1>1. \A m \in Links : Kept(ls[m], ls2[m]) /\ ls2[m].engEnd = ls[m].engEnd /\ ls2[m].toEng = ls[m].toEng
  BY <1>0 DEF Kept, Wrote
<1> QED BY <1>1 DEF ls2

LEMMA OfferKeeps ==
    ASSUME NEW ls \in [Links -> Link]
    PROVE  \A m \in Links : /\ Kept(ls[m], Offered(ls)[m])
                            /\ Offered(ls)[m].engEnd = ls[m].engEnd
                            /\ Offered(ls)[m].toEng = ls[m].toEng
BY Offers DEF Kept, Wrote

\* An offer keeps every link in turn, if the session is nobody's.
LEMMA OfferTold ==
    ASSUME IInv, NEW ls \in [Links -> Link], NEW open \in BOOLEAN, NEW m \in Links,
           NEW sink, Told(ls, m, sink, open)
    PROVE  Told(Offered(ls), m, 0, open)
<1> DEFINE k2 == Offered(ls)[m]
           st == apps[links[m].owner].st
<1> SUFFICES ASSUME links[m].appEnd PROVE Talk(k2, st, FALSE, open)
  BY Bounds DEF Told
<1>1. /\ k2 \in Link /\ ls[m] \in Link
      /\ ~ls[m].appEnd \/ ~ls[m].engEnd => k2 = ls[m]
      /\ ls[m].appEnd /\ ls[m].engEnd =>
            Wrote(ls[m], k2, ls[m].toApp \o <<Op("held")>>, ls[m].toEng)
  BY Offers
<1>2. Talk(ls[m], st, sink = m, open) /\ (sink = m) \in BOOLEAN
  BY DEF Told
<1> HIDE DEF k2, st
<1>3. CASE ls[m].appEnd /\ ls[m].engEnd
  BY <1>1, <1>2, <1>3, TalkHeld, ZenonT(60) DEF Wrote
<1>4. CASE ~(ls[m].appEnd /\ ls[m].engEnd)
  BY <1>1, <1>2, <1>4, TalkLess, ZenonT(60)
<1> QED BY <1>3, <1>4

\* What is to be shown of a step of the engine.
LEMMA EngineKeeps ==
    ASSUME IInv, UNCHANGED <<nLinks, apps, marks, log>>, hist' \in History,
           links' \in [Links -> Link], UpSound(up'),
           up'.sink # 0 => links'[up'.sink].engEnd,
           \A m \in Links : Kept(links[m], links'[m]),
           \A m \in Links : Told(links', m, up'.sink, up'.st = "open")
    PROVE  IInv'
<1>1. Typed'
  BY DEF IInv, Typed
<1>2. Placed'
  <2>1. \A l \in Links :
          /\ links'[l].appEnd => links'[l].owner # 0 /\ apps'[links'[l].owner].link = l
          /\ ~links'[l].appEnd => links'[l].toApp = <<>>
          /\ links'[l].appEnd \/ links'[l].engEnd => l <= nLinks'
    BY DEF IInv, Placed, Kept
  <2>2. ASSUME NEW a \in Apps, apps'[a].link # 0
        PROVE  links'[apps'[a].link].appEnd /\ links'[apps'[a].link].owner = a
    <3>1. apps[a].link \in Links
      BY <2>2 DEF IInv, Typed, Process
    <3> QED BY <2>2, <3>1 DEF IInv, Placed, Kept
  <2> QED BY <2>1, <2>2 DEF Placed
<1>3. \A a \in Apps : (Sane(apps[a]) /\ apps[a].maxRow <= Len(log))'
  BY DEF IInv
<1>4. \A l \in Links : InTurn(l)'
  BY DEF InTurn, Kept, Told
<1> QED BY <1>1, <1>2, <1>3, <1>4 DEF IInv

\* What the invariant says of a link.
LEMMA InTurnIs ==
    ASSUME IInv
    PROVE  /\ links \in [Links -> Link] /\ UpSound(up) /\ up.sink \in {0} \union Links
           /\ (up.st = "open") \in BOOLEAN /\ hist \in History
           /\ \A m \in Links : Told(links, m, up.sink, up.st = "open") /\ Kept(links[m], links[m])
           /\ up.sink # 0 => up.sink \in Links /\ links[up.sink].engEnd
           /\ \A m \in Links : ~links[m].appEnd => links[m].toApp = <<>>
BY UpIs DEF IInv, Typed, InTurn, Told, Kept, Placed

\* History.
LEMMA Notes ==
    ASSUME hist \in History, NEW n \in Socks, NEW S
    PROVE  /\ S \subseteq Seqs => Note("acked", n, S) \in History /\ Note("shed", n, S) \in History
           /\ S \subseteq Nat => Note("told", n, S) \in History
BY DEF Note, History

\* A frame or more to the session's own link.
LEMMA SinkTold ==
    ASSUME IInv, NEW out \in Seq(ToApp), NEW sink2, NEW open2 \in BOOLEAN,
           sink2 \in {0, up.sink},
           \A k \in Link, k2 \in Link, st \in States :
               k.engEnd /\ Talk(k, st, TRUE, up.st = "open")
               /\ k2.toApp = k.toApp \o out /\ k2.toEng = k.toEng /\ k2.engEnd = k.engEnd
                  => Talk(k2, st, sink2 = up.sink, open2)
    PROVE  \A m \in Links : Told(Deliver(links, up.sink, out), m, sink2, open2)
<1> SUFFICES ASSUME NEW m \in Links, links[m].appEnd
             PROVE  Talk(Deliver(links, up.sink, out)[m], apps[links[m].owner].st, sink2 = m, open2)
  BY DEF Told
<1> DEFINE k == links[m]
           st == apps[links[m].owner].st
<1>1. /\ links \in [Links -> Link] /\ k \in Link /\ up.sink \in {0} \union Links
      /\ Talk(k, st, up.sink = m, up.st = "open")
  BY InTurnIs DEF Told
<1>2. st \in States
  <2>1. links[m].owner \in Apps
    BY DEF IInv, Typed, Placed, Link
  <2> QED BY <2>1 DEF IInv, Typed, Process
<1>3. m # 0
  BY Bounds
<1> DEFINE k2 == Deliver(links, up.sink, out)[m]
<1>e. ASSUME NEW ls \in [Links -> Link], NEW l \in {0} \union Links
      PROVE  /\ Deliver(ls, l, out)[m] \in Link
             /\ m # l \/ ~ls[m].appEnd \/ ~ls[m].engEnd => Deliver(ls, l, out)[m] = ls[m]
             /\ m = l /\ ls[m].appEnd /\ ls[m].engEnd =>
                   Wrote(ls[m], Deliver(ls, l, out)[m], ls[m].toApp \o out, ls[m].toEng)
  BY Delivers
<1>d. /\ k2 \in Link
      /\ m # up.sink \/ ~k.appEnd \/ ~k.engEnd => k2 = k
      /\ m = up.sink /\ k.appEnd /\ k.engEnd => Wrote(k, k2, k.toApp \o out, k.toEng)
  BY <1>1, <1>e
<1> HIDE DEF k2, k, st
<1>4. CASE m = up.sink
  <2>1. k.engEnd /\ k.appEnd
    BY <1>3, <1>4, InTurnIs DEF k
  <2>2. k2.toApp = k.toApp \o out /\ k2.toEng = k.toEng /\ k2.engEnd = k.engEnd
    BY <1>d, <1>4, <2>1 DEF Wrote
  <2>3. Talk(k, st, TRUE, up.st = "open")
    BY <1>1, <1>4
  <2>4. Talk(k2, st, sink2 = up.sink, open2)
    BY <1>1, <1>2, <1>d, <2>1, <2>2, <2>3
  <2> QED BY <1>4, <2>4 DEF k2, st
<1>5. CASE m # up.sink
  <2>1. Talk(k, st, FALSE, up.st = "open") /\ ~(sink2 = m)
    BY <1>1, <1>3, <1>5
  <2>2. Talk(k, st, FALSE, open2)
    BY <2>1, TalkLess
  <2> QED BY <1>d, <1>5, <2>1, <2>2 DEF k2, st
<1> QED BY <1>4, <1>5

\* The socket's own events.
LEMMA OpensKeeps == IInv /\ Opens => IInv'
<1> SUFFICES ASSUME IInv, Opens PROVE IInv'
  OBVIOUS
<1> DEFINE out == <<[op |-> "open", sock |-> up.sock]>>
<1>1. UpSound(up) /\ up.st = "dialing" /\ up.sock \in Socks /\ up' = [up EXCEPT !.st = "open"]
      /\ links' = Deliver(links, up.sink, out)
      /\ UNCHANGED <<nLinks, apps, marks, log, hist>>
  BY InTurnIs, UpIs DEF Opens
<1>2. UpSound(up') /\ up'.sink = up.sink /\ up'.st = "open"
  BY <1>1 DEF UpSound, Upstream
<1>3. out \in Seq(ToApp) /\ out # <<>> /\ Starts(out[1]) /\ DOMAIN out = {1}
  BY <1>1 DEF ToApp, Starts
<1> HIDE DEF out
<1>4. links' \in [Links -> Link]
  BY <1>1, <1>3, InTurnIs, Delivers
<1>5. ASSUME NEW k \in Link, NEW k2 \in Link, NEW st \in States,
             k.engEnd, Talk(k, st, TRUE, FALSE), k2.toApp = k.toApp \o out,
             k2.toEng = k.toEng, k2.engEnd = k.engEnd
      PROVE  Talk(k2, st, TRUE, TRUE)
  <2>1. \A n \in DOMAIN out : n > 1 => out[n].op \in {"gap", "line", "live"}
    BY <1>3
  <2> QED BY <1>3, <1>5, <2>1, TalkStarts
<1>6. \A m \in Links : Told(links', m, up.sink, TRUE)
  <2>1. (up.st = "open") = FALSE /\ (up.sink = up.sink) = TRUE
    BY <1>1
  <2> QED BY <1>1, <1>3, <1>5, <2>1, SinkTold
<1>7. \A m \in Links : Kept(links[m], links'[m]) /\ links'[m].engEnd = links[m].engEnd
  BY <1>1, <1>3, InTurnIs, DeliverKeeps
<1>8. up'.sink # 0 => links'[up'.sink].engEnd
  BY <1>2, <1>7, InTurnIs
<1>9. hist' \in History
  BY <1>1, InTurnIs
<1> QED BY <1>1, <1>2, <1>4, <1>6, <1>7, <1>8, <1>9, EngineKeeps

\* A flush of what the upstream has become, from a step that did not change
\* whose it is.
LEMMA FlushKeeps ==
    ASSUME IInv, up.st = "open", NEW u, UpSound(u), u.st = "open", u.sink = up.sink,
           NEW f \in FlushOutcomes(u), up' = f.u, links' = Deliver(links, up.sink, f.out),
           UNCHANGED <<nLinks, apps, marks, log>>, hist' \in History
    PROVE  IInv'
<1>1. UpSound(f.u) /\ Flows(u, f.u, f.out)
  BY FlushFlows
<1> DEFINE out == f.out
<1>2. /\ UpSound(up') /\ up'.sink = up.sink /\ up'.st = "open"
      /\ out \in Seq(ToApp) /\ \A n \in DOMAIN out : out[n].op \in {"gap", "line", "live"}
      /\ links' = Deliver(links, up.sink, out)
  BY <1>1 DEF Flows
<1> HIDE DEF out
<1>3. links \in [Links -> Link] /\ up.sink \in {0} \union Links
  BY InTurnIs
<1>4. links' \in [Links -> Link]
  <2>1. out \in Seq(ToApp)
    BY <1>2
  <2>2. Deliver(links, up.sink, out) \in [Links -> Link]
    BY <1>3, <2>1, Delivers
  <2> QED BY <1>2, <2>2
<1>5. ASSUME NEW k \in Link, NEW k2 \in Link, NEW st \in States,
             k.engEnd, Talk(k, st, TRUE, TRUE), k2.toApp = k.toApp \o out,
             k2.toEng = k.toEng, k2.engEnd = k.engEnd
      PROVE  Talk(k2, st, TRUE, TRUE)
  BY <1>2, <1>5, TalkFlows
<1>6. \A m \in Links : Told(links', m, up.sink, TRUE)
  <2>1. (up.st = "open") = TRUE /\ (up.sink = up.sink) = TRUE
    OBVIOUS
  <2> QED BY <1>2, <1>5, <2>1, SinkTold
<1>7. \A m \in Links : Kept(links[m], links'[m]) /\ links'[m].engEnd = links[m].engEnd
  BY <1>2, <1>3, DeliverKeeps
<1>8. up'.sink # 0 => links'[up'.sink].engEnd
  BY <1>2, <1>7, InTurnIs
<1> QED BY <1>2, <1>4, <1>6, <1>7, <1>8, EngineKeeps

\* Another backlog for the open socket.
LEMMA Rebuffered ==
    ASSUME NEW u, UpSound(u), u.st = "open", NEW b, Held(b), LastSeq(b) >= LastSeq(u.buf),
           NEW v, v = [u EXCEPT !.buf = b]
    PROVE  /\ UpSound(v) /\ v.st = "open" /\ v.sink = u.sink /\ v.sock = u.sock
           /\ v.sent = u.sent /\ v.buf = b /\ v.stalled = u.stalled /\ v.liveAfter = u.liveAfter
<1>1. u \in Upstream /\ b \in BufferType /\ LastSeq(b) \in Nat /\ LastSeq(u.buf) \in Nat
      /\ u.sent \in Nat /\ u.sent <= LastSeq(u.buf)
  BY UpIs, HeldIs DEF UpSound, Held
<1>2. v \in Upstream /\ v.st = "open" /\ v.sink = u.sink /\ v.sock = u.sock
      /\ v.sent = u.sent /\ v.buf = b /\ v.stalled = u.stalled /\ v.liveAfter = u.liveAfter
  BY <1>1 DEF Upstream
<1>3. v.sent <= LastSeq(v.buf)
  BY <1>1, <1>2
<1> QED BY <1>2, <1>3 DEF UpSound

LEMMA ServerLineKeeps == IInv /\ ServerLine => IInv'
<1> SUFFICES ASSUME IInv, ServerLine PROVE IInv'
  OBVIOUS
<1>1. PICK k \in ShedCounts(Pushed(up.buf)) :
         /\ hist' = Note("shed", up.sock, Dropped(up.buf, k))
         /\ \E f \in FlushOutcomes([up EXCEPT !.buf = Shed(Pushed(up.buf), k)]) :
              /\ up' = f.u
              /\ links' = IF up.sink = 0 /\ LastSeq(f.u.buf) = BurstEnd
                          THEN Offered(links) ELSE Deliver(links, up.sink, f.out)
  BY DEF ServerLine
<1>2. /\ up.st = "open" /\ LastSeq(up.buf) < MaxSeq /\ UNCHANGED <<nLinks, apps, marks, log>>
      /\ UpSound(up) /\ Held(up.buf) /\ LastSeq(up.buf) \in Nat /\ up.sock \in Socks
  BY InTurnIs, UpIs DEF ServerLine
<1> DEFINE b == Shed(Pushed(up.buf), k)
           u == [up EXCEPT !.buf = b]
<1>3. /\ Held(b) /\ LastSeq(b) = LastSeq(up.buf) + 1
      /\ Dropped(Pushed(up.buf), k) \subseteq Seqs
  BY <1>2, PushedHeld, ShedHeld
<1>4. Dropped(up.buf, k) = Dropped(Pushed(up.buf), k)
  <2>1. Pushed(up.buf).first = up.buf.first
    BY <1>2 DEF Pushed, Held, BufferType
  <2> QED BY <2>1 DEF Dropped
<1>5. hist' \in History
  BY <1>1, <1>2, <1>3, <1>4, Notes, InTurnIs
<1> HIDE DEF b
<1>6. UpSound(u) /\ u.st = "open" /\ u.sink = up.sink
  <2>1. LastSeq(b) >= LastSeq(up.buf)
    BY <1>2, <1>3
  <2> QED BY <1>2, <1>3, <2>1, Rebuffered
<1>7. PICK f \in FlushOutcomes(u) :
              /\ up' = f.u
              /\ links' = IF up.sink = 0 /\ LastSeq(f.u.buf) = BurstEnd
                          THEN Offered(links) ELSE Deliver(links, up.sink, f.out)
  BY <1>1 DEF b
<1> HIDE DEF u
<1>8. CASE links' = Deliver(links, up.sink, f.out)
  BY <1>2, <1>5, <1>6, <1>7, <1>8, FlushKeeps
<1>9. CASE up.sink = 0 /\ links' = Offered(links)
  <2>1. UpSound(up') /\ up'.sink = 0 /\ up'.st = "open"
    BY <1>6, <1>7, <1>9, FlushFlows DEF Flows
  <2>2. \A m \in Links : Told(links, m, 0, TRUE)
    BY <1>2, <1>9, InTurnIs
  <2>3. \A m \in Links : Told(links', m, 0, TRUE)
    BY <1>9, <2>2, InTurnIs, OfferTold
  <2>4. links' \in [Links -> Link] /\ \A m \in Links : Kept(links[m], links'[m])
    BY <1>9, InTurnIs, Offers, OfferKeeps
  <2> QED BY <1>2, <1>5, <2>1, <2>3, <2>4, EngineKeeps
<1> QED BY <1>7, <1>8, <1>9

LEMMA SqueezedKeeps == IInv /\ Squeezed => IInv'
<1> SUFFICES ASSUME IInv, Squeezed PROVE IInv'
  OBVIOUS
<1>1. PICK k \in ShedCounts(up.buf) : /\ up' = [up EXCEPT !.buf = Shed(up.buf, k)]
                                      /\ hist' = Note("shed", up.sock, Dropped(up.buf, k))
  BY DEF Squeezed
<1>2. /\ up.st = "open" /\ UNCHANGED <<links, nLinks, apps, marks, log>>
      /\ UpSound(up) /\ Held(up.buf) /\ LastSeq(up.buf) \in Nat /\ up.sock \in Socks
  BY InTurnIs, UpIs DEF Squeezed
<1> DEFINE b == Shed(up.buf, k)
<1>3. /\ Held(b) /\ LastSeq(b) = LastSeq(up.buf) /\ Dropped(up.buf, k) \subseteq Seqs
  BY <1>2, ShedHeld
<1>4. hist' \in History
  BY <1>1, <1>2, <1>3, Notes, InTurnIs
<1> HIDE DEF b
<1>5. UpSound(up') /\ up'.st = "open" /\ up'.sink = up.sink
  <2>1. LastSeq(b) >= LastSeq(up.buf) /\ up' = [up EXCEPT !.buf = b]
    BY <1>1, <1>2, <1>3 DEF b
  <2> QED BY <1>2, <1>3, <2>1, Rebuffered
<1>6. \A m \in Links : Told(links', m, up'.sink, up'.st = "open") /\ Kept(links[m], links'[m])
  BY <1>2, <1>5, InTurnIs DEF Told, Kept
<1>7. links' \in [Links -> Link] /\ (up'.sink # 0 => links'[up'.sink].engEnd)
  BY <1>2, <1>5, InTurnIs
<1> QED BY <1>2, <1>4, <1>5, <1>6, <1>7, EngineKeeps

LEMMA DrainKeeps == IInv /\ Drain => IInv'
<1> SUFFICES ASSUME IInv, Drain PROVE IInv'
  OBVIOUS
<1> DEFINE u == [up EXCEPT !.stalled = FALSE]
<1>1. UpSound(up) /\ up.st = "open" /\ UNCHANGED <<nLinks, apps, marks, log>> /\ hist' \in History
  BY InTurnIs DEF Drain, UpSound
<1>2. PICK f \in FlushOutcomes(u) : up' = f.u /\ links' = Deliver(links, up.sink, f.out)
  BY DEF Drain
<1>3. u \in Upstream /\ u.st = up.st /\ u.sock = up.sock /\ u.sink = up.sink /\ u.buf = up.buf
      /\ u.sent = up.sent /\ ~u.stalled
  BY <1>1 DEF UpSound, Upstream
<1> HIDE DEF u
<1>4. UpSound(u) /\ u.st = "open"
  BY <1>1, <1>3 DEF UpSound
<1> QED BY <1>1, <1>2, <1>3, <1>4, FlushKeeps

\* A socket that is none has no backlog.
LEMMA NoneSound ==
    ASSUME NEW n \in 0 .. MaxSockets
    PROVE  /\ UpSound([NoUpstream EXCEPT !.sock = n])
           /\ [NoUpstream EXCEPT !.sock = n].sink = 0 /\ [NoUpstream EXCEPT !.sock = n].st = "none"
           /\ Held(EmptyBuffer) /\ LastSeq(EmptyBuffer) = 0
<1>1. Held(EmptyBuffer) /\ LastSeq(EmptyBuffer) = 0
  BY Bounds DEF Held, EmptyBuffer, BufferType, Gap, NoGap, LastSeq
<1> DEFINE z == NoUpstream
           u == [z EXCEPT !.sock = n]
<1>0. /\ z \in Upstream /\ z.st = "none" /\ z.buf = EmptyBuffer /\ z.sink = 0 /\ z.sent = 0
      /\ ~z.stalled
  BY <1>1, Bounds DEF NoUpstream, Upstream, Held
<1> HIDE DEF z
<1>2. /\ u \in Upstream /\ u.st = "none" /\ u.buf = EmptyBuffer /\ u.sink = 0 /\ u.sent = 0
      /\ ~u.stalled
  BY <1>0 DEF Upstream
<1> HIDE DEF u
<1>4. u.sent <= LastSeq(u.buf)
  BY <1>1, <1>2
<1>5. UpSound(u)
  BY <1>1, <1>2, <1>4 DEF UpSound
<1> QED BY <1>1, <1>2, <1>5 DEF u, z

LEMMA SocketDiesKeeps == IInv /\ SocketDies => IInv'
<1> SUFFICES ASSUME IInv, SocketDies PROVE IInv'
  OBVIOUS
<1> DEFINE out == <<Op("closed")>>
           open == up.st = "open"
<1>1. /\ up.sock \in 0 .. MaxSockets /\ up' = [NoUpstream EXCEPT !.sock = up.sock]
      /\ links' = Deliver(links, up.sink, out)
      /\ UNCHANGED <<nLinks, apps, marks, log>> /\ hist' \in History /\ open \in BOOLEAN
  BY InTurnIs, UpIs DEF SocketDies
<1>2. UpSound(up') /\ up'.sink = 0 /\ up'.st = "none"
  BY <1>1, NoneSound
<1>3. out \in Seq(ToApp)
  BY BareIs DEF Bare
<1>4. links' \in [Links -> Link]
  BY <1>1, <1>3, InTurnIs, Delivers
<1>5. ASSUME NEW k \in Link, NEW k2 \in Link, NEW st \in States,
             k.engEnd, Talk(k, st, TRUE, open), k2.toApp = k.toApp \o out,
             k2.toEng = k.toEng, k2.engEnd = k.engEnd
      PROVE  Talk(k2, st, FALSE, FALSE)
  BY <1>1, <1>5, TalkOnce
<1>6. \A m \in Links : Told(links', m, 0, FALSE)
  <2> HIDE DEF out
  <2>1. CASE up.sink = 0
    <3>1. \A m \in Links : links'[m] = links[m]
      BY <1>1, <1>3, <2>1, InTurnIs DEF Deliver
    <3>2. \A m \in Links : Told(links, m, 0, open)
      BY <2>1, InTurnIs
    <3> QED BY <1>1, <3>1, <3>2, TalkLess, Bounds DEF Told
  <2>2. CASE up.sink # 0
    <3>1. (0 = up.sink) = FALSE
      BY <2>2
    <3> QED BY <1>1, <1>3, <1>5, <3>1, SinkTold
  <2> QED BY <2>1, <2>2
<1>7. \A m \in Links : Kept(links[m], links'[m])
  BY <1>1, <1>3, InTurnIs, DeliverKeeps
<1>8. \A m \in Links : Told(links', m, up'.sink, up'.st = "open")
  BY <1>2, <1>6
<1> QED BY <1>1, <1>2, <1>4, <1>7, <1>8, EngineKeeps

\* EngineServer.dispatch: a frame is read, nothing else yet.
Heard(l) == [links EXCEPT ![l].toEng = Tail(@)]

LEMMA Reading ==
    ASSUME IInv, NEW l \in Links, links[l].engEnd, links[l].toEng # <<>>,
           NEW ls, ls = Heard(l)
    PROVE  /\ ls \in [Links -> Link]
           /\ \A m \in Links : Stays(links[m], ls[m])
           /\ \A m \in Links : Told(ls, m, up.sink, up.st = "open")
           /\ Head(links[l].toEng) \in ToEng
           /\ \A m \in Links : m # l => ls[m] = links[m]
           /\ Head(links[l].toEng).op = "connect" /\ links[l].appEnd =>
                 /\ Talk(ls[l], apps[links[l].owner].st, TRUE, FALSE)
                 /\ up.sink # l /\ apps[links[l].owner].st = "asking"
<1> DEFINE k  == links[l]
           w  == Tail(k.toEng)
           k2 == [k EXCEPT !.toEng = w]
           st == apps[links[l].owner].st
           open == up.st = "open"
           mine == up.sink = l
<1>1. k \in Link /\ Head(k.toEng) \in ToEng /\ w \in Seq(ToEng) /\ links \in [Links -> Link]
  <2>1. k \in Link /\ k.toEng \in Seq(ToEng) /\ k.toEng # <<>>
    BY InTurnIs, LinkIs
  <2> QED BY <2>1, InTurnIs, HeadTailProperties
<1>2. ls = [links EXCEPT ![l] = k2]
  BY DEF Heard
<1>t. links[l].appEnd => Talk(k, st, mine, open) /\ mine \in BOOLEAN /\ open \in BOOLEAN
  BY InTurnIs DEF Told
<1>o. k.engEnd /\ k.toEng # <<>>
  OBVIOUS
<1> HIDE DEF w
<1>3. k2 \in Link /\ Wrote(k, k2, k.toApp, w)
  BY <1>1 DEF Link, Wrote
<1> HIDE DEF k2
<1>4. ls \in [Links -> Link] /\ ls[l] = k2 /\ \A m \in Links : m # l => ls[m] = links[m]
  BY <1>1, <1>2, <1>3
<1>5. \A m \in Links : Stays(links[m], ls[m])
  BY <1>3, <1>4 DEF Kept, Stays, Wrote
<1> HIDE DEF k, st, mine, open
<1>6. ASSUME links[l].appEnd
      PROVE  /\ Talk(k2, st, mine, open)
             /\ Head(k.toEng).op = "connect" => Talk(k2, st, TRUE, FALSE) /\ ~mine /\ st = "asking"
  <2>1. Talk(k, st, mine, open) /\ mine \in BOOLEAN /\ open \in BOOLEAN
    BY <1>t, <1>6
  <2>2. k2.toApp = k.toApp /\ k2.toEng = Tail(k.toEng) /\ k \in Link /\ k2 \in Link
    BY <1>1, <1>3 DEF Wrote, w
  <2>3. ASSUME NEW x \in BOOLEAN, NEW y \in BOOLEAN, Talk(k, st, x, y)
        PROVE  /\ Talk(k2, st, x, y)
               /\ Head(k.toEng).op = "connect" => Talk(k2, st, TRUE, FALSE) /\ ~x /\ st = "asking"
    BY ONLY <1>o, <2>2, <2>3, x \in BOOLEAN, y \in BOOLEAN, TalkHeard
  <2> QED BY <2>1, <2>3
<1>7. \A m \in Links : Told(ls, m, up.sink, open)
  <2> SUFFICES ASSUME NEW m \in Links PROVE Told(ls, m, up.sink, open)
    OBVIOUS
  <2>1. CASE m = l
    BY <1>4, <1>6, <2>1 DEF Told, k, st, mine
  <2>2. CASE m # l
    BY <1>4, <2>2, InTurnIs DEF Told, open
  <2> QED BY <2>1, <2>2
<1> QED BY <1>1, <1>4, <1>5, <1>6, <1>7 DEF k, st, mine, open

\* EngineServer.release, onLinkClose: whoever's the session is, it is in turn.
LEMMA LetGoKeeps ==
    ASSUME IInv, NEW l \in Links, NEW ls \in [Links -> Link], LetGo(l, ls),
           \A m \in Links : Kept(links[m], ls[m]) /\ (m # l => Stays(links[m], ls[m])),
           \A m \in Links : Told(ls, m, up.sink, up.st = "open"),
           UNCHANGED <<nLinks, apps, marks, log>>, hist' \in History
    PROVE  IInv'
<1> DEFINE open == up.st = "open"
<1>1. CASE up.sink = l
  <2>1. up' = Detached(up) /\ UpSound(up) /\ links' \in {Offered(ls), ls}
    BY <1>1, InTurnIs DEF LetGo
  <2>2. UpSound(up') /\ up'.sink = 0 /\ up'.st = up.st
    BY <2>1 DEF Detached, UpSound, Upstream
  <2>3. \A m \in Links : Told(ls, m, 0, open)
    BY TalkLess, Bounds DEF Told
  <2>4. CASE links' = ls
    <3>1. \A m \in Links : Told(links', m, up'.sink, up'.st = "open")
      BY <2>2, <2>3, <2>4
    <3>2. \A m \in Links : Kept(links[m], links'[m])
      BY <2>4
    <3> QED BY <2>2, <2>4, <3>1, <3>2, EngineKeeps
  <2>5. CASE links' = Offered(ls)
    <3>1. \A m \in Links : Told(links', m, up'.sink, up'.st = "open")
      <4>1. \A m \in Links : Told(Offered(ls), m, 0, open)
        BY <2>3, OfferTold
      <4> QED BY <2>2, <2>5, <4>1
    <3>2. links' \in [Links -> Link] /\ \A m \in Links : Kept(ls[m], links'[m])
      BY <2>5, Offers, OfferKeeps
    <3>3. \A m \in Links : Kept(links[m], links'[m])
      BY <3>2 DEF Kept, Stays
    <3> QED BY <2>2, <3>1, <3>2, <3>3, EngineKeeps
  <2> QED BY <2>1, <2>4, <2>5
<1>2. CASE up.sink # l
  <2>1. links' = ls /\ up' = up
    BY <1>2 DEF LetGo
  <2>2. \A m \in Links : Kept(links[m], links'[m]) /\ Told(links', m, up'.sink, up'.st = "open")
    BY <2>1
  <2>3. UpSound(up') /\ (up'.sink # 0 => links'[up'.sink].engEnd)
    BY <1>2, <2>1, InTurnIs DEF Stays
  <2> QED BY <2>1, <2>2, <2>3, EngineKeeps
<1> QED BY <1>1, <1>2

LEMMA SeesEOFKeeps == ASSUME NEW l \in Links PROVE IInv /\ EngineSeesEOF(l) => IInv'
<1> SUFFICES ASSUME IInv, EngineSeesEOF(l) PROVE IInv'
  OBVIOUS
<1> DEFINE ls == [links EXCEPT ![l].engEnd = FALSE]
           k2 == [links[l] EXCEPT !.engEnd = FALSE]
<1>1. LetGo(l, ls) /\ ~links[l].appEnd /\ links \in [Links -> Link] /\ links[l] \in Link
      /\ UNCHANGED <<nLinks, apps, marks, log>> /\ hist' \in History
  BY InTurnIs DEF EngineSeesEOF
<1>2. k2 \in Link /\ Kept(links[l], k2)
  BY <1>1 DEF Link, Kept
<1>3. ls = [links EXCEPT ![l] = k2]
  OBVIOUS
<1> HIDE DEF k2
<1>4. ls \in [Links -> Link] /\ ls[l] = k2 /\ \A m \in Links : m # l => ls[m] = links[m]
  BY <1>1, <1>2, <1>3
<1> HIDE DEF ls
<1>5. \A m \in Links : Kept(links[m], ls[m]) /\ (m # l => Stays(links[m], ls[m]))
  BY <1>2, <1>4 DEF Kept, Stays
<1>6. \A m \in Links : Told(ls, m, up.sink, up.st = "open")
  BY <1>1, <1>4, InTurnIs DEF Told
<1> QED BY <1>1, <1>4, <1>5, <1>6, LetGoKeeps

LEMMA DropsKeeps == ASSUME NEW l \in Links PROVE IInv /\ EngineDropsLink(l) => IInv'
<1> SUFFICES ASSUME IInv, EngineDropsLink(l) PROVE IInv'
  OBVIOUS
<1>0. PICK kept \in PrefixesOf(links[l].toApp) :
        LetGo(l, [links EXCEPT ![l].engEnd = FALSE, ![l].toEng = <<>>, ![l].toApp = kept])
  BY DEF EngineDropsLink
<1> DEFINE ls == [links EXCEPT ![l].engEnd = FALSE, ![l].toEng = <<>>, ![l].toApp = kept]
           k  == links[l]
           k2 == [k EXCEPT !.engEnd = FALSE, !.toEng = <<>>, !.toApp = kept]
<1>1. LetGo(l, ls) /\ k.appEnd /\ k.engEnd /\ links \in [Links -> Link] /\ k \in Link
      /\ UNCHANGED <<nLinks, apps, marks, log>> /\ hist' \in History
  BY <1>0, InTurnIs DEF EngineDropsLink
<1>k. kept \in Seq(ToApp)
  <2>1. PICK n \in 0 .. Len(k.toApp) : kept = SubSeq(k.toApp, 1, n)
    BY DEF PrefixesOf
  <2>2. n \in Int /\ k.toApp \in Seq(ToApp) /\ \A i \in 1 .. n : i \in 1 .. Len(k.toApp)
    BY <1>1, LinkIs
  <2>3. \A i \in 1 .. n : k.toApp[i] \in ToApp
    BY <2>2, ElementOfSeq
  <2> QED BY <2>1, <2>2, <2>3, SubSeqProperties
<1>2. k2 \in Link /\ Kept(k, k2) /\ ~k2.engEnd /\ k2.toEng = <<>> /\ k2.toApp = kept
  <2>1. <<>> \in Seq(ToEng)
    BY EmptySeq
  <2> HIDE DEF k
  <2> QED BY <1>1, <1>k, <2>1 DEF Link, Kept
<1>3. ls = [links EXCEPT ![l] = k2]
  BY <1>1
<1> HIDE DEF k2
<1>4. ls \in [Links -> Link] /\ ls[l] = k2 /\ \A m \in Links : m # l => ls[m] = links[m]
  BY <1>1, <1>2, <1>3
<1> HIDE DEF ls
<1>5. \A m \in Links : Kept(links[m], ls[m]) /\ (m # l => Stays(links[m], ls[m]))
  BY <1>2, <1>4 DEF Kept, Stays
<1>6. ASSUME NEW m \in Links PROVE Told(ls, m, up.sink, up.st = "open")
  <2>1. CASE m # l
    BY <1>4, <2>1, InTurnIs DEF Told
  <2>2. CASE m = l
    <3> DEFINE st == apps[links[l].owner].st
               mine == up.sink = l
               open == up.st = "open"
    <3>1. Talk(k, st, mine, open) /\ mine \in BOOLEAN /\ open \in BOOLEAN
      BY <1>1, InTurnIs DEF Told
    <3>2. k2.toApp \in PrefixesOf(k.toApp)
      BY <1>2
    <3> HIDE DEF k, st, mine, open
    <3>3. Talk(k2, st, mine, open)
      BY <1>1, <1>2, <3>1, <3>2, TalkCut
    <3> QED BY <1>4, <2>2, <3>3 DEF Told, k, st, mine, open
  <2> QED BY <2>1, <2>2
<1> QED BY <1>1, <1>4, <1>5, <1>6, LetGoKeeps

\* EngineServer.connect: the holder before is told that it is no longer.
LEMMA SupersededTold ==
    ASSUME IInv, NEW l \in Links, NEW ls \in [Links -> Link],
           \A m \in Links : Stays(links[m], ls[m]),
           \A m \in Links : m # l => ls[m] = links[m],
           NEW ls1, ls1 = Superseded(ls, l), NEW open2 \in BOOLEAN
    PROVE  /\ ls1 \in [Links -> Link] /\ ls1[l] = ls[l]
           /\ \A m \in Links : Stays(links[m], ls1[m])
           /\ \A m \in Links : m # l => Told(ls1, m, l, open2)
<1> DEFINE out == <<Op("detached")>>
           open == up.st = "open"
<1>1. out \in Seq(ToApp) /\ links \in [Links -> Link] /\ up.sink \in {0} \union Links
      /\ 0 \notin Links /\ open \in BOOLEAN
  BY InTurnIs, BareIs, Bounds DEF Bare
<1>t. \A m \in Links : links[m].appEnd =>
         Talk(links[m], apps[links[m].owner].st, up.sink = m, open)
  BY InTurnIs DEF Told
<1> HIDE DEF open
<1>2. CASE up.sink \in {0, l}
  <2>1. ls1 = ls
    BY <1>2 DEF Superseded
  <2>2. ASSUME NEW m \in Links, m # l PROVE Told(ls1, m, l, open2)
    <3>1. (up.sink = m) = FALSE /\ (l = m) = FALSE /\ ls1[m] = links[m]
      BY <1>1, <1>2, <2>1, <2>2
    <3>2. ASSUME links[m].appEnd
          PROVE  Talk(links[m], apps[links[m].owner].st, FALSE, open2)
      <4> DEFINE k == links[m]
                 st == apps[links[m].owner].st
      <4>1. Talk(k, st, FALSE, open)
        BY <1>t, <3>1, <3>2
      <4> HIDE DEF k, st
      <4>2. Talk(k, st, FALSE, open2)
        BY ONLY <1>1, <4>1, open2 \in BOOLEAN, TalkLess
      <4> QED BY <4>2 DEF k, st
    <3> QED BY <3>1, <3>2 DEF Told
  <2> QED BY <2>1, <2>2
<1>3. CASE up.sink \notin {0, l}
  <2>1. ls1 = Deliver(ls, up.sink, out) /\ up.sink \in Links
    BY <1>1, <1>3 DEF Superseded
  <2>2. /\ ls1 \in [Links -> Link]
        /\ \A m \in Links : m # up.sink \/ ~ls[m].appEnd \/ ~ls[m].engEnd => ls1[m] = ls[m]
        /\ \A m \in Links : m = up.sink /\ ls[m].appEnd /\ ls[m].engEnd =>
              Wrote(ls[m], ls1[m], ls[m].toApp \o out, ls[m].toEng)
    <3> HIDE DEF out
    <3>1. up.sink \in {0} \union Links /\ out \in Seq(ToApp)
      BY <1>1
    <3> QED BY ONLY <2>1, <3>1, ls \in [Links -> Link], Delivers
  <2>3. ls1[l] = ls[l]
    BY <1>3, <2>2
  <2>4. \A m \in Links : Stays(links[m], ls1[m])
    <3>1. \A m \in Links : Stays(ls[m], ls1[m])
      BY <2>2 DEF Kept, Stays, Wrote
    <3> QED BY <3>1 DEF Kept, Stays
  <2>5. ASSUME NEW m \in Links, m # l PROVE Told(ls1, m, l, open2)
    <3> SUFFICES ASSUME links[m].appEnd PROVE Talk(ls1[m], apps[links[m].owner].st, FALSE, open2)
      BY <2>5 DEF Told
    <3> DEFINE k == links[m]
               k2 == ls1[m]
               st == apps[links[m].owner].st
    <3>1. k \in Link /\ k2 \in Link /\ ls[m] = k /\ k.appEnd
      BY <1>1, <2>2, <2>5
    <3>2. CASE m # up.sink
      <4>1. Talk(k, st, FALSE, open)
        BY <1>t, <3>2
      <4>2. k2 = k
        BY <2>2, <3>1, <3>2
      <4> HIDE DEF k, k2, st
      <4>3. Talk(k2, st, FALSE, open2)
        BY <1>1, <4>1, <4>2, TalkLess
      <4> QED BY <4>3 DEF k2, st
    <3>3. CASE m = up.sink
      <4>1. Talk(k, st, TRUE, open) /\ k.engEnd
        <5>1. (up.sink = m) = TRUE /\ m # 0
          BY <1>1, <3>3
        <5>2. k.engEnd
          BY <3>3, <5>1, InTurnIs
        <5> QED BY <1>t, <5>1, <5>2
      <4>2. Wrote(k, k2, k.toApp \o out, k.toEng)
        BY <2>2, <3>1, <3>3, <4>1
      <4>3. k2.toApp = k.toApp \o <<Op("detached")>> /\ k2.toEng = k.toEng
        BY <4>2 DEF Wrote
      <4> HIDE DEF k, k2, st, out
      <4>4. Talk(k2, st, FALSE, open2)
        BY ONLY <1>1, <3>1, <4>1, <4>3, open2 \in BOOLEAN, TalkOnce
      <4> QED BY <4>4 DEF k2, st
    <3> QED BY <3>2, <3>3
  <2> QED BY <2>2, <2>3, <2>4, <2>5
<1> QED BY <1>2, <1>3

\* And the one that asks is answered.
LEMMA AnswerKeeps ==
    ASSUME IInv, NEW l \in Links, links[l].engEnd, NEW ls \in [Links -> Link],
           \A m \in Links : Stays(links[m], ls[m]),
           \A m \in Links : m # l => ls[m] = links[m],
           links[l].appEnd => Talk(ls[l], apps[links[l].owner].st, TRUE, FALSE),
           NEW out \in Seq(ToApp), links' = Deliver(Superseded(ls, l), l, out),
           UpSound(up'), up'.sink = l,
           \A k \in Link, k2 \in Link, st \in States :
               k.engEnd /\ Talk(k, st, TRUE, FALSE)
               /\ k2.toApp = k.toApp \o out /\ k2.toEng = k.toEng
                  => Talk(k2, st, TRUE, up'.st = "open"),
           UNCHANGED <<nLinks, apps, marks, log>>, hist' \in History
    PROVE  IInv'
<1> DEFINE ls1 == Superseded(ls, l)
           open2 == up'.st = "open"
<1>1. /\ ls1 \in [Links -> Link] /\ ls1[l] = ls[l]
      /\ \A m \in Links : Stays(links[m], ls1[m])
      /\ \A m \in Links : m # l => Told(ls1, m, l, open2)
  <2>1. ls1 = Superseded(ls, l)
    OBVIOUS
  <2> HIDE DEF ls1
  <2>2. /\ ls \in [Links -> Link] /\ l \in Links
        /\ \A m \in Links : Stays(links[m], ls[m])
        /\ \A m \in Links : m # l => ls[m] = links[m]
    OBVIOUS
  <2> QED BY ONLY IInv, <2>1, <2>2, open2 \in BOOLEAN, SupersededTold
<1>2. links' = Deliver(ls1, l, out)
  OBVIOUS
<1> HIDE DEF ls1
<1>3. /\ links' \in [Links -> Link]
      /\ \A m \in Links : m # l \/ ~ls1[m].appEnd \/ ~ls1[m].engEnd => links'[m] = ls1[m]
      /\ \A m \in Links : m = l /\ ls1[m].appEnd /\ ls1[m].engEnd =>
            Wrote(ls1[m], links'[m], ls1[m].toApp \o out, ls1[m].toEng)
  <2> DEFINE d == Deliver(ls1, l, out)
  <2>1. /\ d \in [Links -> Link]
        /\ \A m \in Links : m # l \/ ~ls1[m].appEnd \/ ~ls1[m].engEnd => d[m] = ls1[m]
        /\ \A m \in Links : m = l /\ ls1[m].appEnd /\ ls1[m].engEnd =>
              Wrote(ls1[m], d[m], ls1[m].toApp \o out, ls1[m].toEng)
    BY ONLY <1>1, l \in Links, out \in Seq(ToApp), Delivers
  <2> QED BY <1>2, <2>1
<1>4. \A m \in Links : Stays(links[m], links'[m])
  <2>1. \A m \in Links : Stays(ls1[m], links'[m])
    BY ONLY <1>3 DEF Kept, Stays, Wrote
  <2> QED BY ONLY <1>1, <2>1 DEF Kept, Stays
<1>5. \A m \in Links : Told(links', m, l, open2)
  <2> SUFFICES ASSUME NEW m \in Links PROVE Told(links', m, l, open2)
    OBVIOUS
  <2>1. CASE m # l
    <3>1. links'[m] = ls1[m] /\ Told(ls1, m, l, open2)
      BY <1>1, <1>3, <2>1
    <3> QED BY <3>1 DEF Told
  <2>2. CASE m = l
    <3> SUFFICES ASSUME links[l].appEnd PROVE Talk(links'[l], apps[links[l].owner].st, TRUE, open2)
      BY <2>2 DEF Told
    <3> DEFINE k  == ls1[l]
               k2 == links'[l]
               st == apps[links[l].owner].st
    <3>1. k \in Link /\ k2 \in Link /\ k.appEnd /\ k.engEnd /\ Talk(k, st, TRUE, FALSE)
      BY <1>1, <1>3 DEF Kept, Stays
    <3>2. st \in States
      <4>1. links[l].owner \in Apps
        BY DEF IInv, Typed, Placed, Link
      <4> QED BY <4>1 DEF IInv, Typed, Process
    <3>3. k2.toApp = k.toApp \o out /\ k2.toEng = k.toEng
      BY <1>3, <3>1 DEF Wrote
    <3>4. Talk(k2, st, TRUE, open2)
      <4> HIDE DEF k, k2, st
      <4> QED BY <3>1, <3>2, <3>3
    <3> QED BY <3>4
  <2> QED BY <2>1, <2>2
<1>6. \A m \in Links : Told(links', m, up'.sink, up'.st = "open")
  BY <1>5
<1>7. up'.sink # 0 => links'[up'.sink].engEnd
  BY <1>4 DEF Stays
<1> QED BY <1>3, <1>4, <1>6, <1>7, EngineKeeps DEF Stays

\* EngineUpstream.attach: `attached', then what is owed.
LEMMA Attaches ==
    ASSUME IInv, NEW l \in Links, Registered, NEW f \in AttachOutcomes(l)
    PROVE  /\ UpSound(f.u) /\ f.u.sink = l /\ f.u.st = "open"
           /\ f.out \in Seq(ToApp) /\ f.out # <<>> /\ Starts(f.out[1])
           /\ \A n \in DOMAIN f.out : n > 1 => f.out[n].op \in {"gap", "line", "live"}
<1> DEFINE b == Acked(up.buf, BurstEnd)
           u == [up EXCEPT !.buf = b, !.sink = l, !.sent = BurstEnd,
                           !.stalled = FALSE, !.liveAfter = LiveAfter(b)]
           first == <<[op |-> "attached", sock |-> up.sock]>>
           next  == IF u.liveAfter = 0 THEN <<Op("live")>> ELSE <<>>
<1>1. UpSound(up) /\ up.st = "open" /\ up.sock \in Socks /\ Held(up.buf)
      /\ LastSeq(up.buf) \in Nat /\ LastSeq(up.buf) >= 1
  BY InTurnIs, UpIs DEF Registered, BurstEnd
<1>2. Held(b) /\ LastSeq(b) = LastSeq(up.buf)
  BY <1>1, AckedHeld DEF BurstEnd
<1>3. LiveAfter(b) \in {0} \union Seqs /\ BurstEnd \in {0} \union Seqs
  <2>1. LastSeq(b) \in {0} \union Seqs
    BY <1>2, HeldIs
  <2>2. 1 \in Seqs
    BY <1>1, <1>2, <2>1, Bounds DEF Seqs
  <2> QED BY <2>1, <2>2 DEF LiveAfter, BurstEnd
<1>4. PICK g \in FlushOutcomes(u) : f = [u |-> g.u, out |-> (first \o next) \o g.out]
  BY DEF AttachOutcomes
<1>5. first \in Seq(ToApp) /\ Len(first) = 1 /\ first[1].op = "attached"
  BY <1>1 DEF ToApp
<1>6. next \in Seq(ToApp) /\ AllOf(next, {"gap", "line", "live"})
  BY BareIs DEF Bare, AllOf, Op
<1> HIDE DEF b, first, next
<1>7. u \in Upstream /\ u.st = "open" /\ u.sock = up.sock /\ u.buf = b /\ u.sink = l
      /\ u.sent = BurstEnd /\ ~u.stalled
  BY <1>1, <1>2, <1>3 DEF UpSound, Upstream, Held
<1> HIDE DEF u
<1>8. UpSound(u)
  <2>1. u.sent <= LastSeq(u.buf) /\ u.sock # 0
    BY <1>1, <1>2, <1>7, Bounds DEF BurstEnd
  <2> QED BY <1>2, <1>7, <2>1 DEF UpSound
<1>9. UpSound(g.u) /\ Flows(u, g.u, g.out)
  BY <1>7, <1>8, FlushFlows
<1> DEFINE rest == g.out
           s == first \o next
           out == s \o rest
<1>10. rest \in Seq(ToApp) /\ AllOf(rest, {"gap", "line", "live"})
  BY <1>9 DEF Flows, AllOf
<1> HIDE DEF rest
<1>11. /\ s \in Seq(ToApp) /\ DOMAIN s = 1 .. 1 + Len(next) /\ Len(next) \in Nat
       /\ Len(s) = 1 + Len(next) /\ s[1] = first[1]
       /\ \A i \in 1 .. 1 + Len(next) : i > 1 => i - 1 \in 1 .. Len(next) /\ s[i] = next[i - 1]
       /\ DOMAIN next = 1 .. Len(next)
  <2>1. /\ s \in Seq(ToApp) /\ Len(s) = Len(first) + Len(next) /\ Len(next) \in Nat
        /\ DOMAIN first = 1 .. Len(first) /\ DOMAIN next = 1 .. Len(next)
        /\ DOMAIN s = 1 .. Len(first) + Len(next)
        /\ \A i \in 1 .. Len(first) : s[i] = first[i]
        /\ \A i \in 1 .. Len(first) + Len(next) :
              i > Len(first) => i - Len(first) \in 1 .. Len(next) /\ s[i] = next[i - Len(first)]
    BY <1>5, <1>6, Joined
  <2> HIDE DEF s
  <2> QED BY <1>5, <2>1
<1> HIDE DEF s
<1>12. /\ out \in Seq(ToApp) /\ Len(rest) \in Nat /\ DOMAIN out = 1 .. Len(s) + Len(rest)
       /\ \A i \in 1 .. Len(s) : out[i] = s[i]
       /\ \A i \in 1 .. Len(s) + Len(rest) :
             i > Len(s) => i - Len(s) \in 1 .. Len(rest) /\ out[i] = rest[i - Len(s)]
       /\ DOMAIN rest = 1 .. Len(rest)
  BY <1>10, <1>11, Joined
<1> HIDE DEF out
<1>13. out # <<>> /\ Starts(out[1])
  <2>1. 1 \in DOMAIN out /\ 1 \in 1 .. Len(s)
    BY <1>11, <1>12
  <2>2. out[1].op = "attached"
    BY <1>5, <1>11, <1>12, <2>1
  <2> QED BY <2>1, <2>2 DEF Starts
<1>14. ASSUME NEW n \in DOMAIN out, n > 1 PROVE out[n].op \in {"gap", "line", "live"}
  <2>1. CASE n <= Len(s)
    <3>1. out[n] = s[n] /\ n \in 1 .. 1 + Len(next)
      BY <1>11, <1>12, <2>1
    <3>2. n - 1 \in DOMAIN next /\ s[n] = next[n - 1]
      BY <1>11, <1>14, <3>1
    <3> QED BY <1>6, <3>1, <3>2 DEF AllOf
  <2>2. CASE n > Len(s)
    <3>1. n - Len(s) \in DOMAIN rest /\ out[n] = rest[n - Len(s)]
      BY <1>12, <2>2
    <3> QED BY <1>10, <3>1 DEF AllOf
  <2> QED BY <1>11, <1>12, <2>1, <2>2
<1>15. f.u = g.u /\ f.out = out
  BY <1>4 DEF out, s, rest
<1> QED BY <1>7, <1>9, <1>12, <1>13, <1>14, <1>15 DEF Flows

\* A fresh socket is dialed.
LEMMA DialingSound ==
    ASSUME NEW n \in 1 .. MaxSockets, NEW l \in Links
    PROVE  UpSound(Dialing(n, l)) /\ Dialing(n, l).sink = l /\ Dialing(n, l).st = "dialing"
<1> DEFINE z == NoUpstream
           u == [z EXCEPT !.st = "dialing", !.sock = n, !.sink = l]
<1>0. Held(EmptyBuffer) /\ LastSeq(EmptyBuffer) = 0
  BY Bounds, NoneSound, 0 \in 0 .. MaxSockets
<1>1. /\ z \in Upstream /\ z.buf = EmptyBuffer /\ z.sent = 0 /\ ~z.stalled
  BY <1>0, Bounds DEF NoUpstream, Upstream, Held
<1>u. Dialing(n, l) = u
  BY DEF Dialing
<1> HIDE DEF z
<1>n. n \in 0 .. MaxSockets /\ n # 0 /\ l \in {0} \union Links
  BY Bounds
<1>2. /\ u \in Upstream /\ u.st = "dialing" /\ u.buf = EmptyBuffer /\ u.sink = l /\ u.sent = 0
      /\ ~u.stalled /\ u.sock = n
  BY <1>1, <1>n DEF Upstream
<1> HIDE DEF u
<1>3. u.sent <= LastSeq(u.buf) /\ u.sock # 0
  BY <1>0, <1>2, <1>n
<1> QED BY <1>0, <1>2, <1>3, <1>u DEF UpSound

\* EngineServer.connect keeps what is said in turn.
LEMMA ConnectKeeps ==
    ASSUME IInv, NEW l \in Links, links[l].engEnd, links[l].toEng # <<>>,
           Head(links[l].toEng).op = "connect",
           NEW ls, ls = Heard(l), Connect(l, ls),
           UNCHANGED <<nLinks, apps, marks, log>>
    PROVE  IInv'
<1>1. /\ ls \in [Links -> Link]
      /\ \A m \in Links : Stays(links[m], ls[m])
      /\ \A m \in Links : m # l => ls[m] = links[m]
      /\ \A m \in Links : Told(ls, m, up.sink, up.st = "open")
      /\ links[l].appEnd => Talk(ls[l], apps[links[l].owner].st, TRUE, FALSE) /\ up.sink # l
  <2>1. ls \in [Links -> Link] /\ \A m \in Links : Stays(links[m], ls[m])
    BY Reading
  <2>2. \A m \in Links : Told(ls, m, up.sink, up.st = "open")
    BY Reading
  <2>3. \A m \in Links : m # l => ls[m] = links[m]
    BY InTurnIs DEF Heard
  <2>4. ASSUME links[l].appEnd
        PROVE  Talk(ls[l], apps[links[l].owner].st, TRUE, FALSE) /\ up.sink # l
    BY <2>4, Reading
  <2> QED BY <2>1, <2>2, <2>3, <2>4
<1>o. links[l].engEnd /\ UNCHANGED <<nLinks, apps, marks, log>> /\ Connect(l, ls)
  OBVIOUS
<1>2. CASE ~Refused(l) /\ up.st = "dialing"
  <2> DEFINE out == <<Op("dialing")>>
  <2>1. /\ up' = [up EXCEPT !.sink = l, !.sent = 0, !.stalled = FALSE]
        /\ links' = Deliver(Superseded(ls, l), l, out)
        /\ hist' \in History /\ UpSound(up)
    BY ONLY <1>o, <1>2, IInv, InTurnIs DEF Connect, Registered
  <2>2. UpSound(up') /\ up'.sink = l /\ up'.st = "dialing"
    <3>1. up' \in Upstream /\ up'.sink = l /\ up'.st = "dialing" /\ up'.buf = up.buf
          /\ up'.sent = 0 /\ ~up'.stalled /\ up'.sock = up.sock
      BY ONLY <1>2, <2>1, l \in Links DEF UpSound, Upstream
    <3>2. 0 <= LastSeq(up.buf)
      BY ONLY <2>1, UpIs
    <3> QED BY ONLY <1>2, <2>1, <3>1, <3>2 DEF UpSound
  <2>3. out \in Seq(ToApp)
    BY ONLY BareIs DEF Bare
  <2>4. ASSUME NEW k \in Link, NEW k2 \in Link, NEW st \in States, k.engEnd, Talk(k, st, TRUE, FALSE),
               k2.toApp = k.toApp \o out, k2.toEng = k.toEng
        PROVE  Talk(k2, st, TRUE, up'.st = "open")
    <3>1. Talk(k2, st, TRUE, FALSE)
      BY ONLY <2>4, TalkOnce
    <3>2. (up'.st = "open") = FALSE
      BY <2>2
    <3> QED BY <3>1, <3>2
  <2> HIDE DEF out
  <2> QED BY ONLY IInv, l \in Links, <1>o, <1>1, <2>1, <2>2, <2>3, <2>4, AnswerKeeps
<1>3. CASE ~Refused(l) /\ Registered
  <2>1. /\ UpSound(up) /\ up.sock \in Socks
        /\ \E f \in AttachOutcomes(l) : up' = f.u /\ links' = Deliver(Superseded(ls, l), l, f.out)
        /\ hist' = Note("acked", up.sock, Released(up.buf, BurstEnd))
    BY ONLY <1>o, <1>3, IInv, InTurnIs, UpIs DEF Connect, Registered
  <2>2. PICK f \in AttachOutcomes(l) : up' = f.u /\ links' = Deliver(Superseded(ls, l), l, f.out)
    BY <2>1
  <2>3. hist' \in History
    <3>1. Released(up.buf, BurstEnd) \subseteq Seqs
      BY ONLY <2>1, UpIs, AckedHeld DEF BurstEnd
    <3> QED BY ONLY IInv, <2>1, <3>1, Notes, InTurnIs
  <2> DEFINE out == f.out
  <2>4. /\ UpSound(up') /\ up'.sink = l /\ up'.st = "open"
        /\ out \in Seq(ToApp) /\ out # <<>> /\ Starts(out[1])
        /\ \A n \in DOMAIN out : n > 1 => out[n].op \in {"gap", "line", "live"}
    BY ONLY IInv, l \in Links, <1>3, <2>2, Attaches
  <2>5. links' = Deliver(Superseded(ls, l), l, out)
    BY <2>2
  <2> HIDE DEF out
  <2>6. ASSUME NEW k \in Link, NEW k2 \in Link, NEW st \in States, k.engEnd, Talk(k, st, TRUE, FALSE),
               k2.toApp = k.toApp \o out, k2.toEng = k.toEng
        PROVE  Talk(k2, st, TRUE, up'.st = "open")
    <3>1. Talk(k2, st, TRUE, TRUE)
      BY ONLY <2>4, <2>6, TalkStarts
    <3>2. (up'.st = "open") = TRUE
      BY <2>4
    <3> QED BY <3>1, <3>2
  <2> QED BY ONLY IInv, l \in Links, <1>o, <1>1, <2>3, <2>4, <2>5, <2>6, AnswerKeeps
<1>4. CASE ~Refused(l) /\ up.st # "dialing" /\ ~Registered
  <2> DEFINE out == <<Op("dialing")>>
  <2>1. /\ up' = Dialing(up.sock + 1, l) /\ up.sock < MaxSockets
        /\ links' = Deliver(Superseded(ls, l), l, out)
        /\ hist' \in History /\ up.sock \in 0 .. MaxSockets
    BY ONLY <1>o, <1>4, IInv, InTurnIs, UpIs DEF Connect
  <2>2. UpSound(up') /\ up'.sink = l /\ up'.st = "dialing"
    <3>1. up.sock + 1 \in 1 .. MaxSockets
      BY ONLY <2>1, Bounds
    <3> QED BY ONLY <2>1, <3>1, l \in Links, DialingSound
  <2>3. out \in Seq(ToApp)
    BY ONLY BareIs DEF Bare
  <2>4. ASSUME NEW k \in Link, NEW k2 \in Link, NEW st \in States, k.engEnd, Talk(k, st, TRUE, FALSE),
               k2.toApp = k.toApp \o out, k2.toEng = k.toEng
        PROVE  Talk(k2, st, TRUE, up'.st = "open")
    <3>1. Talk(k2, st, TRUE, FALSE)
      BY ONLY <2>4, TalkOnce
    <3>2. (up'.st = "open") = FALSE
      BY <2>2
    <3> QED BY <3>1, <3>2
  <2> HIDE DEF out
  <2> QED BY ONLY IInv, l \in Links, <1>o, <1>1, <2>1, <2>2, <2>3, <2>4, AnswerKeeps
<1>5. CASE Refused(l)
  <2> DEFINE out == <<Op("detached")>>
             open == up.st = "open"
  <2>1. /\ links' = Deliver(ls, l, out) /\ UNCHANGED up /\ hist' \in History /\ UpSound(up')
        /\ up.sink # l /\ open \in BOOLEAN
    BY ONLY <1>o, <1>5, IInv, InTurnIs DEF Connect, Refused
  <2>2. out \in Seq(ToApp)
    BY ONLY BareIs DEF Bare
  <2> DEFINE d == Deliver(ls, l, out)
  <2>3. /\ d \in [Links -> Link]
        /\ \A m \in Links : m # l \/ ~ls[m].appEnd \/ ~ls[m].engEnd => d[m] = ls[m]
        /\ \A m \in Links : m = l /\ ls[m].appEnd /\ ls[m].engEnd =>
              Wrote(ls[m], d[m], ls[m].toApp \o out, ls[m].toEng)
    <3> HIDE DEF out
    <3> QED BY ONLY <1>1, <2>2, l \in Links, Delivers
  <2>4. links' = d
    BY <2>1
  <2> HIDE DEF d
  <2>5. \A m \in Links : Stays(links[m], links'[m])
    <3>1. \A m \in Links : Stays(ls[m], d[m])
      BY ONLY <2>3 DEF Kept, Stays, Wrote
    <3> QED BY ONLY <1>1, <2>4, <3>1 DEF Kept, Stays
  <2>6. ASSUME NEW m \in Links PROVE Told(links', m, up.sink, open)
    <3>1. CASE m # l
      <4>1. links'[m] = ls[m] /\ Told(ls, m, up.sink, open)
        BY <1>1, <2>3, <2>4, <3>1
      <4> QED BY <4>1 DEF Told
    <3>2. CASE m = l
      <4> SUFFICES ASSUME links[l].appEnd PROVE Talk(links'[l], apps[links[l].owner].st, FALSE, open)
        BY <2>1, <3>2 DEF Told
      <4> DEFINE k  == ls[l]
                 k2 == links'[l]
                 st == apps[links[l].owner].st
      <4>1. k \in Link /\ k2 \in Link /\ k.appEnd /\ k.engEnd /\ Talk(k, st, TRUE, FALSE)
        BY <1>o, <1>1, <2>3, <2>4 DEF Kept, Stays
      <4>2. k2.toApp = k.toApp \o <<Op("detached")>> /\ k2.toEng = k.toEng
        BY <2>3, <2>4, <4>1 DEF Wrote
      <4> HIDE DEF k, k2, st, out
      <4>3. Talk(k2, st, FALSE, open)
        BY ONLY <2>1, <4>1, <4>2, TalkOnce
      <4> QED BY <4>3 DEF k2, st
    <3> QED BY <3>1, <3>2
  <2>7. \A m \in Links : Told(links', m, up'.sink, up'.st = "open")
    BY <2>1, <2>6
  <2>8. links' \in [Links -> Link] /\ (up'.sink # 0 => links'[up'.sink].engEnd)
    BY ONLY IInv, <2>1, <2>3, <2>4, <2>5, InTurnIs DEF Stays
  <2> QED BY ONLY IInv, <1>o, <2>1, <2>5, <2>7, <2>8, EngineKeeps DEF Stays
<1> QED BY ONLY <1>o, <1>2, <1>3, <1>4, <1>5 DEF Connect

LEMMA ReadsKeeps == ASSUME NEW l \in Links PROVE IInv /\ EngineReads(l) => IInv'
<1> SUFFICES ASSUME IInv, EngineReads(l) PROVE IInv'
  OBVIOUS
<1> DEFINE frame == Head(links[l].toEng)
           ls == Heard(l)
<1>1. /\ links[l].engEnd /\ links[l].toEng # <<>>
      /\ UNCHANGED <<nLinks, apps, marks, log>>
      /\ \/ /\ frame.op = "hello"
            /\ links' = IF Registered /\ up.sink = 0
                        THEN Deliver(ls, l, <<Op("held")>>) ELSE ls
            /\ UNCHANGED <<up, hist>>
         \/ frame.op = "connect" /\ Connect(l, ls)
         \/ /\ frame.op = "ack"
            /\ links' = ls
            /\ IF up.st = "none" THEN UNCHANGED <<up, hist>>
               ELSE /\ up' = [up EXCEPT !.buf = Acked(@, frame.seq)]
                    /\ hist' = Note("acked", up.sock, Released(up.buf, frame.seq))
         \/ frame.op = "detach" /\ LetGo(l, ls) /\ UNCHANGED hist
  BY DEF EngineReads, Heard
<1>2. /\ ls \in [Links -> Link]
      /\ \A m \in Links : Stays(links[m], ls[m])
      /\ \A m \in Links : Told(ls, m, up.sink, up.st = "open")
      /\ frame \in ToEng
  <2>1. ls = Heard(l)
    OBVIOUS
  <2> HIDE DEF ls
  <2> QED BY <1>1, <2>1, Reading
<1>3. CASE frame.op = "connect" /\ Connect(l, ls)
  <2>1. ls = Heard(l)
    OBVIOUS
  <2> HIDE DEF ls
  <2> QED BY <1>1, <1>3, <2>1, ConnectKeeps
<1> HIDE DEF ls
<1>s. UpSound(up) /\ hist \in History /\ (up.sink # 0 => links[up.sink].engEnd)
      /\ (up.st # "none" => up.sock \in Socks) /\ up.sink \in {0} \union Links
  BY InTurnIs, UpIs
<1>4. CASE links' = ls /\ UNCHANGED <<up, hist>>
  <2>1. \A m \in Links : Told(links', m, up'.sink, up'.st = "open") /\ Kept(links[m], links'[m])
    BY <1>2, <1>4 DEF Stays
  <2>2. UpSound(up') /\ hist' \in History /\ (up'.sink # 0 => links'[up'.sink].engEnd)
    BY <1>2, <1>4, <1>s DEF Stays
  <2> QED BY <1>1, <1>2, <1>4, <2>1, <2>2, EngineKeeps
<1>5. CASE frame.op = "detach" /\ LetGo(l, ls) /\ UNCHANGED hist
  <2>1. hist' \in History
    BY <1>5, <1>s
  <2> QED BY <1>1, <1>2, <1>5, <2>1, LetGoKeeps DEF Stays
<1>6. CASE /\ frame.op = "ack" /\ links' = ls /\ up.st # "none"
           /\ up' = [up EXCEPT !.buf = Acked(@, frame.seq)]
           /\ hist' = Note("acked", up.sock, Released(up.buf, frame.seq))
  <2> DEFINE b == Acked(up.buf, frame.seq)
  <2>1. frame.seq \in Nat
    <3>1. frame.seq \in Seqs
      BY <1>2, <1>6 DEF ToEng
    <3> QED BY <3>1, Bounds
  <2>2. /\ Held(up.buf) /\ Held(b) /\ LastSeq(b) = LastSeq(up.buf) /\ LastSeq(up.buf) \in Nat
        /\ Released(up.buf, frame.seq) \subseteq Seqs
    BY <1>s, <2>1, UpIs, AckedHeld
  <2>3. hist' \in History
    BY <1>6, <1>s, <2>2, Notes
  <2> HIDE DEF b
  <2>4. UpSound(up') /\ up'.st = up.st /\ up'.sink = up.sink
    <3>u. up' = [up EXCEPT !.buf = b]
      BY <1>6 DEF b
    <3>1. CASE up.st = "open"
      <4>1. LastSeq(b) >= LastSeq(up.buf)
        BY <2>2
      <4> QED BY <1>s, <2>2, <3>1, <3>u, <4>1, Rebuffered
    <3>2. CASE up.st # "open"
      <4>1. up.buf = EmptyBuffer
        BY <1>s, <3>2 DEF UpSound
      <4>2. b = EmptyBuffer
        <5>1. frame.seq \in Nat
          BY <2>1
        <5> DEFINE q == frame.seq
                   z == EmptyBuffer
        <5>2. z \in BufferType /\ z.first = 1 /\ z.next = 1 /\ z.gap = NoGap /\ NoGap.last = 0
          BY DEF EmptyBuffer, BufferType, Gap, NoGap
        <5> HIDE DEF frame, q, z
        <5>3. b = Acked(z, q)
          BY <4>1 DEF b, q, z
        <5>4. q \in Nat
          BY <5>1 DEF q
        <5>5. AckedGap(NoGap, q) = NoGap
          BY <5>2, <5>4 DEF AckedGap
        <5>6. Acked(z, q) = [z EXCEPT !.first = 1, !.gap = NoGap]
          BY <5>2, <5>4, <5>5 DEF Acked
        <5>7. [z EXCEPT !.first = 1, !.gap = NoGap] = z
          BY <5>2 DEF BufferType
        <5> QED BY <5>3, <5>6, <5>7 DEF z
      <4>3. up' \in Upstream /\ up'.st = up.st /\ up'.sink = up.sink /\ up'.buf = up.buf
            /\ up'.sent = up.sent /\ up'.sock = up.sock /\ up'.stalled = up.stalled
        BY <1>s, <2>2, <3>u, <4>1, <4>2 DEF UpSound, Upstream, Held
      <4> QED BY <1>s, <4>1, <4>2, <4>3 DEF UpSound
    <3> QED BY <3>1, <3>2
  <2>5. \A m \in Links : Told(links', m, up'.sink, up'.st = "open") /\ Kept(links[m], links'[m])
    BY <1>2, <1>6, <2>4 DEF Stays
  <2>6. links' \in [Links -> Link] /\ (up'.sink # 0 => links'[up'.sink].engEnd)
    BY <1>2, <1>6, <1>s, <2>4 DEF Stays
  <2> QED BY <1>1, <2>3, <2>4, <2>5, <2>6, EngineKeeps
<1>7. CASE Registered /\ up.sink = 0 /\ links' = Deliver(ls, l, <<Op("held")>>) /\ UNCHANGED <<up, hist>>
  <2> DEFINE out == <<Op("held")>>
             open == up.st = "open"
             d == Deliver(ls, l, out)
  <2>1. out \in Seq(ToApp)
    BY BareIs DEF Bare
  <2>2. /\ d \in [Links -> Link]
        /\ \A m \in Links : m # l \/ ~ls[m].appEnd \/ ~ls[m].engEnd => d[m] = ls[m]
        /\ \A m \in Links : m = l /\ ls[m].appEnd /\ ls[m].engEnd =>
              Wrote(ls[m], d[m], ls[m].toApp \o out, ls[m].toEng)
    <3> HIDE DEF out
    <3> QED BY ONLY <1>2, <2>1, l \in Links, Delivers
  <2>3. links' = d
    BY <1>7
  <2> HIDE DEF d
  <2>4. \A m \in Links : Kept(links[m], links'[m])
    <3>1. \A m \in Links : Kept(ls[m], d[m])
      BY ONLY <2>2 DEF Kept, Stays, Wrote
    <3> QED BY ONLY <1>2, <2>3, <3>1 DEF Kept, Stays
  <2>5. ASSUME NEW m \in Links PROVE Told(links', m, up.sink, open)
    <3> SUFFICES ASSUME links[m].appEnd PROVE Talk(links'[m], apps[links[m].owner].st, FALSE, open)
      BY <1>7, Bounds DEF Told
    <3> DEFINE k  == ls[m]
               k2 == links'[m]
               st == apps[links[m].owner].st
    <3>1. k \in Link /\ k2 \in Link /\ open \in BOOLEAN /\ Talk(k, st, FALSE, open)
      <4>1. (up.sink = m) = FALSE
        BY <1>7, Bounds
      <4> QED BY <1>2, <2>2, <2>3, <4>1 DEF Told
    <3>2. k2 = k \/ (k2.toApp = k.toApp \o <<Op("held")>> /\ k2.toEng = k.toEng)
      BY <2>2, <2>3 DEF Wrote
    <3> HIDE DEF k, k2, st, open
    <3>3. Talk(k2, st, FALSE, open)
      BY ONLY <3>1, <3>2, TalkHeld
    <3> QED BY <3>3 DEF k2, st
  <2>6. \A m \in Links : Told(links', m, up'.sink, up'.st = "open")
    BY <1>7, <2>5
  <2>7. UpSound(up') /\ hist' \in History /\ links' \in [Links -> Link]
        /\ (up'.sink # 0 => links'[up'.sink].engEnd)
    BY <1>7, <1>s, <2>2, <2>3
  <2> QED BY <1>1, <2>4, <2>6, <2>7, EngineKeeps
<1> QED BY <1>1, <1>3, <1>4, <1>5, <1>6, <1>7

-----------------------------------------------------------------------------
(* A process's steps keep it.                                              *)

\* What is to be shown of a step of a process that keeps its link.
LEMMA AppKeeps ==
    ASSUME IInv, NEW a \in Apps, NEW p, apps' = [apps EXCEPT ![a] = p], Sane(p),
           p.link = apps[a].link, p.maxRow <= Len(log'), Len(log) <= Len(log'),
           log' \in Seq(Row), marks' \in [Socks -> {0} \union Seqs], hist' \in History,
           UNCHANGED <<up, nLinks>>, links' \in [Links -> Link],
           \A m \in Links : Stays(links[m], links'[m]) /\ (m # p.link => links'[m] = links[m]),
           \A m \in Links : m = p.link => Talk(links'[m], p.st, up.sink = m, up.st = "open")
    PROVE  IInv'
<1>1. /\ apps' \in [Apps -> Process] /\ apps'[a] = p
      /\ \A b \in Apps : b # a => apps'[b] = apps[b]
      /\ \A b \in Apps : apps'[b].link = apps[b].link
  BY DEF IInv, Typed, Sane
<1>2. Typed'
  BY <1>1 DEF IInv, Typed
<1>3. Placed'
  <2>1. \A l \in Links :
          /\ links'[l].appEnd => links'[l].owner # 0 /\ apps'[links'[l].owner].link = l
          /\ ~links'[l].appEnd => links'[l].toApp = <<>>
          /\ links'[l].appEnd \/ links'[l].engEnd => l <= nLinks'
    <3> SUFFICES ASSUME NEW l \in Links
                 PROVE  /\ links'[l].appEnd => links'[l].owner # 0 /\ apps'[links'[l].owner].link = l
                        /\ ~links'[l].appEnd => links'[l].toApp = <<>>
                        /\ links'[l].appEnd \/ links'[l].engEnd => l <= nLinks'
      OBVIOUS
    <3>1. /\ links[l].appEnd => links[l].owner # 0 /\ apps[links[l].owner].link = l
          /\ ~links[l].appEnd => links[l].toApp = <<>>
          /\ links[l].appEnd \/ links[l].engEnd => l <= nLinks
          /\ links[l].owner \in {0} \union Apps
      BY DEF IInv, Typed, Placed, Link
    <3>2. /\ links'[l].owner = links[l].owner /\ links'[l].appEnd = links[l].appEnd
          /\ links'[l].engEnd => links[l].engEnd
          /\ ~links[l].appEnd => links'[l].toApp = links[l].toApp
      BY DEF Kept, Stays
    <3> QED BY <1>1, <3>1, <3>2
  <2>2. ASSUME NEW b \in Apps, apps'[b].link # 0
        PROVE  links'[apps'[b].link].appEnd /\ links'[apps'[b].link].owner = b
    <3>1. apps[b].link \in Links /\ links[apps[b].link].appEnd /\ links[apps[b].link].owner = b
      BY <1>1, <2>2 DEF IInv, Typed, Process, Placed
    <3> QED BY <1>1, <3>1 DEF Stays, Kept
  <2>3. up'.sink # 0 => links'[up'.sink].engEnd
    BY InTurnIs DEF Stays
  <2> QED BY <2>1, <2>2, <2>3 DEF Placed
<1>4. \A b \in Apps : (Sane(apps[b]) /\ apps[b].maxRow <= Len(log))'
  <2>1. Len(log) \in Nat /\ Len(log') \in Nat
    BY LenProperties DEF IInv, Typed
  <2> SUFFICES ASSUME NEW b \in Apps PROVE Sane(apps'[b]) /\ apps'[b].maxRow <= Len(log')
    OBVIOUS
  <2>2. CASE b = a
    BY <1>1, <2>2
  <2>3. CASE b # a
    <3>1. apps'[b] = apps[b] /\ Sane(apps[b]) /\ apps[b].maxRow <= Len(log) /\ apps[b].maxRow \in Nat
      BY <1>1, <2>3 DEF IInv, Typed, Process
    <3> QED BY <2>1, <3>1
  <2> QED BY <2>2, <2>3
<1>5. ASSUME NEW m \in Links, links'[m].appEnd
      PROVE  Talk(links'[m], apps'[links'[m].owner].st, up'.sink = m, up'.st = "open")
  <2>1. links[m].appEnd /\ links'[m].owner = links[m].owner /\ links[m].owner \in Apps
        /\ apps[links[m].owner].link = m
    BY <1>5 DEF Stays, Kept, IInv, Typed, Placed, Link
  <2>2. CASE links[m].owner = a
    BY <1>1, <2>1, <2>2
  <2>3. CASE links[m].owner # a
    <3>1. m # p.link
      <4>1. m = apps[a].link => links[m].owner = a
        BY Bounds DEF IInv, Placed
      <4> QED BY <2>3, <4>1
    <3>2. links'[m] = links[m] /\ apps'[links[m].owner] = apps[links[m].owner]
      BY <1>1, <2>1, <2>3, <3>1
    <3>3. Told(links, m, up.sink, up.st = "open")
      BY InTurnIs
    <3> QED BY <2>1, <3>2, <3>3 DEF Told
  <2> QED BY <2>2, <2>3
<1>6. \A m \in Links : InTurn(m)'
  BY <1>5 DEF InTurn
<1>7. UpSound(up')
  BY InTurnIs
<1> QED BY <1>2, <1>3, <1>4, <1>6, <1>7 DEF IInv

\* A process whose end of its link goes, and with it what it had not read.
Left(k, k2) ==
    /\ k2.owner = k.owner /\ ~k2.appEnd /\ k2.engEnd = k.engEnd /\ k2.toApp = <<>>

LEMMA LeaveKeeps ==
    ASSUME IInv, NEW a \in Apps, NEW p, apps' = [apps EXCEPT ![a] = p], Sane(p),
           p.link = 0, p.maxRow = 0,
           UNCHANGED <<up, nLinks, marks, log, hist>>, links' \in [Links -> Link],
           \A m \in Links : m # apps[a].link => links'[m] = links[m],
           \A m \in Links : m = apps[a].link => Left(links[m], links'[m])
    PROVE  IInv'
<1>1. /\ apps' \in [Apps -> Process] /\ apps'[a] = p
      /\ \A b \in Apps : b # a => apps'[b] = apps[b]
  BY DEF IInv, Typed, Sane
<1>2. Typed'
  BY <1>1 DEF IInv, Typed
<1>o. ASSUME NEW m \in Links, m # apps[a].link, links[m].appEnd
      PROVE  links[m].owner \in Apps /\ links[m].owner # a /\ apps[links[m].owner].link = m
  BY <1>o DEF IInv, Typed, Placed, Link
<1>3. Placed'
  <2>1. \A l \in Links :
          /\ links'[l].appEnd => links'[l].owner # 0 /\ apps'[links'[l].owner].link = l
          /\ ~links'[l].appEnd => links'[l].toApp = <<>>
          /\ links'[l].appEnd \/ links'[l].engEnd => l <= nLinks'
    <3> SUFFICES ASSUME NEW l \in Links
                 PROVE  /\ links'[l].appEnd => links'[l].owner # 0 /\ apps'[links'[l].owner].link = l
                        /\ ~links'[l].appEnd => links'[l].toApp = <<>>
                        /\ links'[l].appEnd \/ links'[l].engEnd => l <= nLinks'
      OBVIOUS
    <3>1. CASE l = apps[a].link
      <4>1. Left(links[l], links'[l]) /\ (links[l].engEnd => l <= nLinks)
        BY <3>1 DEF IInv, Placed
      <4> QED BY <4>1 DEF Left
    <3>2. CASE l # apps[a].link
      <4>1. links'[l] = links[l] /\ (links[l].appEnd \/ links[l].engEnd => l <= nLinks)
            /\ (~links[l].appEnd => links[l].toApp = <<>>)
            /\ (links[l].appEnd => links[l].owner # 0)
        BY <3>2 DEF IInv, Placed
      <4> QED BY <1>1, <1>o, <3>2, <4>1
    <3> QED BY <3>1, <3>2
  <2>2. ASSUME NEW b \in Apps, apps'[b].link # 0
        PROVE  links'[apps'[b].link].appEnd /\ links'[apps'[b].link].owner = b
    <3>1. b # a /\ apps'[b] = apps[b]
      BY <1>1, <2>2
    <3>2. apps[b].link \in Links /\ links[apps[b].link].appEnd /\ links[apps[b].link].owner = b
      BY <2>2, <3>1 DEF IInv, Typed, Process, Placed
    <3>3. apps[b].link # apps[a].link
      <4>1. apps[a].link # 0 => links[apps[a].link].owner = a
        BY DEF IInv, Placed
      <4> QED BY <2>2, <3>1, <3>2, <4>1
    <3> QED BY <3>1, <3>2, <3>3
  <2>3. up'.sink # 0 => links'[up'.sink].engEnd
    <3> SUFFICES ASSUME up.sink # 0 PROVE links'[up.sink].engEnd
      OBVIOUS
    <3>1. up.sink \in Links /\ links[up.sink].engEnd
      BY InTurnIs
    <3> QED BY <3>1 DEF Left
  <2> QED BY <2>1, <2>2, <2>3 DEF Placed
<1>4. \A b \in Apps : (Sane(apps[b]) /\ apps[b].maxRow <= Len(log))'
  <2>1. Len(log) \in Nat
    BY LenProperties DEF IInv, Typed
  <2> QED BY <1>1, <2>1 DEF IInv
<1>5. ASSUME NEW m \in Links, links'[m].appEnd
      PROVE  Talk(links'[m], apps'[links'[m].owner].st, up'.sink = m, up'.st = "open")
  <2>1. m # apps[a].link /\ links'[m] = links[m]
    BY <1>5 DEF Left
  <2>2. apps'[links[m].owner] = apps[links[m].owner]
    BY <1>1, <1>5, <1>o, <2>1
  <2>3. Told(links, m, up.sink, up.st = "open")
    BY InTurnIs
  <2> QED BY <1>5, <2>1, <2>2, <2>3 DEF Told
<1>6. \A m \in Links : InTurn(m)'
  BY <1>5 DEF InTurn
<1>7. UpSound(up')
  BY InTurnIs
<1> QED BY <1>2, <1>3, <1>4, <1>6, <1>7 DEF IInv

\* A process that opens a link, and asks or only says hello.
LEMMA OpensLink ==
    ASSUME IInv, NEW a \in Apps, apps[a].link = 0, nLinks < MaxLinks, nLinks' = nLinks + 1,
           NEW first \in {"connect", "hello"}, links' = [links EXCEPT ![nLinks + 1] = NewLink(a, first)],
           NEW p, apps' = [apps EXCEPT ![a] = p], Sane(p), p.link = nLinks + 1,
           p.maxRow <= Len(log), p.st = IF first = "connect" THEN "asking" ELSE "over",
           UNCHANGED <<up, marks, log, hist>>
    PROVE  IInv'
<1> DEFINE n == nLinks + 1
           k == NewLink(a, first)
<1>0. /\ apps' \in [Apps -> Process] /\ apps'[a] = p
      /\ \A b \in Apps : b # a => apps'[b] = apps[b]
  BY DEF IInv, Typed, Sane
<1>1. n \in Links /\ n \in 0 .. MaxLinks /\ n > nLinks /\ nLinks \in Nat /\ 0 \notin Links
      /\ 0 \notin Apps
  <2>1. nLinks \in 0 .. MaxLinks /\ MaxLinks \in Nat
    BY Bounds DEF IInv, Typed
  <2>2. n \in Links
    BY <2>1 DEF Links
  <2> QED BY <2>1, <2>2, Bounds
<1>2. k \in Link /\ k.owner = a /\ k.appEnd /\ k.engEnd /\ k.toApp = <<>> /\ k.toEng = <<[op |-> first]>>
  <2>1. [op |-> first] \in ToEng /\ <<>> \in Seq(ToApp)
    BY EmptySeq DEF ToEng
  <2>2. <<[op |-> first]>> \in Seq(ToEng)
    BY <2>1
  <2> QED BY <2>1, <2>2 DEF NewLink, Link
<1> HIDE DEF k
<1>3. links' \in [Links -> Link] /\ links'[n] = k /\ \A m \in Links : m # n => links'[m] = links[m]
  <2>1. links' = [links EXCEPT ![n] = k]
    BY DEF k
  <2> QED BY <1>1, <1>2, <2>1, InTurnIs
<1> HIDE DEF n
<1>4. ~links[n].appEnd /\ ~links[n].engEnd
  BY <1>1 DEF IInv, Placed, n
<1>p. \A m \in Links : /\ links[m].appEnd => links[m].owner # 0 /\ apps[links[m].owner].link = m
                       /\ ~links[m].appEnd => links[m].toApp = <<>>
                       /\ links[m].appEnd \/ links[m].engEnd => m <= nLinks
                       /\ links[m].owner \in {0} \union Apps
  BY DEF IInv, Placed, Typed, Link
<1>5. Typed'
  BY <1>0, <1>1, <1>3 DEF IInv, Typed, n
<1>o. ASSUME NEW m \in Links, links[m].appEnd
      PROVE  m # n /\ links[m].owner \in Apps /\ links[m].owner # a
  BY <1>1, <1>4, <1>o, <1>p
<1>6. Placed'
  <2>1. ASSUME NEW m \in Links
        PROVE  /\ links'[m].appEnd => links'[m].owner # 0 /\ apps'[links'[m].owner].link = m
               /\ ~links'[m].appEnd => links'[m].toApp = <<>>
               /\ links'[m].appEnd \/ links'[m].engEnd => m <= nLinks'
    <3>1. CASE m = n
      BY <1>0, <1>1, <1>2, <1>3, <3>1 DEF n
    <3>2. CASE m # n
      <4>1. links'[m] = links[m] /\ m \in Nat
        BY <1>3, <3>2, Bounds
      <4>2. links[m].appEnd => apps'[links[m].owner] = apps[links[m].owner]
        BY <1>0, <1>o
      <4>3. m <= nLinks => m <= nLinks'
        BY <1>1, <4>1
      <4> QED BY <1>p, <4>1, <4>2, <4>3
    <3> QED BY <3>1, <3>2
  <2>2. ASSUME NEW b \in Apps, apps'[b].link # 0
        PROVE  links'[apps'[b].link].appEnd /\ links'[apps'[b].link].owner = b
    <3>1. CASE b = a
      BY <1>0, <1>1, <1>2, <1>3, <3>1 DEF n
    <3>2. CASE b # a
      <4>1. apps'[b] = apps[b]
        BY <1>0, <3>2
      <4>2. apps[b].link \in Links /\ links[apps[b].link].appEnd /\ links[apps[b].link].owner = b
        BY <2>2, <4>1 DEF IInv, Typed, Process, Placed
      <4>3. links'[apps[b].link] = links[apps[b].link]
        BY <1>3, <1>4, <4>2
      <4> QED BY <4>1, <4>2, <4>3
    <3> QED BY <3>1, <3>2
  <2>3. up'.sink # 0 => links'[up'.sink].engEnd
    <3> SUFFICES ASSUME up.sink # 0 PROVE links'[up.sink].engEnd
      OBVIOUS
    <3>1. up.sink \in Links /\ links[up.sink].engEnd
      BY InTurnIs
    <3> QED BY <1>3, <1>4, <3>1
  <2> QED BY <2>1, <2>2, <2>3 DEF Placed
<1>7. \A b \in Apps : (Sane(apps[b]) /\ apps[b].maxRow <= Len(log))'
  BY <1>0 DEF IInv
<1>8. ASSUME NEW m \in Links, links'[m].appEnd
      PROVE  Talk(links'[m], apps'[links'[m].owner].st, up'.sink = m, up'.st = "open")
  <2>1. CASE m = n
    <3> DEFINE open == up.st = "open"
    <3>1. up.sink # n
      BY <1>1, <1>4, InTurnIs
    <3>2. DOMAIN k.toEng = {1} /\ k.toEng[1].op = first /\ DOMAIN k.toApp = {}
      BY <1>2
    <3>3. Connects(k.toEng) \subseteq {1} /\ (Connects(k.toEng) # {} => first = "connect")
      BY <3>2 DEF Connects
    <3>4. Talk(k, p.st, FALSE, open)
      BY <3>2, <3>3 DEF Talk, OnlyHeld
    <3>5. (up.sink = n) = FALSE
      BY <3>1
    <3> QED BY <1>0, <1>2, <1>3, <2>1, <3>4, <3>5
  <2>2. CASE m # n
    <3>1. links'[m] = links[m]
      BY <1>3, <2>2
    <3>2. apps'[links[m].owner] = apps[links[m].owner]
      BY <1>0, <1>8, <1>o, <3>1
    <3>3. Told(links, m, up.sink, up.st = "open")
      BY InTurnIs
    <3> QED BY <1>8, <3>1, <3>2, <3>3 DEF Told
  <2> QED BY <2>1, <2>2
<1>9. \A m \in Links : InTurn(m)'
  BY <1>8 DEF InTurn
<1>10. UpSound(up')
  BY InTurnIs
<1> QED BY <1>5, <1>6, <1>7, <1>9, <1>10 DEF IInv

\* A process that begins again: EngineTransport.end, and what is left of one
\* that has lost its link or is gone.
LEMMA EndedIs ==
    ASSUME NEW p \in Process, NEW st \in States
    PROVE  /\ Ended(p, st) \in Process /\ Ended(p, st).st = st /\ Ended(p, st).link = p.link
           /\ Ended(p, st).maxRow = 0 /\ Ended(p, st).todo = {}
           /\ [NoApp EXCEPT !.st = st] \in Process /\ [NoApp EXCEPT !.st = st].st = st
           /\ [NoApp EXCEPT !.st = st].link = 0 /\ [NoApp EXCEPT !.st = st].maxRow = 0
           /\ [NoApp EXCEPT !.st = st].todo = {}
<1> DEFINE z == NoApp
<1>1. z \in Process /\ z.link = 0 /\ z.maxRow = 0 /\ z.todo = {}
  BY DEF NoApp, Process, States
<1> HIDE DEF z
<1>2. p.link \in {0} \union Links
  BY DEF Process
<1>3. /\ [z EXCEPT !.st = st, !.link = p.link] \in Process
      /\ [z EXCEPT !.st = st, !.link = p.link].st = st
      /\ [z EXCEPT !.st = st, !.link = p.link].link = p.link
      /\ [z EXCEPT !.st = st, !.link = p.link].maxRow = 0
      /\ [z EXCEPT !.st = st, !.link = p.link].todo = {}
  BY <1>1, <1>2 DEF Process
<1>4. /\ [z EXCEPT !.st = st] \in Process /\ [z EXCEPT !.st = st].st = st
      /\ [z EXCEPT !.st = st].link = 0 /\ [z EXCEPT !.st = st].maxRow = 0
      /\ [z EXCEPT !.st = st].todo = {}
  BY <1>1 DEF Process
<1> QED BY <1>3, <1>4 DEF z, Ended

\* What the invariant says of a process.
LEMMA AppIs ==
    ASSUME IInv, NEW a \in Apps
    PROVE  /\ apps[a] \in Process /\ Sane(apps[a]) /\ apps[a].maxRow <= Len(log)
           /\ apps[a].maxRow \in Nat /\ Len(log) \in Nat
           /\ apps \in [Apps -> Process] /\ nLinks \in Nat
           /\ log \in Seq(Row) /\ marks \in [Socks -> {0} \union Seqs]
           /\ apps[a].link \in {0} \union Links /\ 0 \notin Links
           /\ apps[a].link # 0 =>
                 /\ links[apps[a].link].appEnd /\ links[apps[a].link].owner = a
                 /\ Talk(links[apps[a].link], apps[a].st, up.sink = apps[a].link, up.st = "open")
<1>1. apps[a] \in Process /\ Sane(apps[a]) /\ apps[a].maxRow <= Len(log)
      /\ log \in Seq(Row) /\ marks \in [Socks -> {0} \union Seqs]
      /\ apps \in [Apps -> Process] /\ nLinks \in Nat
  BY DEF IInv, Typed
<1>2. apps[a].maxRow \in Nat /\ apps[a].link \in {0} \union Links /\ 0 \notin Links /\ Len(log) \in Nat
  BY <1>1, Bounds, LenProperties DEF Process
<1>3. ASSUME apps[a].link # 0
      PROVE  /\ links[apps[a].link].appEnd /\ links[apps[a].link].owner = a
             /\ Talk(links[apps[a].link], apps[a].st, up.sink = apps[a].link, up.st = "open")
  <2> DEFINE m == apps[a].link
  <2>1. m \in Links /\ links[m].appEnd /\ links[m].owner = a
    BY <1>2, <1>3 DEF IInv, Placed
  <2>2. InTurn(m)
    BY <2>1 DEF IInv
  <2> QED BY <2>1, <2>2 DEF InTurn
<1> QED BY <1>1, <1>2, <1>3

LEMMA BootKeeps == ASSUME NEW a \in Apps PROVE IInv /\ Boot(a) => IInv'
<1> SUFFICES ASSUME IInv, Boot(a) PROVE IInv'
  OBVIOUS
<1> DEFINE p == [apps[a] EXCEPT !.st = "asking", !.link = nLinks + 1]
<1>1. /\ apps[a] \in Process /\ Sane(apps[a]) /\ apps[a].maxRow <= Len(log)
      /\ apps \in [Apps -> Process] /\ nLinks \in Nat
  BY AppIs
<1>2. /\ apps[a].st = "unborn" /\ nLinks < MaxLinks /\ nLinks' = nLinks + 1
      /\ links' = [links EXCEPT ![nLinks + 1] = NewLink(a, "connect")]
      /\ apps' = [apps EXCEPT ![a].st = "asking", ![a].link = nLinks + 1]
      /\ UNCHANGED <<up, marks, log, hist>>
  BY DEF Boot
<1>3. nLinks + 1 \in Links /\ nLinks + 1 # 0
  BY <1>1, <1>2, Bounds DEF Links
<1>4. apps[a].link = 0 /\ apps[a].todo = {}
  BY <1>1, <1>2 DEF Sane
<1>5. p \in Process /\ p.st = "asking" /\ p.link = nLinks + 1 /\ p.todo = {}
      /\ p.maxRow = apps[a].maxRow /\ apps' = [apps EXCEPT ![a] = p]
  BY <1>1, <1>2, <1>3, <1>4 DEF Process, States
<1> HIDE DEF p
<1>6. Sane(p)
  BY <1>3, <1>5 DEF Sane
<1> QED BY <1>1, <1>2, <1>4, <1>5, <1>6, OpensLink

LEMMA RelinkKeeps == ASSUME NEW a \in Apps PROVE IInv /\ Relink(a) => IInv'
<1> SUFFICES ASSUME IInv, Relink(a) PROVE IInv'
  OBVIOUS
<1> DEFINE p == [apps[a] EXCEPT !.st = "asking", !.link = nLinks + 1]
           q == [apps[a] EXCEPT !.link = nLinks + 1]
<1>1. /\ apps[a] \in Process /\ Sane(apps[a]) /\ apps[a].maxRow <= Len(log)
      /\ apps \in [Apps -> Process] /\ nLinks \in Nat
  BY AppIs
<1>2. /\ apps[a].st \in {"linkless", "over"} /\ apps[a].link = 0
      /\ nLinks < MaxLinks /\ nLinks' = nLinks + 1
      /\ UNCHANGED <<up, marks, log, hist>>
  BY DEF Relink
<1>3. nLinks + 1 \in Links /\ nLinks + 1 # 0
  BY <1>1, <1>2, Bounds DEF Links
<1>4. apps[a].todo = {}
  BY <1>1, <1>2 DEF Sane
<1>5. CASE apps[a].st = "linkless"
  <2>1. /\ links' = [links EXCEPT ![nLinks + 1] = NewLink(a, "connect")]
        /\ apps' = [apps EXCEPT ![a].st = "asking", ![a].link = nLinks + 1]
    BY <1>5 DEF Relink
  <2>2. p \in Process /\ p.st = "asking" /\ p.link = nLinks + 1 /\ p.todo = {}
        /\ p.maxRow = apps[a].maxRow /\ apps' = [apps EXCEPT ![a] = p]
    BY <1>1, <1>3, <1>4, <2>1 DEF Process, States
  <2> HIDE DEF p
  <2>3. Sane(p)
    BY <1>3, <2>2 DEF Sane
  <2> QED BY <1>1, <1>2, <2>1, <2>2, <2>3, OpensLink
<1>6. CASE apps[a].st = "over"
  <2>1. /\ links' = [links EXCEPT ![nLinks + 1] = NewLink(a, "hello")]
        /\ apps' = [apps EXCEPT ![a].link = nLinks + 1]
    BY <1>6 DEF Relink
  <2>2. q \in Process /\ q.st = "over" /\ q.link = nLinks + 1 /\ q.todo = {}
        /\ q.maxRow = apps[a].maxRow /\ apps' = [apps EXCEPT ![a] = q]
    BY <1>1, <1>3, <1>4, <1>6, <2>1 DEF Process, States
  <2> HIDE DEF q
  <2>3. Sane(q)
    BY <1>3, <2>2 DEF Sane
  <2> QED BY <1>1, <1>2, <2>1, <2>2, <2>3, OpensLink
<1> QED BY <1>2, <1>5, <1>6

\* A process that asks over its link, or says something else there.
LEMMA RequestKeeps ==
    ASSUME IInv, NEW a \in Apps, NEW f \in ToEng, NEW p, apps' = [apps EXCEPT ![a] = p], Sane(p),
           p.link = apps[a].link, p.maxRow <= Len(log),
           UNCHANGED <<up, nLinks, marks, log, hist>>,
           links' = Ask(links, apps[a].link, f),
           \/ f = Op("connect") /\ apps[a].st \notin {"asking", "up"} /\ p.st = "asking"
           \/ f.op # "connect" /\ p.st = apps[a].st
    PROVE  IInv'
<1> DEFINE l == apps[a].link
           d == Ask(links, l, f)
           open == up.st = "open"
<1>1. /\ l \in {0} \union Links /\ Len(log) \in Nat
      /\ log \in Seq(Row) /\ marks \in [Socks -> {0} \union Seqs]
      /\ l # 0 => /\ links[l].appEnd
                  /\ Talk(links[l], apps[a].st, up.sink = l, up.st = "open")
  BY AppIs
<1>2. links \in [Links -> Link] /\ hist \in History /\ (up.st = "open") \in BOOLEAN
      /\ 0 \notin Links
  BY InTurnIs, Bounds
<1> HIDE DEF l
<1>3. /\ d \in [Links -> Link]
      /\ \A m \in Links : m # l \/ ~links[m].engEnd => d[m] = links[m]
      /\ \A m \in Links : m = l /\ links[m].engEnd =>
            Wrote(links[m], d[m], links[m].toApp, Append(links[m].toEng, f))
  BY <1>1, <1>2, AsksOne
<1> HIDE DEF d, open
<1>4. \A m \in Links : Stays(links[m], d[m]) /\ (m # l => d[m] = links[m])
  BY <1>3 DEF Stays, Kept, Wrote
<1>5. ASSUME NEW m \in Links, m = l
      PROVE  Talk(d[m], p.st, up.sink = m, open)
  <2>1. /\ d[m].toApp = links[m].toApp /\ d[m].engEnd = links[m].engEnd
        /\ d[m].toEng = IF links[m].engEnd THEN Append(links[m].toEng, f) ELSE links[m].toEng
    BY <1>3, <1>5 DEF Wrote
  <2>2. links[m] \in Link /\ d[m] \in Link /\ Talk(links[m], apps[a].st, up.sink = m, open)
        /\ (up.sink = m) \in BOOLEAN /\ open \in BOOLEAN
    BY <1>1, <1>2, <1>3, <1>5 DEF open
  <2>3. CASE f = Op("connect") /\ apps[a].st \notin {"asking", "up"} /\ p.st = "asking"
    <3> DEFINE mine == up.sink = m
    <3>1. mine \in BOOLEAN /\ Talk(links[m], apps[a].st, mine, open)
      BY <2>2
    <3> HIDE DEF mine
    <3>2. Talk(d[m], "asking", mine, open)
      BY <2>1, <2>2, <2>3, <3>1, TalkAsked
    <3> QED BY <2>3, <3>2 DEF mine
  <2>4. CASE f.op # "connect" /\ p.st = apps[a].st
    <3> DEFINE mine == up.sink = m
    <3>1. mine \in BOOLEAN /\ Talk(links[m], apps[a].st, mine, open)
      BY <2>2
    <3> HIDE DEF mine
    <3>2. CASE links[m].engEnd
      <4>1. d[m].toEng = Append(links[m].toEng, f)
        BY <2>1, <3>2
      <4>2. Talk(d[m], apps[a].st, mine, open)
        <5>1. d[m].toApp = links[m].toApp /\ d[m].engEnd = links[m].engEnd
          BY <2>1
        <5>2. links[m] \in Link /\ d[m] \in Link /\ open \in BOOLEAN /\ f.op # "connect"
          BY <2>2, <2>4
        <5> QED BY ONLY <3>1, <4>1, <5>1, <5>2, f \in ToEng, TalkTold
      <4> QED BY <2>4, <4>2 DEF mine
    <3>3. CASE ~links[m].engEnd
      <4>1. d[m] = links[m]
        BY <1>3, <3>3
      <4> QED BY <2>4, <3>1, <4>1 DEF mine
    <3> QED BY <3>2, <3>3
  <2> QED BY <2>3, <2>4
<1>6. links' = d /\ p.link = l
  BY DEF d, l
<1>7. /\ links' \in [Links -> Link]
      /\ \A m \in Links : Stays(links[m], links'[m]) /\ (m # p.link => links'[m] = links[m])
      /\ \A m \in Links : m = p.link => Talk(links'[m], p.st, up.sink = m, up.st = "open")
  BY <1>3, <1>4, <1>5, <1>6 DEF open
<1>8. /\ log' \in Seq(Row) /\ marks' \in [Socks -> {0} \union Seqs] /\ hist' \in History
      /\ p.maxRow <= Len(log') /\ Len(log) <= Len(log') /\ UNCHANGED <<up, nLinks>>
  BY <1>1, <1>2
<1>9. p.link = apps[a].link /\ apps' = [apps EXCEPT ![a] = p] /\ Sane(p) /\ IInv
  OBVIOUS
<1> QED BY <1>7, <1>8, <1>9, AppKeeps

LEMMA RedialKeeps == ASSUME NEW a \in Apps PROVE IInv /\ Redial(a) => IInv'
<1> SUFFICES ASSUME IInv, Redial(a) PROVE IInv'
  OBVIOUS
<1> DEFINE p == [apps[a] EXCEPT !.st = "asking"]
           f == Op("connect")
<1>1. /\ apps[a] \in Process /\ Sane(apps[a]) /\ apps[a].maxRow <= Len(log)
      /\ apps \in [Apps -> Process]
  BY AppIs
<1>2. /\ apps[a].st = "redial" /\ apps' = [apps EXCEPT ![a].st = "asking"]
      /\ links' = Ask(links, apps[a].link, f)
      /\ UNCHANGED <<up, nLinks, marks, log, hist>>
  BY DEF Redial
<1>3. p \in Process /\ p.st = "asking" /\ p.link = apps[a].link /\ p.todo = apps[a].todo
      /\ p.maxRow = apps[a].maxRow /\ apps' = [apps EXCEPT ![a] = p]
  BY <1>1, <1>2 DEF Process, States
<1> HIDE DEF p
<1>4. Sane(p)
  BY <1>1, <1>2, <1>3 DEF Sane
<1>5. f \in ToEng /\ f = Op("connect")
  BY DEF Op, ToEng
<1> HIDE DEF f
<1>6. apps[a].st \notin {"asking", "up"}
  BY <1>2
<1> QED BY <1>1, <1>2, <1>3, <1>4, <1>5, <1>6, RequestKeeps

LEMMA SendAckKeeps == ASSUME NEW a \in Apps PROVE IInv /\ SendAck(a) => IInv'
<1> SUFFICES ASSUME IInv, SendAck(a) PROVE IInv'
  OBVIOUS
<1> DEFINE p == [apps[a] EXCEPT !.ackSeq = 0]
           f == [op |-> "ack", seq |-> apps[a].ackSeq]
<1>1. /\ apps[a] \in Process /\ Sane(apps[a]) /\ apps[a].maxRow <= Len(log)
      /\ apps \in [Apps -> Process]
  BY AppIs
<1>2. /\ apps[a].ackSeq # 0 /\ apps' = [apps EXCEPT ![a].ackSeq = 0]
      /\ links' = Ask(links, apps[a].link, f)
      /\ UNCHANGED <<up, nLinks, marks, log, hist>>
  BY DEF SendAck
<1>3. /\ p \in Process /\ p.st = apps[a].st /\ p.link = apps[a].link /\ p.todo = apps[a].todo
      /\ p.maxRow = apps[a].maxRow /\ p.sock = apps[a].sock /\ p.at = apps[a].at
      /\ apps' = [apps EXCEPT ![a] = p]
  BY <1>1, <1>2 DEF Process
<1> HIDE DEF p
<1>4. Sane(p)
  BY <1>1, <1>3 DEF Sane
<1>5. f \in ToEng /\ f.op # "connect"
  BY <1>1, <1>2 DEF ToEng, Process
<1> HIDE DEF f
<1> QED BY <1>1, <1>2, <1>3, <1>4, <1>5, RequestKeeps

\* A prefix of what was asked is a sequence of requests.
LEMMA PrefixIs ==
    ASSUME NEW T, NEW s \in Seq(T), NEW r \in PrefixesOf(s)
    PROVE  r \in Seq(T)
<1>1. PICK n \in 0 .. Len(s) : r = SubSeq(s, 1, n)
  BY DEF PrefixesOf
<1>2. Len(s) \in Nat
  BY LenProperties
<1> QED BY <1>1, <1>2, SubSeqProperties

\* Its end of the link goes, and with it what was not read.
Gone(ls, l, r) == [ls EXCEPT ![l].appEnd = FALSE, ![l].toEng = r, ![l].toApp = <<>>]

LEMMA GoesAway ==
    ASSUME NEW ls \in [Links -> Link], NEW l \in Links, NEW r \in Seq(ToEng)
    PROVE  /\ Gone(ls, l, r) \in [Links -> Link]
           /\ \A m \in Links : m # l => Gone(ls, l, r)[m] = ls[m]
           /\ \A m \in Links : m = l => Left(ls[m], Gone(ls, l, r)[m])
<1> DEFINE k == [ls[l] EXCEPT !.appEnd = FALSE, !.toEng = r, !.toApp = <<>>]
<1>1. Gone(ls, l, r) = [ls EXCEPT ![l] = k]
  BY DEF Gone
<1>2. ls[l] \in Link
  OBVIOUS
<1>3. k \in Link /\ Left(ls[l], k)
  <2>1. ASSUME NEW w \in Link, NEW x \in Seq(ToEng)
        PROVE  /\ [w EXCEPT !.appEnd = FALSE, !.toEng = x, !.toApp = <<>>] \in Link
               /\ Left(w, [w EXCEPT !.appEnd = FALSE, !.toEng = x, !.toApp = <<>>])
    <3>1. <<>> \in Seq(ToApp)
      BY EmptySeq
    <3> QED BY ONLY <3>1, w \in Link, x \in Seq(ToEng) DEF Link, Left
  <2> QED BY <1>2, <2>1
<1> HIDE DEF k
<1> QED BY <1>1, <1>2, <1>3

LEMMA LinkLostKeeps == ASSUME NEW a \in Apps PROVE IInv /\ LinkLost(a) => IInv'
<1> SUFFICES ASSUME IInv, LinkLost(a) PROVE IInv'
  OBVIOUS
<1> DEFINE l == apps[a].link
           st == IF apps[a].st = "over" THEN "over" ELSE "linkless"
           p == [NoApp EXCEPT !.st = st]
<1>1. PICK r \in PrefixesOf(links[l].toEng) : links' = Gone(links, l, r)
  BY DEF LinkLost, Gone
<1>2. l # 0 /\ apps' = [apps EXCEPT ![a] = p] /\ UNCHANGED <<up, nLinks, marks, log, hist>>
  <2> HIDE DEF l
  <2> QED BY DEF LinkLost, l
<1>3. l \in Links /\ links \in [Links -> Link] /\ apps[a] \in Process
  BY <1>2, AppIs, InTurnIs
<1>4. links[l].toEng \in Seq(ToEng)
  BY <1>3 DEF Link
<1>5. r \in Seq(ToEng)
  BY <1>1, <1>4, PrefixIs
<1>6. p \in Process /\ p.st \in {"over", "linkless"} /\ p.link = 0 /\ p.maxRow = 0 /\ p.todo = {}
  <2>1. st \in {"over", "linkless"} /\ st \in States
    BY DEF States
  <2> HIDE DEF st
  <2> QED BY <1>3, <2>1, EndedIs
<1> HIDE DEF p, l
<1>7. Sane(p)
  BY <1>6 DEF Sane
<1>8. /\ links' \in [Links -> Link]
      /\ \A m \in Links : m # l => links'[m] = links[m]
      /\ \A m \in Links : m = l => Left(links[m], links'[m])
  <2> DEFINE g == Gone(links, l, r)
  <2>1. /\ g \in [Links -> Link]
        /\ \A m \in Links : m # l => g[m] = links[m]
        /\ \A m \in Links : m = l => Left(links[m], g[m])
    BY ONLY <1>3, <1>5, GoesAway
  <2> HIDE DEF g
  <2>2. links' = g
    BY <1>1 DEF g
  <2> QED BY <2>1, <2>2
<1> QED BY <1>2, <1>6, <1>7, <1>8, LeaveKeeps DEF l

LEMMA CrashKeeps == ASSUME NEW a \in Apps PROVE IInv /\ Crash(a) => IInv'
<1> SUFFICES ASSUME IInv, Crash(a) PROVE IInv'
  OBVIOUS
<1> DEFINE l == apps[a].link
           p == [NoApp EXCEPT !.st = "gone"]
<1>1. PICK r \in IF l = 0 THEN {<<>>} ELSE PrefixesOf(links[l].toEng) :
         links' = IF l = 0 THEN links ELSE Gone(links, l, r)
  BY DEF Crash, Gone
<1>2. apps' = [apps EXCEPT ![a] = p] /\ UNCHANGED <<up, nLinks, marks, log, hist>>
  BY DEF Crash
<1>3. l \in {0} \union Links /\ links \in [Links -> Link] /\ apps[a] \in Process /\ 0 \notin Links
  BY AppIs, InTurnIs
<1>6. p \in Process /\ p.st = "gone" /\ p.link = 0 /\ p.maxRow = 0 /\ p.todo = {}
  BY <1>3, EndedIs DEF States
<1> HIDE DEF p, l
<1>7. Sane(p)
  BY <1>6 DEF Sane
<1>8. /\ links' \in [Links -> Link]
      /\ \A m \in Links : m # l => links'[m] = links[m]
      /\ \A m \in Links : m = l => Left(links[m], links'[m])
  <2>1. CASE l = 0
    BY <1>1, <1>3, <2>1
  <2>2. CASE l # 0
    <3>1. l \in Links /\ links[l].toEng \in Seq(ToEng)
      BY <1>3, <2>2 DEF Link
    <3> DEFINE g == Gone(links, l, r)
    <3>2. r \in PrefixesOf(links[l].toEng) /\ links' = g
      BY <1>1, <2>2
    <3>3. r \in Seq(ToEng)
      BY <3>1, <3>2, PrefixIs
    <3>4. /\ g \in [Links -> Link]
          /\ \A m \in Links : m # l => g[m] = links[m]
          /\ \A m \in Links : m = l => Left(links[m], g[m])
      BY ONLY <1>3, <3>1, <3>3, GoesAway
    <3> HIDE DEF g
    <3> QED BY <3>2, <3>4
  <2> QED BY <2>1, <2>2
<1> QED BY <1>2, <1>6, <1>7, <1>8, LeaveKeeps DEF l

LEMMA ShutdownKeeps == ASSUME NEW a \in Apps PROVE IInv /\ Shutdown(a) => IInv'
<1> SUFFICES ASSUME IInv, Shutdown(a) PROVE IInv'
  OBVIOUS
<1> DEFINE l == apps[a].link
           p == [NoApp EXCEPT !.st = "gone"]
           d == IF apps[a].st = "up" THEN Ask(links, l, Op("detach")) ELSE links
<1>1. links' = IF l = 0 THEN links ELSE [d EXCEPT ![l].appEnd = FALSE, ![l].toApp = <<>>]
  BY DEF Shutdown
<1>2. apps' = [apps EXCEPT ![a] = p] /\ UNCHANGED <<up, nLinks, marks, log, hist>>
  BY DEF Shutdown
<1>3. l \in {0} \union Links /\ links \in [Links -> Link] /\ apps[a] \in Process /\ 0 \notin Links
  BY AppIs, InTurnIs
<1>4. Op("detach") \in ToEng
  BY DEF Op, ToEng
<1>6. p \in Process /\ p.st = "gone" /\ p.link = 0 /\ p.maxRow = 0 /\ p.todo = {}
  BY <1>3, EndedIs DEF States
<1> HIDE DEF p, l
<1>7. Sane(p)
  BY <1>6 DEF Sane
<1>8. /\ d \in [Links -> Link]
      /\ \A m \in Links : m # l => d[m] = links[m]
      /\ \A m \in Links : Kept(links[m], d[m]) /\ d[m].engEnd = links[m].engEnd
  <2> DEFINE e == Ask(links, l, Op("detach"))
  <2>1. /\ e \in [Links -> Link]
        /\ \A m \in Links : m # l \/ ~links[m].engEnd => e[m] = links[m]
        /\ \A m \in Links : m = l /\ links[m].engEnd =>
              Wrote(links[m], e[m], links[m].toApp, Append(links[m].toEng, Op("detach")))
    BY <1>3, <1>4, AsksOne
  <2> HIDE DEF e
  <2>2. \A m \in Links : Kept(links[m], e[m]) /\ e[m].engEnd = links[m].engEnd
                         /\ Kept(links[m], links[m])
    BY <2>1 DEF Wrote, Kept
  <2>3. d = e \/ d = links
    BY DEF e
  <2> HIDE DEF d
  <2> QED BY <1>3, <2>1, <2>2, <2>3
<1> HIDE DEF d
<1>9. /\ links' \in [Links -> Link]
      /\ \A m \in Links : m # l => links'[m] = links[m]
      /\ \A m \in Links : m = l => Left(links[m], links'[m])
  <2>1. CASE l = 0
    BY <1>1, <1>3, <2>1
  <2>2. CASE l # 0
    <3> DEFINE k == [d[l] EXCEPT !.appEnd = FALSE, !.toApp = <<>>]
    <3>1. l \in Links /\ d[l] \in Link /\ links' = [d EXCEPT ![l] = k]
      BY <1>1, <1>3, <1>8, <2>2
    <3>2. k \in Link /\ Left(d[l], k)
      <4>1. ASSUME NEW w \in Link
            PROVE  /\ [w EXCEPT !.appEnd = FALSE, !.toApp = <<>>] \in Link
                   /\ Left(w, [w EXCEPT !.appEnd = FALSE, !.toApp = <<>>])
        <5>1. <<>> \in Seq(ToApp)
          BY EmptySeq
        <5> QED BY ONLY <5>1, w \in Link DEF Link, Left
      <4> QED BY <3>1, <4>1
    <3> HIDE DEF k
    <3>3. Left(links[l], k)
      BY <1>8, <3>1, <3>2 DEF Left, Kept
    <3> QED BY <1>8, <3>1, <3>2, <3>3
  <2> QED BY <2>1, <2>2
<1> QED BY <1>2, <1>6, <1>7, <1>9, LeaveKeeps DEF l

\* The least of a set of numbers is one of them.
LEMMA MinIs ==
    ASSUME NEW S \in SUBSET Nat, S # {}
    PROVE  Min(S) \in S /\ \A y \in S : Min(S) <= y
<1>1. IsWellFoundedOn(OpToRel(<, Nat), Nat)
  BY NatLessThanWellFounded
<1>2. PICK x \in S : \A y \in S : ~(<<y, x>> \in OpToRel(<, Nat))
  BY <1>1, WFMin
<1>3. OpToRel(<, Nat) = {r \in Nat \X Nat : r[1] < r[2]}
  BY Zenon DEF OpToRel
<1>4. \A y \in S : x <= y
  <2>1. \A y \in S : ~(<<y, x>> \in {r \in Nat \X Nat : r[1] < r[2]})
    BY <1>2, <1>3, Zenon
  <2>2. \A y \in S : <<y, x>> \in Nat \X Nat
    OBVIOUS
  <2>3. \A y \in S : ~(y < x)
    BY <2>1, <2>2
  <2>4. \A y \in S : y \in Nat /\ x \in Nat
    OBVIOUS
  <2> QED BY ONLY <2>3, <2>4
<1> QED BY <1>4 DEF Min

LEMMA StoreRowKeeps == ASSUME NEW a \in Apps PROVE IInv /\ StoreRow(a) => IInv'
<1> SUFFICES ASSUME IInv, StoreRow(a) PROVE IInv'
  OBVIOUS
<1> DEFINE p     == apps[a]
           row   == [sock |-> p.sock, seq |-> p.at, part |-> Min(p.todo)]
           store == ~AlreadyPersisted(p, row) /\ ~RefusedByMark(p)
           last  == p.todo = {Min(p.todo)}
           q     == [p EXCEPT !.todo = @ \ {Min(@)}, !.under = IF store THEN p.at ELSE @,
                              !.at = IF last THEN 0 ELSE @, !.ackSeq = IF last THEN p.at ELSE @]
<1>1. /\ p \in Process /\ Sane(p) /\ p.maxRow <= Len(log) /\ p.maxRow \in Nat /\ Len(log) \in Nat
      /\ apps \in [Apps -> Process] /\ log \in Seq(Row) /\ marks \in [Socks -> {0} \union Seqs]
      /\ p.link \in {0} \union Links /\ 0 \notin Links
      /\ p.link # 0 => Talk(links[p.link], p.st, up.sink = p.link, up.st = "open")
  BY AppIs
<1>2. /\ p.todo # {}
      /\ log' = IF store THEN Append(log, row) ELSE log
      /\ marks' = IF store /\ marks[p.sock] < p.at THEN [marks EXCEPT ![p.sock] = p.at] ELSE marks
      /\ UNCHANGED <<up, links, nLinks, hist>>
  BY DEF StoreRow
<1>3. apps' = [apps EXCEPT ![a] = q]
  BY <1>1 DEF StoreRow
<1>4. Min(p.todo) \in p.todo /\ p.todo \in SUBSET (Nat \ {0})
  <2>1. p.todo \in SUBSET (Nat \ {0}) /\ p.todo \in SUBSET Nat
    BY <1>1 DEF Process
  <2> QED BY <1>2, <2>1, MinIs
<1>5. p.sock \in Socks /\ p.at \in Seqs /\ p.st = "up"
  BY <1>1, <1>2 DEF Sane, Process
<1> HIDE DEF store
<1>6. row \in Row
  BY <1>4, <1>5 DEF Row
<1> HIDE DEF row
<1>7. log' \in Seq(Row) /\ Len(log) <= Len(log') /\ p.maxRow <= Len(log')
  BY <1>1, <1>2, <1>6, AppendProperties
<1>8. marks' \in [Socks -> {0} \union Seqs]
  BY <1>1, <1>2, <1>5
<1>9. /\ q \in Process /\ q.st = p.st /\ q.link = p.link /\ q.sock = p.sock
      /\ q.maxRow = p.maxRow /\ q.todo = p.todo \ {Min(p.todo)}
      /\ q.at = IF last THEN 0 ELSE p.at
  <2> HIDE DEF p, last
  <2> QED BY <1>1, <1>4, <1>5, ZenonT(60) DEF Process
<1>10. last => q.todo = {}
  BY <1>9
<1> HIDE DEF q, last
<1>11. Sane(q)
  BY <1>1, <1>5, <1>9, <1>10, Bounds DEF Sane
<1>12. /\ links' \in [Links -> Link] /\ hist' \in History
       /\ \A m \in Links : Stays(links[m], links'[m]) /\ (m # q.link => links'[m] = links[m])
  <2>1. links \in [Links -> Link] /\ hist \in History
        /\ \A m \in Links : Kept(links[m], links[m])
    BY InTurnIs
  <2> QED BY <1>2, <2>1 DEF Stays
<1>13. \A m \in Links : m = q.link => Talk(links'[m], q.st, up.sink = m, up.st = "open")
  BY <1>1, <1>2, <1>9
<1>14. q.maxRow <= Len(log') /\ UNCHANGED <<up, nLinks>>
  BY <1>2, <1>7, <1>9
<1> QED BY <1>3, <1>7, <1>8, <1>9, <1>11, <1>12, <1>13, <1>14, AppKeeps

\* What a process takes from its link.
Took(l) == [links EXCEPT ![l].toApp = Tail(@)]

LEMMA TookIs ==
    ASSUME IInv, NEW l \in Links, links[l].toApp # <<>>
    PROVE  /\ Took(l) \in [Links -> Link]
           /\ \A m \in Links : m # l => Took(l)[m] = links[m]
           /\ Wrote(links[l], Took(l)[l], Tail(links[l].toApp), links[l].toEng)
           /\ Head(links[l].toApp) \in ToApp
<1>1. links \in [Links -> Link]
  BY InTurnIs
<1>2. links[l] \in Link /\ links[l].toApp \in Seq(ToApp)
  BY <1>1 DEF Link
<1>3. Tail(links[l].toApp) \in Seq(ToApp) /\ Head(links[l].toApp) \in ToApp
  BY <1>2, HeadTailProperties
<1> DEFINE k == [links[l] EXCEPT !.toApp = Tail(links[l].toApp)]
<1>4. Took(l) = [links EXCEPT ![l] = k]
  BY DEF Took
<1>5. k \in Link /\ Wrote(links[l], k, Tail(links[l].toApp), links[l].toEng)
  BY <1>2, <1>3 DEF Link, Wrote
<1> HIDE DEF k
<1> QED BY <1>1, <1>3, <1>4, <1>5

\* A process that reads a frame.
LEMMA FrameKeeps ==
    ASSUME IInv, NEW a \in Apps, apps[a].link # 0, links[apps[a].link].toApp # <<>>,
           NEW f, f = Head(links[apps[a].link].toApp), links' = Took(apps[a].link),
           NEW p, apps' = [apps EXCEPT ![a] = p], Sane(p), p.link = apps[a].link,
           p.maxRow <= Len(log), UNCHANGED <<up, nLinks, log>>,
           marks' \in [Socks -> {0} \union Seqs], hist' \in History,
           Starts(f) => p.st = "up", f.op = "dialing" => p.st = "asking",
           f.op \in {"held", "line", "gap", "live"} => p.st = apps[a].st
    PROVE  IInv'
<1> DEFINE l == apps[a].link
           d == Took(l)
           open == up.st = "open"
           mine == up.sink = l
<1>1. /\ l \in Links /\ Len(log) \in Nat /\ log \in Seq(Row)
      /\ Talk(links[l], apps[a].st, mine, open)
  BY AppIs
<1>2. links \in [Links -> Link] /\ open \in BOOLEAN /\ mine \in BOOLEAN
      /\ \A m \in Links : Kept(links[m], links[m]) /\ (~links[m].appEnd => links[m].toApp = <<>>)
  BY InTurnIs
<1>3. links[l].toApp # <<>> /\ f = Head(links[l].toApp) /\ links' = d
  OBVIOUS
<1> HIDE DEF l
<1>4. /\ d \in [Links -> Link]
      /\ \A m \in Links : m # l => d[m] = links[m]
      /\ Wrote(links[l], d[l], Tail(links[l].toApp), links[l].toEng)
  BY <1>1, <1>3, TookIs
<1> HIDE DEF d, mine, open
<1>5. \A m \in Links : Stays(links[m], d[m]) /\ (m # l => d[m] = links[m])
  BY <1>1, <1>2, <1>3, <1>4 DEF Stays, Kept, Wrote
<1>6. Talk(d[l], p.st, mine, open)
  <2>1. links[l] \in Link /\ d[l] \in Link /\ d[l].toApp = Tail(links[l].toApp)
        /\ d[l].toEng = links[l].toEng /\ d[l].engEnd = links[l].engEnd
    BY <1>1, <1>2, <1>4 DEF Wrote
  <2>2. Read(links[l], d[l], apps[a].st, p.st)
    BY <1>3, <2>1 DEF Read
  <2>3. links[l] \in Link /\ d[l] \in Link /\ Talk(links[l], apps[a].st, mine, open)
    BY <1>1, <2>1
  <2> QED BY ONLY <1>2, <2>2, <2>3, TalkReads
<1>7. p.link = l
  BY DEF l
<1>8. /\ links' \in [Links -> Link]
      /\ \A m \in Links : Stays(links[m], links'[m]) /\ (m # p.link => links'[m] = links[m])
      /\ \A m \in Links : m = p.link => Talk(links'[m], p.st, up.sink = m, up.st = "open")
  BY <1>3, <1>4, <1>5, <1>6, <1>7 DEF mine, open
<1>9. log' \in Seq(Row) /\ p.maxRow <= Len(log') /\ Len(log) <= Len(log')
  BY <1>1
<1> QED BY <1>8, <1>9, AppKeeps

\* What the invariant says of a frame that is read.
LEMMA FrameIs ==
    ASSUME IInv, NEW a \in Apps, apps[a].link # 0, links[apps[a].link].toApp # <<>>,
           NEW f, f = Head(links[apps[a].link].toApp)
    PROVE  /\ f \in ToApp
           /\ f.op # "held" => apps[a].st \in {"asking", "up"}
           /\ f.op = "line" => apps[a].st = "up"
<1> DEFINE l == apps[a].link
           d == Took(l)
           open == up.st = "open"
           mine == up.sink = l
<1>1. l \in Links /\ Talk(links[l], apps[a].st, mine, open)
  BY AppIs
<1>2. links \in [Links -> Link] /\ open \in BOOLEAN /\ mine \in BOOLEAN
  BY InTurnIs
<1>3. links[l].toApp # <<>> /\ f = Head(links[l].toApp)
  OBVIOUS
<1> HIDE DEF l
<1>4. /\ d \in [Links -> Link] /\ Head(links[l].toApp) \in ToApp
      /\ Wrote(links[l], d[l], Tail(links[l].toApp), links[l].toEng)
  BY <1>1, <1>3, TookIs
<1> HIDE DEF d, mine, open
<1> DEFINE st2 == IF Starts(f) THEN "up" ELSE IF f.op = "dialing" THEN "asking" ELSE apps[a].st
<1>5. /\ Starts(Head(links[l].toApp)) => st2 = "up"
      /\ Head(links[l].toApp).op = "dialing" => st2 = "asking"
      /\ Head(links[l].toApp).op \in {"held", "line", "gap", "live"} => st2 = apps[a].st
  BY <1>3 DEF Starts
<1>6. links[l] \in Link /\ d[l] \in Link /\ d[l].toApp = Tail(links[l].toApp)
      /\ d[l].toEng = links[l].toEng /\ d[l].engEnd = links[l].engEnd
  BY <1>1, <1>2, <1>4 DEF Wrote
<1> HIDE DEF st2
<1>7. /\ Head(links[l].toApp).op # "held" => apps[a].st \in {"asking", "up"}
      /\ Head(links[l].toApp).op = "line" => apps[a].st = "up"
  <2>1. Read(links[l], d[l], apps[a].st, st2)
    BY <1>3, <1>5, <1>6 DEF Read
  <2>2. links[l] \in Link /\ d[l] \in Link /\ Talk(links[l], apps[a].st, mine, open)
    BY <1>1, <1>6
  <2> QED BY ONLY <1>2, <2>1, <2>2, TalkReads
<1> QED BY <1>3, <1>4, <1>7

\* IrcManager.reconcileHeld: a session on offer is asked for.
LEMMA AdoptKeeps ==
    ASSUME IInv, NEW a \in Apps, apps[a].link # 0, links[apps[a].link].toApp # <<>>,
           Head(links[apps[a].link].toApp).op = "held", apps[a].st = "over",
           links' = Ask(Took(apps[a].link), apps[a].link, Op("connect")),
           NEW p, apps' = [apps EXCEPT ![a] = p], Sane(p), p.link = apps[a].link,
           p.st = "asking", p.maxRow <= Len(log),
           UNCHANGED <<up, nLinks, log, marks, hist>>
    PROVE  IInv'
<1> DEFINE l == apps[a].link
           ls == Took(l)
           d == Ask(ls, l, Op("connect"))
           open == up.st = "open"
           mine == up.sink = l
<1>1. /\ l \in Links /\ Len(log) \in Nat /\ log \in Seq(Row)
      /\ marks \in [Socks -> {0} \union Seqs] /\ Talk(links[l], "over", mine, open)
  BY AppIs
<1>2. links \in [Links -> Link] /\ open \in BOOLEAN /\ mine \in BOOLEAN /\ hist \in History
      /\ \A m \in Links : Kept(links[m], links[m]) /\ (~links[m].appEnd => links[m].toApp = <<>>)
  BY InTurnIs
<1>3. links[l].toApp # <<>> /\ links' = d /\ Head(links[l].toApp).op = "held"
  OBVIOUS
<1> HIDE DEF l
<1>4. /\ ls \in [Links -> Link]
      /\ \A m \in Links : m # l => ls[m] = links[m]
      /\ Wrote(links[l], ls[l], Tail(links[l].toApp), links[l].toEng)
  BY <1>1, <1>3, TookIs
<1> HIDE DEF ls, mine, open
<1>5. Op("connect") \in ToEng
  BY DEF Op, ToEng
<1>6. /\ d \in [Links -> Link]
      /\ \A m \in Links : m # l \/ ~ls[m].engEnd => d[m] = ls[m]
      /\ \A m \in Links : m = l /\ ls[m].engEnd =>
            Wrote(ls[m], d[m], ls[m].toApp, Append(ls[m].toEng, Op("connect")))
  BY <1>1, <1>4, <1>5, AsksOne
<1> HIDE DEF d
<1>7. \A m \in Links : Stays(links[m], d[m]) /\ (m # l => d[m] = links[m])
  <2> SUFFICES ASSUME NEW m \in Links PROVE Stays(links[m], d[m]) /\ (m # l => d[m] = links[m])
    OBVIOUS
  <2>1. CASE m # l
    BY <1>2, <1>4, <1>6, <2>1 DEF Stays
  <2>2. CASE m = l
    <3>1. links[l].appEnd /\ ls[l].owner = links[l].owner /\ ls[l].appEnd = links[l].appEnd
          /\ ls[l].engEnd = links[l].engEnd
      BY <1>1, <1>2, <1>3, <1>4 DEF Wrote
    <3>2. d[l].owner = ls[l].owner /\ d[l].appEnd = ls[l].appEnd /\ d[l].engEnd = ls[l].engEnd
      BY <1>1, <1>6 DEF Wrote
    <3>3. Stays(links[l], d[l])
      BY <3>1, <3>2 DEF Stays, Kept
    <3> QED BY <2>2, <3>3
  <2> QED BY <2>1, <2>2
<1>8. Talk(d[l], p.st, mine, open)
  <2>1. Read(links[l], ls[l], "over", "over")
    BY <1>3, <1>4 DEF Read, Starts, Wrote
  <2>2. links[l] \in Link /\ ls[l] \in Link /\ d[l] \in Link
    BY <1>1, <1>2, <1>4, <1>6
  <2>3. Talk(ls[l], "over", mine, open)
    BY ONLY <1>1, <1>2, <2>1, <2>2, TalkReads
  <2>4. /\ d[l].toApp = ls[l].toApp /\ d[l].engEnd = ls[l].engEnd
        /\ d[l].toEng = (IF ls[l].engEnd THEN Append(ls[l].toEng, Op("connect")) ELSE ls[l].toEng)
    BY <1>1, <1>6 DEF Wrote
  <2>5. Talk(d[l], "asking", mine, open)
    BY ONLY <1>2, <2>2, <2>3, <2>4, TalkAsked
  <2> QED BY <2>5
<1>9. p.link = l
  BY DEF l
<1>10. /\ links' \in [Links -> Link]
       /\ \A m \in Links : Stays(links[m], links'[m]) /\ (m # p.link => links'[m] = links[m])
       /\ \A m \in Links : m = p.link => Talk(links'[m], p.st, up.sink = m, up.st = "open")
  BY <1>3, <1>6, <1>7, <1>8, <1>9 DEF mine, open
<1>11. /\ log' \in Seq(Row) /\ p.maxRow <= Len(log') /\ Len(log) <= Len(log')
       /\ marks' \in [Socks -> {0} \union Seqs] /\ hist' \in History /\ UNCHANGED <<up, nLinks>>
  BY <1>1, <1>2
<1> QED BY <1>10, <1>11, AppKeeps

\* pruneEngineMarks.
LEMMA Prunes ==
    ASSUME IInv, NEW n
    PROVE  /\ Pruned(n) \in [Socks -> {0} \union Seqs]
           /\ [hist EXCEPT !.forgot = @ \union Forgotten(n)] \in History
<1>1. marks \in [Socks -> {0} \union Seqs] /\ hist \in History
  BY DEF IInv, Typed
<1>2. Forgotten(n) \subseteq Socks
  BY DEF Forgotten
<1> HIDE DEF IInv
<1>3. [hist EXCEPT !.forgot = @ \union Forgotten(n)] \in History
  BY <1>1, <1>2 DEF History
<1>4. Pruned(n) \in [Socks -> {0} \union Seqs]
  BY <1>1 DEF Pruned
<1> QED BY <1>3, <1>4

\* A process that ends what it has and is in st.
LEMMA EndedKeeps ==
    ASSUME IInv, NEW a \in Apps, apps[a].link # 0, links[apps[a].link].toApp # <<>>,
           NEW f, f = Head(links[apps[a].link].toApp), links' = Took(apps[a].link),
           NEW st \in {"asking", "over", "redial"}, apps' = [apps EXCEPT ![a] = Ended(apps[a], st)],
           UNCHANGED <<up, nLinks, log>>,
           marks' \in [Socks -> {0} \union Seqs], hist' \in History,
           f.op \in {"dialing", "detached", "closed"}, f.op = "dialing" => st = "asking"
    PROVE  IInv'
<1> DEFINE p == Ended(apps[a], st)
<1>1. apps[a] \in Process /\ Len(log) \in Nat
  BY AppIs
<1>2. p \in Process /\ p.st = st /\ p.link = apps[a].link /\ p.maxRow = 0 /\ p.todo = {}
  BY <1>1, EndedIs DEF States
<1> HIDE DEF p
<1>3. Sane(p)
  BY <1>2 DEF Sane
<1>4. /\ apps' = [apps EXCEPT ![a] = p] /\ p.maxRow <= Len(log)
      /\ Starts(f) => p.st = "up"
      /\ f.op = "dialing" => p.st = "asking"
      /\ f.op \in {"held", "line", "gap", "live"} => p.st = apps[a].st
  BY <1>1, <1>2 DEF p, Starts
<1> QED BY ONLY <1>2, <1>3, <1>4, FrameKeeps, IInv, a \in Apps, apps[a].link # 0,
                links[apps[a].link].toApp # <<>>,
                f = Head(links[apps[a].link].toApp), links' = Took(apps[a].link),
                UNCHANGED <<up, nLinks, log>>,
                marks' \in [Socks -> {0} \union Seqs], hist' \in History

\* EngineTransport.onFrame, for each kind of frame.
LEMMA OnFrameKeeps ==
    ASSUME IInv, NEW a \in Apps, apps[a].link # 0, links[apps[a].link].toApp # <<>>,
           apps[a].todo = {}, NEW f, f = Head(links[apps[a].link].toApp),
           links' = Took(apps[a].link), UNCHANGED <<up, nLinks, log>>, OnFrame(a, f)
    PROVE  IInv'
<1> DEFINE p == apps[a]
<1>1. /\ p \in Process /\ Sane(p) /\ p.maxRow <= Len(log) /\ p.maxRow \in Nat /\ Len(log) \in Nat
      /\ apps \in [Apps -> Process] /\ marks \in [Socks -> {0} \union Seqs]
  BY AppIs
<1>2. hist \in History /\ 0 \notin Socks /\ 0 \notin Seqs
  BY InTurnIs, Bounds
<1>3. f \in ToApp /\ (f.op = "line" => p.st = "up")
  BY FrameIs
<1> DEFINE Step(q) ==
              /\ apps' = [apps EXCEPT ![a] = q] /\ q \in Process /\ q.link = p.link
              /\ q.maxRow <= Len(log) /\ Sane(q)
              /\ marks' \in [Socks -> {0} \union Seqs] /\ hist' \in History
              /\ Starts(f) => q.st = "up"
              /\ f.op = "dialing" => q.st = "asking"
              /\ f.op \in {"held", "line", "gap", "live"} => q.st = p.st
<1>s. ASSUME NEW q, Step(q) PROVE IInv'
  BY <1>s, FrameKeeps
<1>4. CASE f.op = "dialing" /\ apps' = [apps EXCEPT ![a] = Ended(p, "asking")]
           /\ marks' = Pruned(0) /\ hist' = [hist EXCEPT !.forgot = @ \union Forgotten(0)]
  <2>1. marks' \in [Socks -> {0} \union Seqs] /\ hist' \in History
    BY <1>4, Prunes
  <2> QED BY <1>4, <2>1, EndedKeeps
<1>5. CASE f.op \in {"detached", "closed"} /\ UNCHANGED <<marks, hist>>
           /\ apps' = [apps EXCEPT ![a] = Ended(p, IF f.op = "detached" THEN "over" ELSE "redial")]
  <2>1. marks' \in [Socks -> {0} \union Seqs] /\ hist' \in History
    BY <1>1, <1>2, <1>5
  <2>2. CASE f.op = "detached"
    BY <1>5, <2>1, <2>2, EndedKeeps
  <2>3. CASE f.op = "closed"
    BY <1>5, <2>1, <2>3, EndedKeeps
  <2> QED BY <1>5, <2>2, <2>3
<1>6. CASE f.op = "open" /\ apps' = [apps EXCEPT ![a].st = "up", ![a].sock = f.sock]
           /\ UNCHANGED <<marks, hist>>
  <2> DEFINE q == [p EXCEPT !.st = "up", !.sock = f.sock]
  <2>1. f.sock \in Socks
    BY <1>3, <1>6 DEF ToApp, Bare
  <2>2. apps' = [apps EXCEPT ![a] = q]
    BY <1>1, <1>6
  <2>3. q \in Process /\ q.st = "up" /\ q.link = p.link /\ q.maxRow = p.maxRow
        /\ q.todo = p.todo /\ q.sock = f.sock
    BY <1>1, <2>1 DEF Process, States
  <2> HIDE DEF q
  <2>4. Step(q)
    BY <1>1, <1>2, <1>6, <2>1, <2>2, <2>3 DEF Sane
  <2> QED BY <2>4, <1>s
<1>7. CASE f.op = "attached" /\ marks' = Pruned(f.sock)
           /\ apps' = [apps EXCEPT ![a] = [Ended(p, "up") EXCEPT !.sock = f.sock,
                                              !.catching = TRUE, !.maxRow = Len(log)]]
           /\ hist' = [hist EXCEPT !.forgot = @ \union Forgotten(f.sock)]
  <2> DEFINE e == Ended(p, "up")
             q == [e EXCEPT !.sock = f.sock, !.catching = TRUE, !.maxRow = Len(log)]
  <2>1. f.sock \in Socks
    BY <1>3, <1>7 DEF ToApp, Bare
  <2>2. marks' \in [Socks -> {0} \union Seqs] /\ hist' \in History
    BY <1>7, Prunes
  <2>3. e \in Process /\ e.st = "up" /\ e.link = p.link /\ e.todo = {}
    BY <1>1, EndedIs DEF States
  <2>4. apps' = [apps EXCEPT ![a] = q]
    BY <1>7
  <2> HIDE DEF e
  <2>5. q \in Process /\ q.st = "up" /\ q.link = p.link /\ q.maxRow = Len(log)
        /\ q.todo = {} /\ q.sock = f.sock
    <3>1. Len(log) \in Nat
      BY <1>1 DEF Process
    <3>2. q = [e EXCEPT !.sock = f.sock, !.catching = TRUE, !.maxRow = Len(log)]
      BY DEF q
    <3> QED BY ONLY <2>1, <2>3, <3>1, <3>2, Bounds DEF Process
  <2> HIDE DEF q
  <2>6. Sane(q)
    BY <1>1, <1>2, <2>1, <2>5 DEF Sane
  <2>7. f.op = "attached" /\ q.maxRow <= Len(log)
    BY <1>1, <1>7, <2>5
  <2>8. Step(q)
    BY ONLY <2>2, <2>4, <2>5, <2>6, <2>7 DEF Starts
  <2> QED BY <2>8, <1>s
<1>8. CASE f.op = "line" /\ apps' = [apps EXCEPT ![a] = Delivering(p, f.seq)]
           /\ UNCHANGED <<marks, hist>>
  <2> DEFINE s     == f.seq
             q     == Delivering(p, s)
             rows  == RowsFor(p, s)
             known == IF InOpenBatch(s) THEN p.known \union {s} ELSE p.known \ (BatchStart[s] .. s)
  <2>1. s \in Seqs
    BY <1>3, <1>8 DEF ToApp, Bare
  <2>2. rows \subseteq Nat \ {0}
    <3>1. RowsAt[s] \in Nat
      BY <2>1, RelayConstants
    <3>2. rows \subseteq 1 .. RowsAt[s]
      BY Zenon DEF RowsFor
    <3> HIDE DEF rows
    <3> QED BY <3>1, <3>2
  <2>3. known \subseteq Seqs
    BY <1>1, <2>1 DEF Process
  <2>4. q = IF rows = {} THEN [p EXCEPT !.known = known, !.ackSeq = s]
                         ELSE [p EXCEPT !.known = known, !.at = s, !.todo = rows]
    BY DEF Delivering
  <2> HIDE DEF rows, known, q, s
  <2>5. q \in Process /\ q.st = p.st /\ q.link = p.link /\ q.maxRow = p.maxRow
        /\ q.sock = p.sock /\ (q.todo # {} => q.at = s)
    BY <1>1, <2>1, <2>2, <2>3, <2>4 DEF Process
  <2>6. apps' = [apps EXCEPT ![a] = q]
    BY <1>8 DEF q, s
  <2>7. Step(q)
    BY <1>1, <1>2, <1>3, <1>8, <2>1, <2>5, <2>6 DEF Sane, Starts
  <2> QED BY <2>7, <1>s
<1>9. CASE f.op = "gap" /\ hist' = Note("told", f.sock, f.gap.first .. f.gap.last)
           /\ UNCHANGED <<apps, marks>>
  <2>1. f.sock \in Socks /\ f.gap \in Gap
    BY <1>3, <1>9 DEF ToApp, Bare
  <2>0. f.gap.first \in Nat /\ f.gap.last \in Nat
    BY ONLY <2>1, Bounds DEF Gap
  <2>2. f.gap.first .. f.gap.last \subseteq Nat
    BY ONLY <2>0, SMTT(20)
  <2>3. hist' \in History
    BY <1>2, <1>9, <2>1, <2>2, Notes
  <2>4. apps' = [apps EXCEPT ![a] = p]
    BY <1>1, <1>9
  <2>5. Step(p)
    BY <1>1, <1>9, <2>3, <2>4 DEF Starts
  <2> QED BY <2>5, <1>s
<1>10. CASE f.op = "live" /\ apps' = [apps EXCEPT ![a].catching = FALSE, ![a].maxRow = 0]
            /\ UNCHANGED <<marks, hist>>
  <2> DEFINE q == [p EXCEPT !.catching = FALSE, !.maxRow = 0]
  <2>1. apps' = [apps EXCEPT ![a] = q]
    BY <1>1, <1>10
  <2>2. q \in Process /\ q.st = p.st /\ q.link = p.link /\ q.maxRow = 0
        /\ q.todo = p.todo /\ q.sock = p.sock /\ q.at = p.at
    BY <1>1 DEF Process
  <2> HIDE DEF q
  <2>3. Sane(q)
    BY <1>1, <2>2 DEF Sane
  <2>4. f.op = "live" /\ q.maxRow <= Len(log) /\ marks' \in [Socks -> {0} \union Seqs]
        /\ hist' \in History
    BY <1>1, <1>2, <1>10, <2>2
  <2>5. Step(q)
    BY ONLY <2>1, <2>2, <2>3, <2>4 DEF Starts
  <2> QED BY <2>5, <1>s
<1> QED BY <1>4, <1>5, <1>6, <1>7, <1>8, <1>9, <1>10 DEF OnFrame

LEMMA AppReadsKeeps == ASSUME NEW a \in Apps PROVE IInv /\ AppReads(a) => IInv'
<1> SUFFICES ASSUME IInv, AppReads(a) PROVE IInv'
  OBVIOUS
<1> DEFINE l == apps[a].link
           p == apps[a]
           f == Head(links[l].toApp)
<1>1. /\ p.todo = {} /\ l # 0 /\ links[l].toApp # <<>>
      /\ UNCHANGED <<up, nLinks, log>>
  BY DEF AppReads
<1>2. p \in Process /\ Sane(p) /\ p.maxRow <= Len(log) /\ p.maxRow \in Nat /\ apps \in [Apps -> Process]
  BY AppIs
<1>3. CASE f.op = "held" /\ p.st = "over"
  <2>1. /\ links' = Ask(Took(l), l, Op("connect"))
        /\ apps' = [apps EXCEPT ![a].st = "asking"] /\ UNCHANGED <<marks, hist>>
    BY <1>3 DEF AppReads, Took
  <2> DEFINE q == [p EXCEPT !.st = "asking"]
  <2>2. apps' = [apps EXCEPT ![a] = q]
    BY <1>2, <2>1
  <2>3. q \in Process /\ q.st = "asking" /\ q.link = l /\ q.maxRow = p.maxRow /\ q.todo = {}
    BY <1>1, <1>2 DEF Process, States
  <2> HIDE DEF q
  <2>4. Sane(q)
    BY <1>1, <2>3 DEF Sane
  <2> QED BY <1>1, <1>2, <1>3, <2>1, <2>2, <2>3, <2>4, AdoptKeeps
<1>4. CASE ~(f.op = "held" /\ p.st = "over")
  <2>1. /\ links' = Took(l)
        /\ \/ (f.op = "held" \/ p.st \notin {"asking", "up"}) /\ UNCHANGED <<apps, marks, hist>>
           \/ OnFrame(a, f)
    BY <1>4 DEF AppReads, Took
  <2>2. CASE OnFrame(a, f)
    BY <1>1, <2>1, <2>2, OnFrameKeeps
  <2>3. CASE (f.op = "held" \/ p.st \notin {"asking", "up"}) /\ UNCHANGED <<apps, marks, hist>>
    <3>1. f.op = "held"
      BY <1>1, <2>3, FrameIs
    <3>2. apps' = [apps EXCEPT ![a] = p]
      BY <1>2, <2>3
    <3>3. marks' \in [Socks -> {0} \union Seqs] /\ hist' \in History
      BY <2>3, AppIs, InTurnIs
    <3>4. /\ Starts(f) => p.st = "up"
          /\ f.op = "dialing" => p.st = "asking"
          /\ f.op \in {"held", "line", "gap", "live"} => p.st = apps[a].st
      BY <3>1 DEF Starts
    <3> QED BY <1>1, <1>2, <2>1, <3>2, <3>3, <3>4, FrameKeeps
  <2> QED BY <2>1, <2>2, <2>3
<1> QED BY <1>3, <1>4

-----------------------------------------------------------------------------
(* The theorems.                                                           *)

LEMMA InitIInv == Init => IInv
<1> SUFFICES ASSUME Init PROVE IInv
  OBVIOUS
<1> USE DEF Init
<1>1. NoLink \in Link /\ NoLink.toApp = <<>> /\ ~NoLink.appEnd /\ ~NoLink.engEnd
  <2>1. <<>> \in Seq(ToApp) /\ <<>> \in Seq(ToEng)
    BY EmptySeq
  <2> QED BY <2>1 DEF NoLink, Link
<1>2. NoApp \in Process /\ NoApp.st = "unborn" /\ NoApp.link = 0 /\ NoApp.maxRow = 0 /\ NoApp.todo = {}
  BY DEF NoApp, Process, States
<1>3. Sane(NoApp)
  BY <1>2 DEF Sane
<1>4. log = <<>> /\ log \in Seq(Row) /\ Len(log) = 0
  BY EmptySeq
<1>5. hist \in History
  BY DEF History
<1>6. UpSound(up) /\ up.sink = 0
  <2> DEFINE z == NoUpstream
  <2>0. 0 \in 0 .. MaxSockets
    BY Bounds
  <2>1. Held(EmptyBuffer)
    BY <2>0, NoneSound
  <2>2. z \in Upstream /\ z.sock = 0
    BY <2>0, <2>1, Bounds DEF NoUpstream, Upstream, Held
  <2> HIDE DEF z
  <2>3. [z EXCEPT !.sock = 0] = z
    BY <2>2 DEF Upstream
  <2> USE DEF z
  <2> QED BY <2>0, <2>3, NoneSound
<1>7. links = [l \in Links |-> NoLink] /\ nLinks = 0 /\ apps = [a \in Apps |-> NoApp]
      /\ marks = [n \in Socks |-> 0]
  OBVIOUS
<1>8. Typed
  BY <1>1, <1>2, <1>4, <1>5, <1>7, Bounds DEF Typed
<1>9. Placed
  BY ONLY <1>1, <1>2, <1>6, <1>7 DEF Placed
<1>10. \A a \in Apps : Sane(apps[a]) /\ apps[a].maxRow <= Len(log)
  BY ONLY <1>2, <1>3, <1>4, <1>7
<1>11. \A l \in Links : InTurn(l)
  BY ONLY <1>1, <1>7 DEF InTurn
<1> QED BY ONLY <1>6, <1>8, <1>9, <1>10, <1>11 DEF IInv

LEMMA StutterKeeps == IInv /\ UNCHANGED vars => IInv'
<1> SUFFICES ASSUME IInv, UNCHANGED vars PROVE IInv'
  OBVIOUS
<1>1. /\ up' = up /\ links' = links /\ nLinks' = nLinks /\ apps' = apps
      /\ marks' = marks /\ log' = log /\ hist' = hist
  BY DEF vars
<1>2. Typed' /\ UpSound(up')
  BY <1>1 DEF IInv, Typed
<1>p. Placed'
  <2>1. Placed
    BY DEF IInv
  <2> QED BY ONLY <1>1, <2>1 DEF Placed
<1>3. \A a \in Apps : (Sane(apps[a]) /\ apps[a].maxRow <= Len(log))'
  BY <1>1 DEF IInv
<1>4. \A l \in Links : InTurn(l)'
  BY <1>1 DEF IInv, InTurn
<1> QED BY <1>2, <1>p, <1>3, <1>4 DEF IInv

LEMMA StepKeeps == IInv /\ [Next]_vars => IInv'
<1> SUFFICES ASSUME IInv, [Next]_vars PROVE IInv'
  OBVIOUS
<1>1. CASE EngineStep
  BY <1>1, OpensKeeps, ServerLineKeeps, SqueezedKeeps, DrainKeeps, SocketDiesKeeps DEF EngineStep
<1>2. ASSUME NEW l \in Links, LinkStep(l) PROVE IInv'
  BY <1>2, ReadsKeeps, SeesEOFKeeps, DropsKeeps DEF LinkStep
<1>3. ASSUME NEW a \in Apps, AppStep(a) PROVE IInv'
  BY <1>3, BootKeeps, RelinkKeeps, RedialKeeps, LinkLostKeeps, CrashKeeps, ShutdownKeeps,
     AppReadsKeeps, StoreRowKeeps, SendAckKeeps DEF AppStep
<1>4. CASE UNCHANGED vars
  BY <1>4, StutterKeeps
<1> QED BY <1>1, <1>2, <1>3, <1>4 DEF Next

\* What is said on every link is said in turn: no process has two CONNECTs
\* under way, a line reaches a process only in a session it was told of, and
\* after `detached' or `closed' the engine says nothing but what it offers
\* (EngineServer.dispatch, EngineUpstream.flush, EngineTransport.onFrame).
THEOREM SaidInTurn == Spec => []IInv
<1>1. Init => IInv
  BY InitIInv
<1>2. IInv /\ [Next]_vars => IInv'
  BY StepKeeps
<1> QED BY <1>1, <1>2, PTL DEF Spec

\* The type invariant: every number the engine hands out, and every mark, is
\* one of the lines there are (EngineUpstream, engineMarks.ts).
THEOREM RelayTypes == Spec => []TypeOK
<1>1. IInv => TypeOK
  <2> SUFFICES ASSUME IInv PROVE TypeOK
    OBVIOUS
  <2>1. /\ up.st \in {"none", "dialing", "open"} /\ up.buf \in BufferType
        /\ up.sink \in {0} \union Links /\ up.sock \in 0 .. MaxSockets
        /\ {up.sent, up.liveAfter} \subseteq {0} \union Seqs
    BY DEF IInv, UpSound, Upstream
  <2>2. \A l \in Links : links[l].owner \in {0} \union Apps
    BY DEF IInv, Typed, Link
  <2>3. \A a \in Apps :
          /\ apps[a].st \in {"unborn", "linkless", "asking", "up", "redial", "over", "gone"}
          /\ apps[a].link \in {0} \union Links
          /\ apps[a].sock \in {0} \union Socks
    BY DEF IInv, Typed, Process, States
  <2>4. nLinks \in 0 .. MaxLinks /\ marks \in [Socks -> {0} \union Seqs] /\ log \in Seq(Row)
    BY DEF IInv, Typed
  <2> QED BY <2>1, <2>2, <2>3, <2>4 DEF TypeOK
<1> QED BY <1>1, SaidInTurn, PTL

=============================================================================
