------------------------- MODULE EngineClaimsProofs -------------------------
(***************************************************************************)
(* One driver per socket, for any processes, links, sockets and settings.  *)
(***************************************************************************)
EXTENDS EngineClaims, FiniteSetTheorems, SequenceTheorems, TLAPS

-----------------------------------------------------------------------------
(* Types.                                                                  *)

Settings == Dests \union {NoDest}

ToApp == [op : {"held", "dialing", "detached", "closed"}]
         \union [op : {"open", "attached"}, sock : Socks]
         \union [op : {"hello"}, held : BOOLEAN]
         \union [op : {"error"}, re : {"close", "write", "detach"}]

\* What a process writes once it is linked.
Asked == [op : {"write", "detach", "close"}] \union [op : {"connect"}, dest : Settings]
ToEng == Asked \union [op : {"hello"}]

Sock == [st : {"unused", "dialing", "open", "closed"}, driven : BOOLEAN, reg : BOOLEAN,
         closing : BOOLEAN, quiet : BOOLEAN, sink : Links \union {0},
         letGo : Links \union {0}, dest : Settings]

Link == [owner : Apps \union {0}, appEnd : BOOLEAN, engEnd : BOOLEAN, authed : BOOLEAN,
         toApp : Seq(ToApp), toEng : Seq(ToEng), claims : SUBSET Socks]

Phases == {"none", "queued", "waiting", "asked", "dialing", "connected", "relink", "backoff"}

Process == [st : {"unborn", "up", "gone"}, link : Links \union {0}, ready : BOOLEAN,
            held : BOOLEAN, pendingClose : BOOLEAN, closedHere : BOOLEAN, ph : Phases,
            sock : Socks \union {0}, dest : Settings]

-----------------------------------------------------------------------------
(* A process's own steps.                                                  *)

\* Only a process with a link waits for frames of its id, or knows a socket.
Sane(p) ==
    /\ p \in Process
    /\ Handles(p) => p.ready
    /\ p.ph = "connected" => p.sock \in Socks

\* A step that only asks, and only once the engine has said hello.
Takable(p, x) ==
    /\ Sane(x.p)
    /\ x.p.st = p.st /\ x.p.link = p.link /\ x.p.ready = p.ready
    /\ x.out \in Seq(Asked)
    /\ x.out # <<>> => p.ready

\* A step that writes nothing.
LEMMA QuietStep ==
    ASSUME NEW p, NEW q, Sane(q), q.st = p.st, q.link = p.link, q.ready = p.ready
    PROVE  Takable(p, Step(q, <<>>))
  BY DEF Takable, Step

\* A step of a ready process that writes one frame.
LEMMA SpokenStep ==
    ASSUME NEW p, NEW q, Sane(q), q.st = p.st, q.link = p.link, q.ready = p.ready,
           p.ready, NEW f \in Asked
    PROVE  Takable(p, Step(q, <<f>>))
<1>1. <<f>> \in Seq(Asked)
  OBVIOUS
<1> QED BY <1>1 DEF Takable, Step

\* EngineTransport.connect.
LEMMA DialTakable ==
    ASSUME NEW p, Sane(p)
    PROVE  Takable(p, Dial(p))
<1>1. CASE p.ready
  <2> DEFINE q == [p EXCEPT !.ph = "asked", !.closedHere = FALSE]
             f == [op |-> "connect", dest |-> p.dest]
  <2>1. Sane(q) /\ q.st = p.st /\ q.link = p.link /\ q.ready = p.ready
    BY <1>1 DEF Sane, Process, Phases, Handles, Asking
  <2>2. f \in Asked
    BY DEF Asked, Sane, Process
  <2>3. Dial(p) = Step(q, <<f>>)
    BY <1>1 DEF Dial
  <2> QED BY <1>1, <2>1, <2>2, <2>3, SpokenStep
<1>2. CASE ~p.ready
  <2> DEFINE q == [p EXCEPT !.ph = "waiting"]
  <2>1. Sane(q) /\ q.st = p.st /\ q.link = p.link /\ q.ready = p.ready
    BY <1>2 DEF Sane, Process, Phases, Handles, Asking
  <2> QED BY <1>2, <2>1, QuietStep DEF Dial
<1> QED BY <1>1, <1>2

\* One step after another.
LEMMA ThenTakable ==
    ASSUME NEW p, NEW x, Takable(p, x), NEW y, Takable(x.p, y)
    PROVE  Takable(p, Step(y.p, x.out \o y.out))
  BY DEF Takable, Step

\* IrcManager.startNetwork.
LEMMA StartTakable ==
    ASSUME NEW p, Sane(p), row \in Dests
    PROVE  Takable(p, Start(p))
<1>1. CASE allowed
  <2> DEFINE q == [p EXCEPT !.dest = row]
  <2>1. /\ Sane(q)
        /\ q.st = p.st /\ q.link = p.link /\ q.ready = p.ready
    BY DEF Sane, Process, Settings, Handles, Asking
  <2>2. Takable(q, Dial(q))
    BY <2>1, DialTakable
  <2>3. Start(p) = Dial(q)
    BY <1>1 DEF Start
  <2> QED BY <2>1, <2>2, <2>3 DEF Takable
<1>2. CASE ~allowed
  BY <1>2, QuietStep DEF Start
<1> QED BY <1>1, <1>2

\* EngineLink.requestClose.
LEMMA RequestCloseTakable ==
    ASSUME NEW p, Sane(p)
    PROVE  Takable(p, RequestClose(p))
<1>1. CASE p.ready
  <2> DEFINE q == [p EXCEPT !.held = FALSE, !.closedHere = TRUE]
  <2>1. Sane(q) /\ q.st = p.st /\ q.link = p.link /\ q.ready = p.ready
    BY DEF Sane, Process, Handles, Asking
  <2>2. Op("close") \in Asked
    BY DEF Asked, Op
  <2>3. RequestClose(p) = Step(q, <<Op("close")>>)
    BY <1>1 DEF RequestClose
  <2> QED BY <1>1, <2>1, <2>2, <2>3, SpokenStep
<1>2. CASE ~p.ready
  <2> DEFINE q == CloseQueued(p)
  <2>1. Sane(q) /\ q.st = p.st /\ q.link = p.link /\ q.ready = p.ready
    BY DEF CloseQueued, Sane, Process, Handles, Asking
  <2> QED BY <1>2, <2>1, QuietStep DEF RequestClose
<1> QED BY <1>1, <1>2

\* EngineTransport.close.
LEMMA QuitTakable ==
    ASSUME NEW p, Sane(p)
    PROVE  Takable(p, Quit(p))
<1> DEFINE q == [p EXCEPT !.ph = "none", !.sock = 0]
<1>1. Sane(q) /\ q.st = p.st /\ q.link = p.link /\ q.ready = p.ready
  BY DEF Sane, Process, Phases, Handles, Asking
<1>2. CASE p.ph = "queued"
  BY <1>1, <1>2, QuietStep DEF Quit
<1>3. CASE p.ph # "queued"
  <2>1. Takable(q, RequestClose(q))
    BY <1>1, RequestCloseTakable
  <2>2. Quit(p) = RequestClose(q)
    BY <1>3 DEF Quit
  <2> QED BY <1>1, <2>1, <2>2 DEF Takable
<1> QED BY <1>2, <1>3

\* IrcManager.reconcileHeld.
LEMMA ReconcileTakable ==
    ASSUME NEW p, Sane(p), row \in Dests
    PROVE  Takable(p, Reconcile(p))
  BY QuietStep, StartTakable, RequestCloseTakable DEF Reconcile

\* Whoever waited for the link goes on.
LEMMA ResumeTakable ==
    ASSUME NEW p, Sane(p)
    PROVE  Takable(p, Resume(p))
<1> DEFINE q == [p EXCEPT !.ph = "backoff"]
<1>1. Sane(q) /\ q.st = p.st /\ q.link = p.link /\ q.ready = p.ready
  BY DEF Sane, Process, Phases, Handles, Asking
<1> QED BY <1>1, QuietStep, DialTakable DEF Resume

\* Queued closes, then what is held, then who waited.
LEMMA FlushedTakable ==
    ASSUME NEW p, Sane(p), row \in Dests
    PROVE  Takable(p, Flushed(p))
<1> DEFINE q == [p EXCEPT !.pendingClose = FALSE]
           x == IF p.pendingClose THEN RequestClose(q) ELSE Step(p, <<>>)
           y == Step(Reconcile(x.p).p, x.out \o Reconcile(x.p).out)
           z == Step(Resume(y.p).p, y.out \o Resume(y.p).out)
<1>1. Takable(p, x)
  <2>1. Sane(q) /\ q.st = p.st /\ q.link = p.link /\ q.ready = p.ready
    BY DEF Sane, Process, Handles, Asking
  <2>2. Takable(q, RequestClose(q))
    BY <2>1, RequestCloseTakable
  <2>3. Takable(p, RequestClose(q))
    BY <2>1, <2>2 DEF Takable
  <2> QED BY <2>3, QuietStep
<1> HIDE DEF q, x
<1>2. Takable(p, y)
  <2>1. Takable(x.p, Reconcile(x.p))
    BY <1>1, ReconcileTakable DEF Takable
  <2> QED BY <1>1, <2>1, ThenTakable
<1> HIDE DEF y
<1>3. Takable(p, z)
  <2>1. Takable(y.p, Resume(y.p))
    BY <1>2, ResumeTakable DEF Takable
  <2> QED BY <1>2, <2>1, ThenTakable
<1>4. Flushed(p) = z
  BY DEF Flushed, Then, x, y, q
<1> QED BY <1>3, <1>4

\* The engine's hello makes a process ready; no other frame changes that.
LEMMA ReadsTakable ==
    ASSUME NEW p, Sane(p), row \in Dests, NEW f \in ToApp
    PROVE  Takable([p EXCEPT !.ready = @ \/ f.op = "hello"], Reads(p, f))
<1> DEFINE r == [p EXCEPT !.ready = @ \/ f.op = "hello"]
<1>0. /\ f.op \in {"hello", "held", "open", "attached", "closed", "detached", "error",
                   "dialing"}
      /\ f.op = "hello" => f.held \in BOOLEAN
      /\ f.op \in {"open", "attached"} => f.sock \in Socks
  BY DEF ToApp
<1>r. /\ r.st = p.st /\ r.link = p.link
      /\ r.ready = (p.ready \/ f.op = "hello")
      /\ f.op # "hello" => r = p
  BY DEF Sane, Process
<1> SUFFICES Takable(r, Reads(p, f))
  OBVIOUS
<1> HIDE DEF r
<1>1. CASE f.op = "hello"
  <2> DEFINE q == [p EXCEPT !.ready = TRUE, !.held = f.held, !.closedHere = FALSE]
  <2>1. /\ Sane(q)
        /\ q.st = r.st /\ q.link = r.link /\ q.ready = r.ready
    BY <1>0, <1>1, <1>r DEF Sane, Process, Handles, Asking
  <2>2. Takable(q, Flushed(q))
    BY <2>1, FlushedTakable
  <2>3. Reads(p, f) = Flushed(q)
    BY <1>1 DEF Reads, OnHello
  <2> QED BY <2>1, <2>2, <2>3 DEF Takable
<1>3. CASE f.op = "held"
  <2> DEFINE q == [p EXCEPT !.held = TRUE]
  <2>1. Sane(q) /\ q.st = p.st /\ q.link = p.link /\ q.ready = p.ready
    BY DEF Sane, Process, Handles, Asking
  <2>2. Takable(q, Reconcile(q))
    BY <2>1, ReconcileTakable
  <2>3. Takable(p, Reconcile(q))
    BY <2>1, <2>2 DEF Takable
  <2>4. Reads(p, f) = OnHeld(p)
    BY <1>3 DEF Reads
  <2> QED BY <1>3, <1>r, <2>3, <2>4, QuietStep DEF OnHeld
<1>4. CASE f.op \in {"open", "attached"}
  <2> DEFINE q == [p EXCEPT !.held = TRUE]
             c == [p EXCEPT !.held = TRUE, !.ph = "connected", !.sock = f.sock]
  <2>1. Sane(q) /\ q.st = p.st /\ q.link = p.link /\ q.ready = p.ready
    BY DEF Sane, Process, Handles, Asking
  <2>2. ASSUME Handles(p)
        PROVE  Sane(c) /\ c.st = p.st /\ c.link = p.link /\ c.ready = p.ready /\ p.ready
    BY <1>0, <1>4, <2>2 DEF Sane, Process, Phases
  <2>3. Reads(p, f) = OnSocket(p, f)
    BY <1>4 DEF Reads
  <2>4. Op("write") \in Asked
    BY DEF Asked, Op
  <2>r. r = p
    BY <1>4, <1>r
  <2>5. CASE Handles(p)
    <3>1. OnSocket(p, f) = Step(c, IF f.op = "open" THEN <<Op("write")>> ELSE <<>>)
      BY <2>5 DEF OnSocket
    <3> HIDE DEF c
    <3>2. Takable(p, Step(c, <<>>)) /\ Takable(p, Step(c, <<Op("write")>>))
      BY <2>2, <2>4, <2>5, QuietStep, SpokenStep
    <3> QED BY <2>3, <2>r, <3>1, <3>2
  <2>6. CASE ~Handles(p)
    <3>1. OnSocket(p, f) = Step(q, <<>>)
      BY <2>6 DEF OnSocket
    <3> HIDE DEF q
    <3> QED BY <2>1, <2>3, <2>r, <3>1, QuietStep
  <2> QED BY <2>5, <2>6
<1>5. CASE f.op \in {"closed", "detached", "error", "dialing"}
  <2>1. ASSUME NEW q \in Process, q.st = p.st, q.link = p.link, q.ready = p.ready,
               q.sock = p.sock \/ q.ph \in {"backoff", "none"},
               \/ q.ph \in {p.ph, "backoff", "none"}
               \/ (p.ph = "asked" /\ q.ph = "dialing")
        PROVE  Takable(p, Step(q, <<>>))
    <3>1. Sane(q)
      BY <2>1 DEF Sane, Handles, Asking
    <3> QED BY <2>1, <3>1, QuietStep
  <2> DEFINE h == [p EXCEPT !.held = FALSE]
             b == [p EXCEPT !.held = FALSE, !.ph = "backoff", !.sock = 0]
             n == [p EXCEPT !.held = FALSE, !.ph = "none", !.sock = 0]
             e == [p EXCEPT !.ph = "backoff"]
             d == [p EXCEPT !.ph = "dialing"]
  <2>2. p \in Process
    BY DEF Sane
  <2>3. /\ Takable(p, Step(p, <<>>)) /\ Takable(p, Step(h, <<>>))
        /\ Takable(p, Step(b, <<>>)) /\ Takable(p, Step(n, <<>>))
        /\ Takable(p, Step(e, <<>>))
        /\ p.ph = "asked" => Takable(p, Step(d, <<>>))
    BY <2>1, <2>2 DEF Process, Phases
  <2>4. \/ Reads(p, f) \in {Step(p, <<>>), Step(h, <<>>), Step(b, <<>>), Step(n, <<>>),
                            Step(e, <<>>)}
        \/ (p.ph = "asked" /\ Reads(p, f) = Step(d, <<>>))
    <3>1. CASE f.op = "closed"
      BY <3>1 DEF Reads
    <3>2. CASE f.op = "detached"
      BY <3>2 DEF Reads
    <3>3. CASE f.op = "error"
      BY <3>3 DEF Reads
    <3>4. CASE f.op = "dialing"
      BY <3>4 DEF Reads
    <3> QED BY <1>5, <3>1, <3>2, <3>3, <3>4
  <2> HIDE DEF h, b, n, e, d
  <2>5. r = p
    BY <1>5, <1>r
  <2> QED BY <2>3, <2>4, <2>5
<1> QED BY <1>0, <1>1, <1>3, <1>4, <1>5

-----------------------------------------------------------------------------
(* The engine's state, and what its operations keep of it.                 *)

Eng == [cur : 0 .. Full, socks : [Socks -> Sock], links : [Links -> Link]]

\* The links' own part: nothing is said or given to a link before its hello.
Linkage(e) ==
    \A l \in Links :
        /\ e.links[l].engEnd => e.links[l].owner # 0
        /\ e.links[l].claims # {} => e.links[l].engEnd /\ e.links[l].authed
        /\ e.links[l].toApp # <<>> /\ e.links[l].engEnd => e.links[l].authed

Life(e) ==
    /\ e.cur \in Socks => e.socks[e.cur].st \in {"dialing", "open"}
    /\ \A s \in Socks :
          /\ e.socks[s].st = "unused" => e.socks[s] = NoSock
          /\ e.socks[s].reg => e.socks[s].driven /\ e.socks[s].st = "open"

OneClaim(e, s) == \A l \in Links : s \in e.links[l].claims <=> e.socks[s].sink = l

Sound(e) == Linkage(e) /\ Life(e) /\ \A s \in Socks : OneClaim(e, s)

\* A link's side of a step that gives, takes and reports claims on s only.
LinkKept(e, f, s, l) ==
    /\ f.links[l].owner = e.links[l].owner
    /\ f.links[l].appEnd = e.links[l].appEnd
    /\ f.links[l].engEnd = e.links[l].engEnd
    /\ f.links[l].authed = e.links[l].authed
    /\ f.links[l].toEng = e.links[l].toEng
    /\ f.links[l].toApp # e.links[l].toApp => e.links[l].authed
    /\ f.links[l].claims \ {s} = e.links[l].claims \ {s}

\* Such a step, on a socket that lives.
Moves(e, f, s) ==
    /\ f \in Eng /\ f.cur = e.cur
    /\ \A l \in Links : LinkKept(e, f, s, l)
    /\ \A x \in Socks \ {s} : f.socks[x] = e.socks[x]
    /\ f.socks[s].st = e.socks[s].st /\ (e.socks[s].driven => f.socks[s].driven)
    /\ f.socks[s].reg = e.socks[s].reg /\ f.socks[s].dest = e.socks[s].dest

\* Nobody but l claims s.
Free(e, s, l) == \A k \in Links \ {l} : s \notin e.links[k].claims

\* Other links, the same sockets.
LEMMA EngLinks ==
    ASSUME NEW e \in Eng, NEW L \in [Links -> Link]
    PROVE  /\ [e EXCEPT !.links = L] \in Eng
           /\ [e EXCEPT !.links = L].cur = e.cur
           /\ [e EXCEPT !.links = L].socks = e.socks
           /\ [e EXCEPT !.links = L].links = L
  BY DEF Eng

\* Other sockets, the same links.
LEMMA EngSocks ==
    ASSUME NEW e \in Eng, NEW S \in [Socks -> Sock]
    PROVE  /\ [e EXCEPT !.socks = S] \in Eng
           /\ [e EXCEPT !.socks = S].cur = e.cur
           /\ [e EXCEPT !.socks = S].links = e.links
           /\ [e EXCEPT !.socks = S].socks = S
  BY DEF Eng

\* Moves on one socket add up.
LEMMA MovesOn ==
    ASSUME NEW e, NEW f, NEW g, NEW s \in Socks, Moves(e, f, s), Moves(f, g, s)
    PROVE  Moves(e, g, s)
<1>1. ASSUME NEW l \in Links PROVE LinkKept(e, g, s, l)
  BY DEF Moves, LinkKept
<1> QED BY <1>1 DEF Moves

\* A move that leaves its socket claimed by its sink keeps the engine sound.
LEMMA MovesSound ==
    ASSUME NEW e \in Eng, NEW f, NEW s \in Socks, Moves(e, f, s), Sound(e),
           e.socks[s].st # "unused", OneClaim(f, s),
           \A l \in Links : s \in f.links[l].claims => f.links[l].engEnd /\ f.links[l].authed
    PROVE  Sound(f)
<1>1. Linkage(f)
  <2> SUFFICES ASSUME NEW l \in Links
               PROVE  /\ f.links[l].engEnd => f.links[l].owner # 0
                      /\ f.links[l].claims # {} => f.links[l].engEnd /\ f.links[l].authed
                      /\ f.links[l].toApp # <<>> /\ f.links[l].engEnd => f.links[l].authed
    BY DEF Linkage
  <2>1. LinkKept(e, f, s, l)
    BY DEF Moves
  <2> QED BY <2>1 DEF LinkKept, Sound, Linkage
<1>2. Life(f)
  BY DEF Life, Moves, Sound
<1>3. ASSUME NEW x \in Socks \ {s} PROVE OneClaim(f, x)
  <2> SUFFICES ASSUME NEW l \in Links PROVE x \in f.links[l].claims <=> f.socks[x].sink = l
    BY DEF OneClaim
  <2>1. LinkKept(e, f, s, l) /\ f.socks[x] = e.socks[x]
    BY DEF Moves
  <2>2. x \in f.links[l].claims <=> x \in e.links[l].claims
    BY <2>1 DEF LinkKept
  <2> QED BY <2>1, <2>2 DEF Sound, OneClaim
<1> QED BY <1>1, <1>2, <1>3 DEF Sound

\* AppLink.send claims nothing.
LEMMA SentMoves ==
    ASSUME NEW e \in Eng, NEW l \in Links \union {0}, NEW m \in ToApp, NEW s \in Socks,
           l \in Links /\ e.links[l].engEnd => e.links[l].authed
    PROVE  /\ Moves(e, Sent(e, l, m), s)
           /\ Sent(e, l, m).socks = e.socks
           /\ \A k \in Links : Sent(e, l, m).links[k].claims = e.links[k].claims
<1>1. CASE l # 0 /\ e.links[l].engEnd /\ e.links[l].appEnd
  <2> DEFINE f == [e EXCEPT !.links[l].toApp = Append(@, m)]
  <2>1. l \in Links /\ e.links[l] \in Link
    BY <1>1 DEF Eng
  <2>2. Append(e.links[l].toApp, m) \in Seq(ToApp)
    BY <2>1 DEF Link
  <2>3. [e.links[l] EXCEPT !.toApp = Append(@, m)] \in Link
    BY <2>1, <2>2 DEF Link
  <2> DEFINE L == [e.links EXCEPT ![l] = [e.links[l] EXCEPT !.toApp = Append(@, m)]]
  <2>4. f = [e EXCEPT !.links = L]
    BY <2>1 DEF Eng
  <2>5. f \in Eng /\ f.cur = e.cur /\ f.socks = e.socks /\ f.links = L
    <3>1. L \in [Links -> Link]
      BY <2>1, <2>3 DEF Eng
    <3> HIDE DEF f, L
    <3> QED BY <2>4, <3>1, EngLinks
  <2>6. ASSUME NEW k \in Links
        PROVE  LinkKept(e, f, s, k) /\ f.links[k].claims = e.links[k].claims
    <3>1. CASE k = l
      <4>1. f.links[k] = [e.links[l] EXCEPT !.toApp = Append(@, m)]
        BY <2>1, <2>5, <3>1 DEF Eng
      <4> HIDE DEF f
      <4> QED BY <1>1, <2>1, <3>1, <4>1 DEF LinkKept, Link
    <3>2. CASE k # l
      <4>1. f.links[k] = e.links[k]
        BY <2>1, <2>5, <3>2 DEF Eng
      <4> HIDE DEF f
      <4> QED BY <4>1 DEF LinkKept
    <3> QED BY <3>1, <3>2
  <2>7. Sent(e, l, m) = f
    BY <1>1 DEF Sent
  <2> HIDE DEF f
  <2> QED BY <2>5, <2>6, <2>7 DEF Moves
<1>2. CASE ~(l # 0 /\ e.links[l].engEnd /\ e.links[l].appEnd)
  <2>1. Sent(e, l, m) = e
    BY <1>2 DEF Sent
  <2> QED BY <2>1 DEF Moves, LinkKept
<1> QED BY <1>1, <1>2
\* An operation on socket s alone.
LEMMA SockMoves ==
    ASSUME NEW e \in Eng, NEW s \in Socks, NEW u \in Sock,
           u.st = e.socks[s].st, e.socks[s].driven => u.driven, u.reg = e.socks[s].reg,
           u.dest = e.socks[s].dest
    PROVE  LET f == [e EXCEPT !.socks = [e.socks EXCEPT ![s] = u]]
           IN  Moves(e, f, s) /\ f.socks[s] = u /\ f.links = e.links
<1> DEFINE S == [e.socks EXCEPT ![s] = u]
           f == [e EXCEPT !.socks = S]
<1>1. S \in [Socks -> Sock] /\ S[s] = u /\ \A x \in Socks \ {s} : S[x] = e.socks[x]
  BY DEF Eng
<1> HIDE DEF S
<1>2. f \in Eng /\ f.cur = e.cur /\ f.links = e.links /\ f.socks = S
  BY <1>1, EngSocks
<1> HIDE DEF f
<1>3. Moves(e, f, s) /\ f.socks[s] = u
  BY <1>1, <1>2 DEF Moves, LinkKept
<1> QED BY <1>2, <1>3 DEF f, S

\* EngineUpstream.silence.
LEMMA SilencedMoves ==
    ASSUME NEW e \in Eng, NEW s \in Socks
    PROVE  /\ Moves(e, Silenced(e, s), s)
           /\ Silenced(e, s).socks[s].sink = 0
           /\ Silenced(e, s).links = e.links
<1> DEFINE u == [e.socks[s] EXCEPT !.sink = 0, !.quiet = TRUE]
<1>1. /\ u \in Sock /\ u.sink = 0
      /\ u.st = e.socks[s].st /\ u.driven = e.socks[s].driven /\ u.reg = e.socks[s].reg
      /\ u.dest = e.socks[s].dest
  <2>1. e.socks[s] \in Sock
    BY DEF Eng
  <2> QED BY <2>1 DEF Sock
<1>2. Silenced(e, s) = [e EXCEPT !.socks = [e.socks EXCEPT ![s] = u]]
  BY DEF Silenced, Eng
<1> HIDE DEF u
<1> QED BY <1>1, <1>2, SockMoves

\* EngineUpstream.close.
LEMMA ClosingMoves ==
    ASSUME NEW e \in Eng, NEW s \in Socks
    PROVE  /\ Moves(e, Closing(e, s), s)
           /\ Closing(e, s).socks[s].sink = e.socks[s].sink
           /\ Closing(e, s).links = e.links
<1> DEFINE u == [e.socks[s] EXCEPT !.closing = TRUE, !.quiet = TRUE]
<1>1. /\ u \in Sock /\ u.sink = e.socks[s].sink
      /\ u.st = e.socks[s].st /\ u.driven = e.socks[s].driven /\ u.reg = e.socks[s].reg
      /\ u.dest = e.socks[s].dest
  <2>1. e.socks[s] \in Sock
    BY DEF Eng
  <2> QED BY <2>1 DEF Sock
<1>2. Closing(e, s) = [e EXCEPT !.socks = [e.socks EXCEPT ![s] = u]]
  BY DEF Closing, Eng
<1> HIDE DEF u
<1> QED BY <1>1, <1>2, SockMoves

\* An operation on the links alone.
LEMMA LinksMove ==
    ASSUME NEW e \in Eng, NEW s \in Socks, NEW L \in [Links -> Link],
           \A l \in Links : LinkKept(e, [links |-> L], s, l)
    PROVE  LET f == [e EXCEPT !.links = L]
           IN  Moves(e, f, s) /\ f.socks = e.socks /\ f.links = L
<1> DEFINE f == [e EXCEPT !.links = L]
<1>1. f \in Eng /\ f.cur = e.cur /\ f.links = L /\ f.socks = e.socks
  BY EngLinks
<1>2. [links |-> L].links = L
  OBVIOUS
<1> HIDE DEF f
<1>3. \A l \in Links : LinkKept(e, f, s, l)
  BY <1>1, <1>2 DEF LinkKept
<1> QED BY <1>1, <1>3 DEF Moves, f

\* Every claim on the socket goes.
LEMMA UnclaimedMoves ==
    ASSUME NEW e \in Eng, NEW s \in Socks
    PROVE  /\ Moves(e, Unclaimed(e, s), s)
           /\ Unclaimed(e, s).socks = e.socks
           /\ \A l \in Links : Unclaimed(e, s).links[l].claims = e.links[l].claims \ {s}
<1> DEFINE L == [l \in Links |-> [e.links[l] EXCEPT !.claims = @ \ {s}]]
<1>1. ASSUME NEW l \in Links
      PROVE  /\ L[l] \in Link /\ L[l].claims = e.links[l].claims \ {s}
             /\ LinkKept(e, [links |-> L], s, l)
  <2>1. e.links[l] \in Link
    BY DEF Eng
  <2> QED BY <2>1 DEF Link, LinkKept
<1>2. L \in [Links -> Link]
  BY <1>1
<1>3. Unclaimed(e, s) = [e EXCEPT !.links = L]
  BY DEF Unclaimed
<1> HIDE DEF L
<1> QED BY <1>1, <1>2, <1>3, LinksMove

\* EngineServer.offer claims nothing.
LEMMA OfferedMoves ==
    ASSUME NEW e \in Eng, NEW s \in Socks, NEW x \in Socks, NEW except
    PROVE  /\ Moves(e, Offered(e, x, except), s)
           /\ Offered(e, x, except).socks = e.socks
           /\ \A l \in Links : Offered(e, x, except).links[l].claims = e.links[l].claims
<1> DEFINE hears(l) == l # except /\ e.links[l].authed /\ e.links[l].engEnd /\ e.links[l].appEnd
           L == [l \in Links |->
                   IF hears(l) THEN [e.links[l] EXCEPT !.toApp = Append(@, Op("held"))]
                   ELSE e.links[l]]
<1>0. Op("held") \in ToApp
  BY DEF ToApp, Op
<1>1. ASSUME NEW l \in Links
      PROVE  /\ L[l] \in Link /\ L[l].claims = e.links[l].claims
             /\ LinkKept(e, [links |-> L], s, l)
  <2>1. e.links[l] \in Link
    BY DEF Eng
  <2>2. Append(e.links[l].toApp, Op("held")) \in Seq(ToApp)
    BY <1>0, <2>1 DEF Link
  <2>3. CASE hears(l)
    BY <2>1, <2>2, <2>3 DEF Link, LinkKept
  <2>4. CASE ~hears(l)
    BY <2>1, <2>4 DEF LinkKept
  <2> QED BY <2>3, <2>4
<1>2. L \in [Links -> Link]
  BY <1>1
<1>3. Offered(e, x, except) \in {e, [e EXCEPT !.links = L]}
  BY DEF Offered
<1>4. Moves(e, e, s)
  BY DEF Moves, LinkKept
<1> HIDE DEF L
<1>5. CASE Offered(e, x, except) = [e EXCEPT !.links = L]
  BY <1>1, <1>2, <1>5, LinksMove
<1> QED BY <1>3, <1>4, <1>5
\* What is merely said leaves every claim as it was.
LEMMA SaidSound ==
    ASSUME NEW e \in Eng, NEW f, NEW s \in Socks, Moves(e, f, s), Sound(e),
           f.socks = e.socks, \A k \in Links : f.links[k].claims = e.links[k].claims
    PROVE  Sound(f)
<1>1. Linkage(f)
  <2> SUFFICES ASSUME NEW l \in Links
               PROVE  /\ f.links[l].engEnd => f.links[l].owner # 0
                      /\ f.links[l].claims # {} => f.links[l].engEnd /\ f.links[l].authed
                      /\ f.links[l].toApp # <<>> /\ f.links[l].engEnd => f.links[l].authed
    BY DEF Linkage
  <2>1. LinkKept(e, f, s, l)
    BY DEF Moves
  <2> QED BY <2>1 DEF LinkKept, Sound, Linkage
<1>2. Life(f) /\ \A x \in Socks : OneClaim(f, x)
  BY DEF Life, OneClaim, Moves, Sound
<1> QED BY <1>1, <1>2 DEF Sound

\* One link more claims the socket.
LEMMA ClaimedMoves ==
    ASSUME NEW e \in Eng, NEW l \in Links, NEW s \in Socks
    PROVE  /\ Moves(e, Claimed(e, l, s), s)
           /\ Claimed(e, l, s).socks[s].sink = l
           /\ Claimed(e, l, s).links[l].claims = e.links[l].claims \union {s}
           /\ \A k \in Links \ {l} : Claimed(e, l, s).links[k].claims = e.links[k].claims
<1> DEFINE k == [e.links[l] EXCEPT !.claims = @ \union {s}]
           L == [e.links EXCEPT ![l] = k]
           u == [e.socks[s] EXCEPT !.sink = l]
           S == [e.socks EXCEPT ![s] = u]
           g == [e EXCEPT !.links = L]
<1>1. e.links[l] \in Link /\ e.socks[s] \in Sock
  BY DEF Eng
<1>2. k \in Link /\ k.claims = e.links[l].claims \union {s}
  BY <1>1 DEF Link
<1>3. u \in Sock /\ u.sink = l /\ u.st = e.socks[s].st /\ u.driven = e.socks[s].driven
      /\ u.reg = e.socks[s].reg /\ u.dest = e.socks[s].dest
  BY <1>1 DEF Sock
<1>4. Claimed(e, l, s) = [g EXCEPT !.socks = S]
  BY DEF Claimed, Eng
<1>5. L \in [Links -> Link] /\ L[l] = k /\ \A j \in Links \ {l} : L[j] = e.links[j]
  <2> HIDE DEF k
  <2> QED BY <1>2 DEF Eng
<1>6. \A j \in Links : LinkKept(e, [links |-> L], s, j)
  <2>1. LinkKept(e, [links |-> L], s, l)
    BY <1>1, <1>5 DEF LinkKept, Link
  <2> HIDE DEF L, k
  <2> QED BY <1>5, <2>1 DEF LinkKept
<1> HIDE DEF L, k, u
<1>7. Moves(e, g, s) /\ g.socks = e.socks /\ g.links = L
  BY <1>5, <1>6, LinksMove
<1>8. g \in Eng /\ S = [g.socks EXCEPT ![s] = u]
  BY <1>7 DEF Moves
<1> HIDE DEF g, S
<1>9. /\ Moves(g, [g EXCEPT !.socks = S], s)
      /\ [g EXCEPT !.socks = S].socks[s] = u
      /\ [g EXCEPT !.socks = S].links = g.links
  BY <1>3, <1>7, <1>8, SockMoves
<1> QED BY <1>2, <1>3, <1>4, <1>5, <1>7, <1>9, MovesOn

\* A claim is given where nobody else has one.
LEMMA ClaimedSound ==
    ASSUME NEW e \in Eng, NEW f \in Eng, NEW l \in Links, NEW s \in Socks, Sound(e),
           Moves(e, f, s), e.socks[s].st # "unused", Free(f, s, l),
           e.links[l].engEnd, e.links[l].authed
    PROVE  Sound(Claimed(f, l, s)) /\ Moves(e, Claimed(f, l, s), s)
<1> DEFINE g == Claimed(f, l, s)
<1>1. Moves(f, g, s) /\ g.socks[s].sink = l /\ s \in g.links[l].claims
  BY ClaimedMoves
<1>2. \A k \in Links \ {l} : s \notin g.links[k].claims
  BY ClaimedMoves DEF Free
<1> HIDE DEF g
<1>3. Moves(e, g, s)
  BY <1>1, MovesOn
<1>4. OneClaim(g, s)
  BY <1>1, <1>2 DEF OneClaim
<1>5. \A k \in Links : s \in g.links[k].claims => g.links[k].engEnd /\ g.links[k].authed
  BY <1>2, <1>3 DEF Moves, LinkKept
<1>6. Sound(g)
  BY <1>3, <1>4, <1>5, MovesSound
<1> QED BY <1>3, <1>6 DEF g

\* A socket whose claims and voice are gone.
LEMMA BareSound ==
    ASSUME NEW e \in Eng, NEW f \in Eng, NEW s \in Socks, Sound(e), Moves(e, f, s),
           e.socks[s].st # "unused",
           f.socks[s].sink = 0, \A k \in Links : s \notin f.links[k].claims
    PROVE  Sound(f)
<1>1. \A k \in Links : k # 0
  BY ClaimConstants DEF Links
<1>2. OneClaim(f, s)
  BY <1>1 DEF OneClaim
<1> QED BY <1>2, MovesSound

\* A socket in the way of a fresh dial: nobody claims it, and it reports to nobody.
LEMMA CastOffSound ==
    ASSUME NEW e \in Eng, NEW f \in Eng, NEW s \in Socks, Sound(e), Moves(e, f, s),
           e.socks[s].st # "unused"
    PROVE  /\ Sound(CastOff(f, s)) /\ Moves(e, CastOff(f, s), s)
           /\ Sound(Closing(CastOff(f, s), s)) /\ Moves(e, Closing(CastOff(f, s), s), s)
<1> DEFINE g == Unclaimed(f, s)
           h == Silenced(g, s)
           c == Closing(h, s)
<1>1. Moves(f, g, s) /\ \A k \in Links : s \notin g.links[k].claims
  BY UnclaimedMoves
<1>2. g \in Eng
  BY <1>1 DEF Moves
<1> HIDE DEF g
<1>3. Moves(g, h, s) /\ h.socks[s].sink = 0 /\ h.links = g.links
  BY <1>2, SilencedMoves
<1>4. h \in Eng
  BY <1>3 DEF Moves
<1> HIDE DEF h
<1>5. Moves(h, c, s) /\ c.socks[s].sink = 0 /\ c.links = g.links
  BY <1>3, <1>4, ClosingMoves
<1>6. c \in Eng
  BY <1>5 DEF Moves
<1> HIDE DEF c
<1>7. Moves(e, h, s) /\ Moves(e, c, s)
  BY <1>1, <1>3, <1>5, MovesOn
<1>8. Sound(h) /\ Sound(c)
  BY <1>1, <1>3, <1>4, <1>5, <1>6, <1>7, BareSound
<1> QED BY <1>7, <1>8 DEF g, h, c, CastOff
\* Whoever else has the claim is told, and has it no more.
LEMMA SupersededMoves ==
    ASSUME NEW e \in Eng, NEW l \in Links, NEW s \in Socks, Sound(e)
    PROVE  /\ Moves(e, Superseded(e, l, s), s) /\ Free(Superseded(e, l, s), s, l)
           /\ Superseded(e, l, s).links[l].claims = e.links[l].claims
<1>1. ASSUME NEW j \in Links \ {l}, s \in e.links[j].claims
      PROVE  j \in Holders(e, s, l) /\ e.socks[s].sink = j /\ e.links[j].authed
  BY <1>1 DEF Sound, Linkage, OneClaim, Holders
<1>2. CASE Holders(e, s, l) = {}
  <2>1. Superseded(e, l, s) = e
    BY <1>2 DEF Superseded
  <2> QED BY <1>1, <1>2, <2>1 DEF Moves, LinkKept, Free
<1>3. CASE Holders(e, s, l) # {}
  <2> DEFINE k == CHOOSE k \in Holders(e, s, l) : TRUE
             L == [e.links EXCEPT ![k] = [e.links[k] EXCEPT !.claims = @ \ {s}]]
             t == [e EXCEPT !.links = L]
             m == Op("detached")
  <2>1. k \in Holders(e, s, l)
    BY <1>3
  <2>2. k \in Links \ {l} /\ s \in e.links[k].claims
    BY <2>1 DEF Holders
  <2>3. Superseded(e, l, s) = Sent(t, k, m)
    <3>1. [e EXCEPT !.links[k].claims = @ \ {s}] = t
      BY <2>2 DEF Eng
    <3> QED BY <1>3, <3>1 DEF Superseded
  <2> HIDE DEF k
  <2>4. e.links[k] \in Link
    BY <2>2 DEF Eng
  <2>5. /\ L \in [Links -> Link] /\ L[k].claims = e.links[k].claims \ {s}
        /\ \A j \in Links : LinkKept(e, [links |-> L], s, j)
        /\ \A j \in Links \ {k} : L[j] = e.links[j]
        /\ L[k].authed = e.links[k].authed
    BY <2>2, <2>4 DEF LinkKept, Link, Eng
  <2> HIDE DEF L
  <2>6. Moves(e, t, s) /\ t.links = L
    BY <2>5, LinksMove
  <2>7. t \in Eng
    BY <2>6 DEF Moves
  <2> HIDE DEF t
  <2>8. m \in ToApp
    BY DEF ToApp, Op
  <2>9. t.links[k].authed
    BY <1>1, <2>2, <2>5, <2>6
  <2>10. /\ Moves(t, Sent(t, k, m), s)
         /\ \A j \in Links : Sent(t, k, m).links[j].claims = t.links[j].claims
    BY <2>2, <2>7, <2>8, <2>9, SentMoves
  <2>11. Moves(e, Sent(t, k, m), s)
    BY <2>6, <2>10, MovesOn
  <2>12. Free(Sent(t, k, m), s, l)
    BY <1>1, <2>2, <2>5, <2>6, <2>10 DEF Free
  <2>13. Sent(t, k, m).links[l].claims = e.links[l].claims
    BY <2>2, <2>5, <2>6, <2>10
  <2> QED BY <2>3, <2>11, <2>12, <2>13
<1> QED BY <1>2, <1>3

\* The sockets in use are the first n.
FirstUsed(e, n) == \A s \in Socks : e.socks[s].st # "unused" <=> s <= n

LinkSame(e, f, l) ==
    /\ f.links[l].owner = e.links[l].owner /\ f.links[l].appEnd = e.links[l].appEnd
    /\ f.links[l].engEnd = e.links[l].engEnd /\ f.links[l].toEng = e.links[l].toEng
    /\ e.links[l].authed => f.links[l].authed

\* The tail of connect gives the link a socket of its own.
LEMMA FreshSound ==
    ASSUME NEW e \in Eng, Sound(e), Used \in 0 .. MaxSocks, FirstUsed(e, Used),
           NEW l \in Links, NEW d \in Settings, e.links[l].engEnd, e.links[l].authed
    PROVE  LET f == Fresh(e, l, d)
           IN  /\ f \in Eng
               /\ f.cur = Full \/ (Sound(f) /\ FirstUsed(f, Used + 1) /\ Used + 1 <= MaxSocks)
               /\ \A k \in Links : /\ LinkSame(e, f, k)
                                   /\ e.links[k].claims \subseteq f.links[k].claims
<1> DEFINE n == Used + 1
           u == [NoSock EXCEPT !.st = "dialing", !.dest = d]
           S == [e.socks EXCEPT ![n] = u]
           g == [e EXCEPT !.cur = n, !.socks[n] = u]
           h == Claimed(g, l, n)
           f == Sent(h, l, Op("dialing"))
<1>1. n \in 1 .. Full
  BY ClaimConstants DEF Full
<1>2. CASE n = Full
  <2>1. Fresh(e, l, d) = [e EXCEPT !.cur = Full]
    BY <1>2 DEF Fresh
  <2> QED BY <1>1, <1>2, <2>1 DEF Eng, LinkSame
<1>3. CASE n # Full
  <2>1. n \in Socks
    BY <1>1, <1>3, ClaimConstants DEF Full, Socks
  <2>2. /\ u \in Sock /\ u.st = "dialing" /\ u.reg = FALSE /\ u.sink = 0
    BY DEF NoSock, Sock, Settings
  <2>3. /\ g \in Eng /\ g.cur = n /\ g.links = e.links /\ g.socks[n] = u
        /\ \A x \in Socks \ {n} : g.socks[x] = e.socks[x]
    <3>1. S \in [Socks -> Sock] /\ S[n] = u /\ \A x \in Socks \ {n} : S[x] = e.socks[x]
      BY <2>1, <2>2 DEF Eng
    <3>2. g = [[e EXCEPT !.cur = n] EXCEPT !.socks = S]
      BY DEF Eng
    <3> HIDE DEF g, S, n
    <3>3. /\ [e EXCEPT !.cur = n] \in Eng /\ [e EXCEPT !.cur = n].links = e.links
          /\ [e EXCEPT !.cur = n].cur = n
      BY <1>1 DEF Eng
    <3> QED BY <3>1, <3>2, <3>3, EngSocks
  <2>4. \A k \in Links : n \notin e.links[k].claims
    <3>1. e.socks[n].st = "unused"
      BY <2>1 DEF FirstUsed
    <3>2. e.socks[n].sink = 0 /\ OneClaim(e, n)
      BY <2>1, <3>1 DEF Sound, Life, NoSock
    <3> QED BY <3>2, ClaimConstants DEF OneClaim, Links
  <2>5. FirstUsed(g, n)
    <3> HIDE DEF u, g
    <3> QED BY <2>1, <2>2, <2>3 DEF FirstUsed, Socks
  <2> HIDE DEF u, g, n
  <2>6. Sound(g)
    <3>1. Linkage(g)
      BY <2>3 DEF Linkage, Sound
    <3>2. Life(g)
      BY <2>1, <2>2, <2>3 DEF Life, Sound
    <3>3. OneClaim(g, n)
      BY <2>2, <2>3, <2>4, ClaimConstants DEF OneClaim, Links
    <3>4. \A x \in Socks \ {n} : OneClaim(g, x)
      BY <2>3 DEF OneClaim, Sound
    <3> QED BY <3>1, <3>2, <3>3, <3>4 DEF Sound
  <2>7. Sound(h) /\ Moves(g, h, n)
    <3>1. Moves(g, g, n)
      BY <2>3 DEF Moves, LinkKept
    <3>2. Free(g, n, l)
      BY <2>3, <2>4 DEF Free
    <3> QED BY <2>1, <2>2, <2>3, <2>6, <3>1, <3>2, ClaimedSound
  <2>8. \A k \in Links : g.links[k].claims \subseteq h.links[k].claims
    BY <2>1, <2>3, ClaimedMoves
  <2> HIDE DEF h
  <2>9. /\ Moves(h, f, n) /\ f.socks = h.socks
        /\ \A k \in Links : f.links[k].claims = h.links[k].claims
    <3>1. h \in Eng /\ LinkKept(g, h, n, l)
      BY <2>7 DEF Moves
    <3>2. Op("dialing") \in ToApp /\ h.links[l].authed
      BY <2>3, <3>1 DEF ToApp, Op, LinkKept
    <3> QED BY <2>1, <3>1, <3>2, SentMoves
  <2>10. h \in Eng /\ f \in Eng /\ f.cur # Full
    BY <1>3, <2>3, <2>7, <2>9 DEF Moves, n
  <2> HIDE DEF f
  <2>11. Sound(f)
    BY <2>1, <2>7, <2>9, <2>10, SaidSound
  <2>12. FirstUsed(f, n)
    BY <2>5, <2>7, <2>9 DEF FirstUsed, Moves
  <2>13. ASSUME NEW k \in Links
         PROVE  LinkSame(e, f, k) /\ e.links[k].claims \subseteq f.links[k].claims
    BY <2>3, <2>7, <2>8, <2>9 DEF Moves, LinkKept, LinkSame
  <2>14. Fresh(e, l, d) = f
    BY <1>3 DEF Fresh, f, h, g, u, n
  <2>15. Used + 1 <= MaxSocks
    BY <1>1, <1>3, ClaimConstants DEF Full, n
  <2> QED BY <2>10, <2>11, <2>12, <2>13, <2>14, <2>15 DEF n
<1> QED BY <1>2, <1>3
\* A claim on the socket under the id goes only by right.
Rightful(e, f, l, m) ==
    \A k \in Links, s \in Socks :
        s \in e.links[k].claims /\ s \notin f.links[k].claims =>
            /\ s = e.cur
            /\ \/ e.links[k].owner <= e.links[l].owner
               \/ e.socks[s].closing
               \/ (m.op = "connect" /\ m.dest # e.socks[s].dest)

\* What the engine's answer to a frame m of link l keeps.
Answered(e, f, l, m) ==
    /\ f \in Eng
    /\ \/ f.cur = Full
       \/ Sound(f) /\ \E n \in 0 .. MaxSocks : FirstUsed(f, n)
    /\ \A k \in Links : LinkSame(e, f, k)
    /\ Rightful(e, f, l, m)

\* Rightful moves on the socket under the id are an answer.
LEMMA MovesAnswer ==
    ASSUME NEW e \in Eng, NEW f, NEW s \in Socks, NEW l, NEW m, Moves(e, f, s), Sound(f),
           Used \in 0 .. MaxSocks, FirstUsed(e, Used), s = e.cur,
           \A k \in Links : s \in e.links[k].claims /\ s \notin f.links[k].claims =>
               \/ e.links[k].owner <= e.links[l].owner
               \/ e.socks[s].closing
               \/ (m.op = "connect" /\ m.dest # e.socks[s].dest)
    PROVE  Answered(e, f, l, m)
<1>1. FirstUsed(f, Used)
  BY DEF Moves, FirstUsed
<1>2. \A k \in Links : LinkSame(e, f, k)
  BY DEF Moves, LinkKept, LinkSame
<1>3. ASSUME NEW k \in Links, NEW x \in Socks, x \in e.links[k].claims,
             x \notin f.links[k].claims
      PROVE  x = s
  BY <1>3 DEF Moves, LinkKept
<1>4. Rightful(e, f, l, m)
  BY <1>3 DEF Rightful
<1> QED BY <1>1, <1>2, <1>4 DEF Answered, Moves

\* A dial behind a cast-off socket.
LEMMA FreshAnswer ==
    ASSUME NEW e \in Eng, Sound(e), Used \in 0 .. MaxSocks, FirstUsed(e, Used),
           NEW l \in Links, NEW m, m.op = "connect", m.dest \in Settings,
           e.links[l].engEnd, e.links[l].authed,
           NEW s \in Socks, s = e.cur, NEW g \in Eng, Sound(g), Moves(e, g, s),
           \A k \in Links : s \in e.links[k].claims =>
               \/ e.links[k].owner <= e.links[l].owner
               \/ e.socks[s].closing
               \/ m.dest # e.socks[s].dest
    PROVE  Answered(e, Fresh(g, l, m.dest), l, m)
<1> DEFINE f == Fresh(g, l, m.dest)
<1>1. FirstUsed(g, Used) /\ g.links[l].engEnd /\ g.links[l].authed
  BY DEF Moves, LinkKept, FirstUsed
<1>2. /\ f \in Eng
      /\ f.cur = Full \/ (Sound(f) /\ FirstUsed(f, Used + 1) /\ Used + 1 <= MaxSocks)
      /\ \A k \in Links : /\ LinkSame(g, f, k)
                          /\ g.links[k].claims \subseteq f.links[k].claims
  BY <1>1, FreshSound
<1> HIDE DEF f
<1>3. f.cur # Full => \E n \in 0 .. MaxSocks : FirstUsed(f, n)
  BY <1>2, ClaimConstants
<1>4. \A k \in Links : LinkSame(e, f, k)
  BY <1>2 DEF Moves, LinkKept, LinkSame
<1>5. ASSUME NEW k \in Links, NEW x \in Socks, x \in e.links[k].claims,
             x \notin f.links[k].claims
      PROVE  x = s
  BY <1>2, <1>5 DEF Moves, LinkKept
<1>6. Rightful(e, f, l, m)
  BY <1>5 DEF Rightful
<1> QED BY <1>2, <1>3, <1>4, <1>6 DEF Answered, f

\* When nobody refuses, every claim is of a process that is not newer.
LEMMA NoneRefuses ==
    ASSUME NEW e \in Eng, Sound(e), NEW l \in Links, NEW s \in Socks,
           Refusers(e, l, s) = {}, NEW k \in Links, s \in e.links[k].claims
    PROVE  e.links[k].owner <= e.links[l].owner
<1>1. e.links[k].owner \in Int /\ e.links[l].owner \in Int
  BY DEF Eng, Link, Apps
<1>2. CASE k = l
  BY <1>1, <1>2
<1>3. CASE k # l
  <2>1. k \in Holders(e, s, l)
    BY <1>3 DEF Holders, Sound, Linkage
  <2>2. ~Refused(e.links[k].owner, e.links[l].owner)
    BY <2>1 DEF Refusers
  <2> QED BY <1>1, <2>2 DEF Refused
<1> QED BY <1>2, <1>3

\* So is only saying something.
LEMMA SaidAnswer ==
    ASSUME NEW e \in Eng, Sound(e), Used \in 0 .. MaxSocks, FirstUsed(e, Used),
           NEW l \in Links, e.links[l].authed, NEW m, NEW r \in ToApp
    PROVE  Answered(e, Sent(e, l, r), l, m)
<1> DEFINE f == Sent(e, l, r)
<1>0. 1 \in Socks
  BY ClaimConstants DEF Socks
<1>1. /\ Moves(e, f, 1) /\ f.socks = e.socks
      /\ \A k \in Links : f.links[k].claims = e.links[k].claims
  BY <1>0, SentMoves
<1> HIDE DEF f
<1>2. Sound(f)
  BY <1>0, <1>1, SaidSound
<1>3. FirstUsed(f, Used)
  BY <1>1 DEF FirstUsed
<1>4. \A k \in Links : LinkSame(e, f, k)
  BY <1>1 DEF Moves, LinkKept, LinkSame
<1>5. Rightful(e, f, l, m)
  BY <1>1 DEF Rightful
<1>6. f \in Eng
  BY <1>1 DEF Moves
<1> QED BY <1>2, <1>3, <1>4, <1>5, <1>6 DEF Answered, f

\* EngineServer.connect.
LEMMA ConnectAnswer ==
    ASSUME NEW e \in Eng, Sound(e), Used \in 0 .. MaxSocks, FirstUsed(e, Used),
           NEW l \in Links, e.links[l].engEnd, e.links[l].authed, e.cur \in Socks \union {0},
           NEW m, m.op = "connect", m.dest \in Settings
    PROVE  Answered(e, Connect(e, l, m.dest), l, m)
<1> DEFINE d == m.dest
           s == e.cur
           u == e.socks[s]
           t == Superseded(e, l, s)
<1>1. CASE s = 0
  <2> DEFINE f == Fresh(e, l, d)
  <2>1. Connect(e, l, d) = f
    BY <1>1 DEF Connect
  <2>2. /\ f \in Eng
        /\ f.cur = Full \/ (Sound(f) /\ FirstUsed(f, Used + 1) /\ Used + 1 <= MaxSocks)
        /\ \A k \in Links : /\ LinkSame(e, f, k)
                            /\ e.links[k].claims \subseteq f.links[k].claims
    BY FreshSound
  <2> HIDE DEF f
  <2>3. f.cur # Full => \E n \in 0 .. MaxSocks : FirstUsed(f, n)
    BY <2>2, ClaimConstants
  <2>4. Rightful(e, f, l, m)
    BY <2>2 DEF Rightful
  <2> QED BY <2>1, <2>2, <2>3, <2>4 DEF Answered
<1>2. CASE s # 0
  <2>1. s \in Socks /\ u.st # "unused" /\ Moves(e, e, s)
    BY <1>2 DEF Sound, Life, Moves, LinkKept
  <2>2. CASE u.closing
    <3>1. /\ Sound(CastOff(e, s)) /\ Moves(e, CastOff(e, s), s)
          /\ CastOff(e, s) \in Eng
      BY <2>1, CastOffSound DEF Moves
    <3>2. Connect(e, l, d) = Fresh(CastOff(e, s), l, d)
      BY <1>2, <2>2 DEF Connect
    <3> QED BY <2>1, <2>2, <3>1, <3>2, FreshAnswer
  <2>3. CASE ~u.closing /\ u.dest # d
    <3> DEFINE g == Closing(CastOff(e, s), s)
    <3>1. Sound(g) /\ Moves(e, g, s) /\ g \in Eng
      BY <2>1, CastOffSound DEF Moves
    <3>2. Connect(e, l, d) = Fresh(g, l, d)
      BY <1>2, <2>3 DEF Connect
    <3> HIDE DEF g
    <3> QED BY <2>1, <2>3, <3>1, <3>2, FreshAnswer
  <2>4. CASE ~u.closing /\ u.dest = d /\ Refusers(e, l, s) # {}
    <3>1. Connect(e, l, d) = Sent(e, l, Op("detached"))
      BY <1>2, <2>4 DEF Connect
    <3>2. Op("detached") \in ToApp
      BY DEF Op, ToApp
    <3> QED BY <3>1, <3>2, SaidAnswer
  <2>5. CASE ~u.closing /\ u.dest = d /\ Refusers(e, l, s) = {}
    <3>1. Moves(e, t, s) /\ Free(t, s, l) /\ t \in Eng
      BY <2>1, SupersededMoves DEF Moves
    <3>2. \A k \in Links : s \in e.links[k].claims => e.links[k].owner <= e.links[l].owner
      BY <2>1, <2>5, NoneRefuses
    <3> DEFINE c == Claimed(t, l, s)
               g == Closing(CastOff(t, s), s)
    <3> HIDE DEF t
    <3>3. Sound(c) /\ Moves(e, c, s) /\ c \in Eng
      BY <2>1, <3>1, ClaimedSound DEF Moves
    <3>4. Sound(g) /\ Moves(e, g, s) /\ g \in Eng
      <4>1. Sound(g) /\ Moves(e, g, s)
        BY <2>1, <3>1, CastOffSound
      <4> HIDE DEF g
      <4> QED BY <4>1 DEF Moves
    <3>5. ASSUME NEW r \in ToApp PROVE Answered(e, Sent(c, l, r), l, m)
      <4> DEFINE f == Sent(c, l, r)
      <4> HIDE DEF c
      <4>1. c.links[l].authed
        BY <3>3 DEF Moves, LinkKept
      <4>2. /\ Moves(c, f, s) /\ f.socks = c.socks
            /\ \A k \in Links : f.links[k].claims = c.links[k].claims
        BY <2>1, <3>3, <4>1, SentMoves
      <4> HIDE DEF f
      <4>3. Sound(f) /\ Moves(e, f, s)
        BY <2>1, <3>3, <4>2, SaidSound, MovesOn
      <4> QED BY <2>1, <3>2, <4>3, MovesAnswer DEF f
    <3>6. Connect(e, l, d) \in {Sent(c, l, Op("dialing")), Sent(c, l, On("attached", s)),
                               Fresh(g, l, d)}
      <4>1. CASE u.st = "dialing"
        BY <1>2, <2>5, <4>1 DEF Connect, t
      <4>2. CASE u.st # "dialing" /\ u.reg
        BY <1>2, <2>5, <4>2 DEF Connect, t
      <4>3. CASE u.st # "dialing" /\ ~u.reg
        BY <1>2, <2>5, <4>3 DEF Connect, t
      <4> QED BY <4>1, <4>2, <4>3
    <3>7. Op("dialing") \in ToApp /\ On("attached", s) \in ToApp
      BY <2>1 DEF Op, On, ToApp
    <3>8. Answered(e, Fresh(g, l, d), l, m)
      <4> HIDE DEF g
      <4> QED BY <2>1, <3>2, <3>4, FreshAnswer
    <3> HIDE DEF c, g
    <3> QED BY <3>5, <3>6, <3>7, <3>8
  <2> QED BY <2>2, <2>3, <2>4, <2>5
<1> QED BY <1>1, <1>2

\* EngineServer.close.
LEMMA CloseAnswer ==
    ASSUME NEW e \in Eng, Sound(e), Used \in 0 .. MaxSocks, FirstUsed(e, Used),
           NEW l \in Links, e.links[l].authed, e.cur \in Socks \union {0}, NEW m
    PROVE  Answered(e, CloseAsked(e, l), l, m)
<1> DEFINE s == e.cur
           r == Error("close")
<1>1. r \in ToApp
  BY DEF Error, ToApp
<1>2. CASE CloseAsked(e, l) = Sent(e, l, r)
  <2> HIDE DEF r
  <2> QED BY <1>1, <1>2, SaidAnswer
<1>3. CASE s # 0 /\ s \in e.links[l].claims
  <2> DEFINE f == Closing(e, s)
  <2>1. s \in Socks /\ Moves(e, f, s) /\ f.socks[s].sink = e.socks[s].sink /\ f.links = e.links
    BY <1>3, ClosingMoves
  <2>2. CloseAsked(e, l) = f
    BY <1>3 DEF CloseAsked
  <2> HIDE DEF f
  <2>3. f \in Eng /\ e.socks[s].st # "unused"
    BY <2>1 DEF Moves, Sound, Life
  <2>4. Sound(f)
    BY <2>1, <2>3, MovesSound DEF OneClaim, Sound, Linkage
  <2> QED BY <2>1, <2>2, <2>4, MovesAnswer
<1>4. CASE s # 0 /\ s \notin e.links[l].claims /\ Refusers(e, l, s) = {}
  <2> DEFINE t == Superseded(e, l, s)
             h == Silenced(t, s)
             f == Closing(h, s)
  <2>1. s \in Socks
    BY <1>4
  <2>2. Moves(e, t, s) /\ Free(t, s, l) /\ t \in Eng
    BY <2>1, SupersededMoves DEF Moves
  <2>3. CloseAsked(e, l) = f
    BY <1>4 DEF CloseAsked
  <2>4. s \notin t.links[l].claims
    BY <1>4, <2>1, SupersededMoves
  <2> HIDE DEF t
  <2>5. Moves(t, h, s) /\ h.socks[s].sink = 0 /\ h.links = t.links /\ h \in Eng
    BY <2>1, <2>2, SilencedMoves DEF Moves
  <2> HIDE DEF h
  <2>6. Moves(h, f, s) /\ f.socks[s].sink = 0 /\ f.links = t.links /\ f \in Eng
    BY <2>1, <2>5, ClosingMoves DEF Moves
  <2> HIDE DEF f
  <2>7. Moves(e, f, s)
    BY <2>1, <2>2, <2>5, <2>6, MovesOn
  <2>8. e.socks[s].st # "unused"
    BY <2>1 DEF Sound, Life
  <2>9. \A k \in Links : s \notin f.links[k].claims
    BY <2>2, <2>4, <2>6 DEF Free
  <2>10. Sound(f)
    BY <2>1, <2>6, <2>7, <2>8, <2>9, BareSound
  <2>11. \A k \in Links : s \in e.links[k].claims => e.links[k].owner <= e.links[l].owner
    BY <1>4, <2>1, NoneRefuses
  <2> QED BY <2>1, <2>3, <2>7, <2>10, <2>11, MovesAnswer
<1> QED BY <1>2, <1>3, <1>4 DEF CloseAsked

\* EngineServer.write.
LEMMA WriteAnswer ==
    ASSUME NEW e \in Eng, Sound(e), Used \in 0 .. MaxSocks, FirstUsed(e, Used),
           NEW l \in Links, e.links[l].authed, e.cur \in Socks \union {0}, NEW m
    PROVE  Answered(e, WriteAsked(e, l), l, m)
<1> DEFINE s == e.cur
           r == Error("write")
           w == e.socks[s].st = "open" /\ ~e.socks[s].closing
           u == [e.socks[s] EXCEPT !.driven = @ \/ w]
           f == [e EXCEPT !.socks = [e.socks EXCEPT ![s] = u]]
<1>1. CASE ~Drives(e, l)
  <2>1. r \in ToApp
    BY DEF Error, ToApp
  <2>2. WriteAsked(e, l) = Sent(e, l, r)
    BY <1>1 DEF WriteAsked
  <2> HIDE DEF r
  <2> QED BY <2>1, <2>2, SaidAnswer
<1>2. CASE Drives(e, l)
  <2>1. s \in Socks /\ e.socks[s] \in Sock
    BY <1>2 DEF Drives, Eng
  <2>2. WriteAsked(e, l) = f
    BY <1>2 DEF WriteAsked, Eng
  <2> HIDE DEF w
  <2>3. /\ u \in Sock /\ u.sink = e.socks[s].sink /\ u.st = e.socks[s].st
        /\ e.socks[s].driven => u.driven
        /\ u.reg = e.socks[s].reg /\ u.dest = e.socks[s].dest
    BY <2>1 DEF Sock
  <2> HIDE DEF u
  <2>4. Moves(e, f, s) /\ f.socks[s] = u /\ f.links = e.links
    BY <2>1, <2>3, SockMoves
  <2> HIDE DEF f
  <2>5. f \in Eng /\ e.socks[s].st # "unused"
    BY <2>1, <2>4 DEF Moves, Sound, Life
  <2>6. Sound(f)
    BY <2>1, <2>3, <2>4, <2>5, MovesSound DEF OneClaim, Sound, Linkage
  <2> QED BY <2>1, <2>2, <2>4, <2>6, MovesAnswer
<1> QED BY <1>1, <1>2

\* EngineServer.detach.
LEMMA DetachAnswer ==
    ASSUME NEW e \in Eng, Sound(e), Used \in 0 .. MaxSocks, FirstUsed(e, Used),
           NEW l \in Links, e.links[l].authed, e.cur \in Socks \union {0}, NEW m
    PROVE  Answered(e, DetachAsked(e, l), l, m)
<1> DEFINE s == e.cur
           r == Error("detach")
           k == [e.links[l] EXCEPT !.claims = @ \ {s}]
           L == [e.links EXCEPT ![l] = k]
           u == [e.socks[s] EXCEPT !.sink = 0, !.letGo = l]
           S == [e.socks EXCEPT ![s] = u]
           g == [e EXCEPT !.links = L]
           h == [g EXCEPT !.socks = S]
           f == Offered(h, s, l)
<1>1. CASE ~Drives(e, l)
  <2>1. r \in ToApp
    BY DEF Error, ToApp
  <2>2. DetachAsked(e, l) = Sent(e, l, r)
    BY <1>1 DEF DetachAsked
  <2> HIDE DEF r
  <2> QED BY <2>1, <2>2, SaidAnswer
<1>2. CASE Drives(e, l)
  <2>1. s \in Socks /\ e.socks[s] \in Sock /\ e.links[l] \in Link
    BY <1>2 DEF Drives, Eng
  <2>2. DetachAsked(e, l) = f
    <3>1. [e EXCEPT !.links[l].claims = @ \ {e.cur},
                    !.socks[e.cur] = [@ EXCEPT !.sink = 0, !.letGo = l]] = h
      BY <2>1 DEF Eng
    <3> HIDE DEF h
    <3> QED BY <1>2, <3>1 DEF DetachAsked
  <2>3. /\ L \in [Links -> Link] /\ L[l].claims = e.links[l].claims \ {s}
        /\ \A j \in Links : LinkKept(e, [links |-> L], s, j)
        /\ \A j \in Links \ {l} : L[j] = e.links[j]
    BY <2>1 DEF LinkKept, Link, Eng
  <2>4. /\ u \in Sock /\ u.sink = 0 /\ u.st = e.socks[s].st
        /\ e.socks[s].driven => u.driven
        /\ u.reg = e.socks[s].reg /\ u.dest = e.socks[s].dest
    BY <2>1 DEF Sock
  <2> HIDE DEF k, L, u
  <2>5. Moves(e, g, s) /\ g.socks = e.socks /\ g.links = L
    BY <2>1, <2>3, LinksMove
  <2>6. g \in Eng /\ S = [g.socks EXCEPT ![s] = u]
    BY <2>5 DEF Moves
  <2> HIDE DEF g, S
  <2>7. Moves(g, h, s) /\ h.socks[s] = u /\ h.links = g.links
    BY <2>1, <2>4, <2>5, <2>6, SockMoves
  <2> HIDE DEF h
  <2>8. Moves(e, h, s) /\ h \in Eng
    BY <2>1, <2>5, <2>7, MovesOn DEF Moves
  <2>9. ASSUME NEW j \in Links PROVE s \notin h.links[j].claims
    BY <1>2, <2>1, <2>3, <2>5, <2>7 DEF Drives, Sound, OneClaim
  <2>10. Sound(h)
    BY <2>1, <2>4, <2>7, <2>8, <2>9, BareSound DEF Sound, Life
  <2>11. /\ Moves(h, f, s) /\ f.socks = h.socks
         /\ \A j \in Links : f.links[j].claims = h.links[j].claims
    BY <2>1, <2>8, OfferedMoves
  <2> HIDE DEF f
  <2>12. Sound(f) /\ Moves(e, f, s)
    BY <2>1, <2>8, <2>10, <2>11, SaidSound, MovesOn
  <2>13. \A j \in Links : s \in e.links[j].claims => e.links[j].owner <= e.links[l].owner
    <3>1. \A j \in Links : s \in e.links[j].claims => j = l
      BY <1>2, <2>1 DEF Drives, Sound, OneClaim
    <3>2. e.links[l].owner \in Int
      BY <2>1 DEF Link, Apps
    <3> QED BY <3>1, <3>2
  <2> QED BY <2>1, <2>2, <2>12, <2>13, MovesAnswer
<1> QED BY <1>1, <1>2

\* The hello authenticates its link.
LEMMA HelloAnswer ==
    ASSUME NEW e \in Eng, Sound(e), Used \in 0 .. MaxSocks, FirstUsed(e, Used),
           NEW l \in Links, e.links[l].engEnd, NEW m
    PROVE  /\ Answered(e, HelloAsked(e, l), l, m)
           /\ HelloAsked(e, l).links[l].authed
<1> DEFINE k == [e.links[l] EXCEPT !.authed = TRUE]
           L == [e.links EXCEPT ![l] = k]
           g == [e EXCEPT !.links = L]
           r == [op |-> "hello", held |-> HeldFor(e, l)]
<1>1. e.links[l] \in Link
  BY DEF Eng
<1>2. /\ L \in [Links -> Link] /\ \A j \in Links \ {l} : L[j] = e.links[j]
      /\ L[l] = k /\ k.authed /\ k.owner = e.links[l].owner /\ k.appEnd = e.links[l].appEnd
      /\ k.engEnd = e.links[l].engEnd /\ k.toEng = e.links[l].toEng
      /\ k.toApp = e.links[l].toApp /\ k.claims = e.links[l].claims
  BY <1>1 DEF Link, Eng
<1>3. g = [e EXCEPT !.links[l].authed = TRUE]
  BY DEF Eng
<1>4. r \in ToApp
  BY DEF ToApp, HeldFor
<1>5. HelloAsked(e, l) = Sent(g, l, r)
  <2> HIDE DEF g, L, k
  <2> QED BY <1>3 DEF HelloAsked
<1> HIDE DEF L, k, r
<1>6. g \in Eng /\ g.cur = e.cur /\ g.socks = e.socks /\ g.links = L
  BY <1>2, EngLinks
<1> HIDE DEF g
<1>7. \A j \in Links : /\ LinkSame(e, g, j) /\ g.links[j].claims = e.links[j].claims
                       /\ g.links[j].toApp = e.links[j].toApp
  BY <1>2, <1>6 DEF LinkSame
<1>8. Sound(g) /\ FirstUsed(g, Used) /\ g.links[l].authed
  <2>1. Linkage(g)
    BY <1>7 DEF Linkage, Sound, LinkSame
  <2>2. Life(g) /\ \A s \in Socks : OneClaim(g, s)
    BY <1>6, <1>7 DEF Life, OneClaim, Sound
  <2> QED BY <1>2, <1>6, <2>1, <2>2 DEF Sound, FirstUsed
<1>9. Answered(g, Sent(g, l, r), l, m)
  BY <1>4, <1>6, <1>8, SaidAnswer
<1>10. Answered(e, Sent(g, l, r), l, m)
  BY <1>6, <1>7, <1>9 DEF Answered, LinkSame, Rightful
<1>11. Sent(g, l, r).links[l].authed
  BY <1>8, <1>9 DEF Answered, LinkSame
<1> QED BY <1>5, <1>10, <1>11

\* The first frame of a link is its hello; nothing else is answered before.
LEMMA AnswerAnswered ==
    ASSUME NEW e \in Eng, Sound(e), Used \in 0 .. MaxSocks, FirstUsed(e, Used),
           NEW l \in Links, e.links[l].engEnd, e.cur \in Socks \union {0},
           NEW m \in ToEng, e.links[l].authed \/ m.op = "hello"
    PROVE  Answered(e, Answer(e, l, m), l, m) /\ Answer(e, l, m).links[l].authed
<1>1. /\ m.op \in {"hello", "connect", "write", "detach", "close"}
      /\ m.op = "connect" => m.dest \in Settings
  BY DEF ToEng, Asked
<1>2. CASE m.op = "hello"
  BY <1>2, HelloAnswer DEF Answer
<1>3. CASE m.op # "hello"
  <2>1. ASSUME m.op = "connect" PROVE Answered(e, Answer(e, l, m), l, m)
    <3>1. Answer(e, l, m) = Connect(e, l, m.dest)
      BY <2>1 DEF Answer
    <3> QED BY <1>1, <1>3, <2>1, <3>1, ConnectAnswer
  <2>2. ASSUME m.op = "write" PROVE Answered(e, Answer(e, l, m), l, m)
    <3>1. Answer(e, l, m) = WriteAsked(e, l)
      BY <2>2 DEF Answer
    <3> QED BY <1>1, <1>3, <2>2, <3>1, WriteAnswer
  <2>3. ASSUME m.op = "detach" PROVE Answered(e, Answer(e, l, m), l, m)
    <3>1. Answer(e, l, m) = DetachAsked(e, l)
      BY <2>3 DEF Answer
    <3> QED BY <1>1, <1>3, <2>3, <3>1, DetachAnswer
  <2>4. ASSUME m.op = "close" PROVE Answered(e, Answer(e, l, m), l, m)
    <3>1. Answer(e, l, m) = CloseAsked(e, l)
      BY <2>4 DEF Answer
    <3> QED BY <1>1, <1>3, <2>4, <3>1, CloseAnswer
  <2>5. Answered(e, Answer(e, l, m), l, m)
    BY <1>1, <1>3, <2>1, <2>2, <2>3, <2>4
  <2> QED BY <1>3, <2>5 DEF Answered, LinkSame
<1> QED BY <1>2, <1>3

-----------------------------------------------------------------------------
(* The inductive invariant.                                                *)

\* The engine: one claim per socket, which is its sink; sockets in use in order.
EngineSound ==
    /\ Engine \in Eng /\ cur \in Socks \union {0}
    /\ Sound(Engine)
    /\ Used \in 0 .. MaxSocks /\ FirstUsed(Engine, Used)

\* A link's first frame is its hello; links are opened in order.
LinksSound ==
    /\ Linked \in Nat
    /\ \A l \in Links :
          /\ links[l].owner # 0 <=> l <= Linked
          /\ links[l].engEnd /\ ~links[l].authed /\ links[l].toEng # <<>> =>
               Head(links[l].toEng).op = "hello"

\* A process that heard its link's hello has an open link the engine knows.
AppSound(a) ==
    /\ Sane(apps[a])
    /\ apps[a].st = "up" => apps[a].link \in Links /\ links[apps[a].link].owner = a
    /\ apps[a].st # "up" => apps[a].ph = "none" /\ ~apps[a].ready
    /\ apps[a].ready => /\ links[apps[a].link].appEnd
                        /\ links[apps[a].link].engEnd => links[apps[a].link].authed

RestSound ==
    /\ apps \in [Apps -> Process] /\ row \in Dests
    /\ used \in [faults : 0 .. MaxFaults, cmds : 0 .. MaxCmds]

IInv == EngineSound /\ LinksSound /\ RestSound /\ \A a \in Apps : AppSound(a)

\* An interval's length, for either count.
LEMMA FirstN ==
    ASSUME NEW T, NEW N \in Nat, NEW n \in 0 .. N, NEW P \in [1 .. N -> BOOLEAN],
           T = {x \in 1 .. N : P[x]}, \A x \in 1 .. N : P[x] <=> x <= n
    PROVE  Cardinality(T) = n
<1>1. T = 1 .. n
  OBVIOUS
<1>2. n \in Int /\ 1 \in Int
  OBVIOUS
<1>3. Cardinality(1 .. n) = IF 1 > n THEN 0 ELSE n - 1 + 1
  BY <1>2, FS_Interval
<1>4. Cardinality(1 .. n) = n
  BY <1>2, <1>3
<1> QED BY <1>1, <1>4

\* No process, link or socket yet.
LEMMA InitInvariant == Init => IInv
<1> SUFFICES ASSUME Init PROVE IInv
  OBVIOUS
<1>1. NoSock \in Sock /\ NoLink \in Link /\ NoApp \in Process
  BY DEF NoSock, NoLink, NoApp, Sock, Link, Process, Phases, Settings
<1>2. Engine \in Eng
  BY <1>1, ClaimConstants DEF Init, Engine, Eng, Full
<1>3. \A x \in Links \union Apps : x # 0
  BY ClaimConstants DEF Links, Apps
<1>4. Sound(Engine)
  <2>1. Linkage(Engine) /\ \A s \in Socks : OneClaim(Engine, s)
    BY <1>3 DEF Init, Engine, Linkage, OneClaim, NoSock, NoLink
  <2>2. Life(Engine)
    BY ClaimConstants DEF Init, Engine, Life, NoSock, Socks
  <2> QED BY <2>1, <2>2 DEF Sound
<1>5. Used = 0
  <2>1. {s \in Socks : socks[s].st # "unused"} = {}
    BY DEF Init, NoSock
  <2> QED BY <2>1, FS_EmptySet DEF Used
<1>6. Linked = 0
  <2>1. {l \in Links : links[l].owner # 0} = {}
    BY DEF Init, NoLink
  <2> QED BY <2>1, FS_EmptySet DEF Linked
<1>7. EngineSound
  <2>1. FirstUsed(Engine, Used)
    BY <1>5 DEF Init, Engine, FirstUsed, NoSock, Socks
  <2> QED BY <1>2, <1>4, <1>5, <2>1, ClaimConstants DEF EngineSound, Init
<1>8. LinksSound
  BY <1>6 DEF LinksSound, Init, NoLink, Links
<1>9. RestSound
  BY <1>1, ClaimConstants DEF RestSound, Init
<1>10. ASSUME NEW a \in Apps PROVE AppSound(a)
  BY <1>1 DEF AppSound, Init, NoApp, Sane, Handles, Asking
<1> QED BY <1>7, <1>8, <1>9, <1>10 DEF IInv

-----------------------------------------------------------------------------
(* Steps of the engine.                                                    *)

\* Sockets are used in order.
LEMMA UsedIs ==
    ASSUME NEW n \in 0 .. MaxSocks, NEW S,
           \A s \in Socks : S[s].st # "unused" <=> s <= n
    PROVE  Cardinality({s \in Socks : S[s].st # "unused"}) = n
<1> DEFINE P == [s \in Socks |-> S[s].st # "unused"]
<1>1. P \in [1 .. MaxSocks -> BOOLEAN] /\ \A s \in 1 .. MaxSocks : P[s] <=> s <= n
  BY DEF Socks
<1>2. {s \in Socks : S[s].st # "unused"} = {s \in 1 .. MaxSocks : P[s]}
  BY DEF Socks
<1> HIDE DEF P
<1> QED BY <1>1, <1>2, FirstN, ClaimConstants

\* Links are opened in order.
LEMMA LinkedIs ==
    ASSUME NEW n \in 0 .. (MaxApps + MaxFaults), NEW L,
           \A l \in Links : L[l].owner # 0 <=> l <= n
    PROVE  Cardinality({l \in Links : L[l].owner # 0}) = n
<1> DEFINE P == [l \in Links |-> L[l].owner # 0]
<1>1. P \in [1 .. (MaxApps + MaxFaults) -> BOOLEAN]
      /\ \A l \in 1 .. (MaxApps + MaxFaults) : P[l] <=> l <= n
  BY DEF Links
<1>2. {l \in Links : L[l].owner # 0} = {l \in 1 .. (MaxApps + MaxFaults) : P[l]}
  BY DEF Links
<1> HIDE DEF P
<1>3. MaxApps + MaxFaults \in Nat
  BY ClaimConstants
<1> QED BY <1>1, <1>2, <1>3, FirstN

\* What the engine's step may do to a link, as the processes see it.
LinkServed(f, l) ==
    /\ f.links[l].owner = links[l].owner /\ f.links[l].appEnd = links[l].appEnd
    /\ f.links[l].engEnd =>
         /\ links[l].engEnd /\ (links[l].authed => f.links[l].authed)
         /\ f.links[l].toEng = links[l].toEng
            \/ (f.links[l].authed /\ f.links[l].toEng = Tail(links[l].toEng))

\* A sound engine that serves the links as they stand keeps the invariant.
LEMMA EngineStepKeeps ==
    ASSUME IInv, NEW f \in Eng, f.cur # Full, Sound(f),
           NEW n \in 0 .. MaxSocks, FirstUsed(f, n),
           \A l \in Links : LinkServed(f, l), Becomes(f),
           UNCHANGED <<apps, row>>, used' \in [faults : 0 .. MaxFaults, cmds : 0 .. MaxCmds]
    PROVE  IInv'
<1>1. Engine' = f
  <2>1. f = [cur |-> f.cur, socks |-> f.socks, links |-> f.links]
    BY DEF Eng
  <2> QED BY <2>1 DEF Engine, Becomes
<1>2. EngineSound'
  <2>1. Used' = n
    BY UsedIs DEF Used, Becomes, FirstUsed
  <2>2. cur' \in Socks \union {0}
    BY ClaimConstants DEF Becomes, Eng, Full, Socks
  <2> QED BY <1>1, <2>1, <2>2 DEF EngineSound, Sound, Linkage, Life, OneClaim, FirstUsed
<1>3. LinksSound'
  <2>1. Linked' = Linked
    BY DEF Linked, Becomes, LinkServed
  <2> SUFFICES ASSUME NEW l \in Links
               PROVE  /\ links'[l].owner # 0 <=> l <= Linked
                      /\ links'[l].engEnd /\ ~links'[l].authed /\ links'[l].toEng # <<>> =>
                           Head(links'[l].toEng).op = "hello"
    BY <2>1 DEF IInv, LinksSound
  <2>2. LinkServed(f, l)
    OBVIOUS
  <2> QED BY <2>2 DEF LinkServed, Becomes, IInv, LinksSound
<1>4. RestSound'
  BY DEF IInv, RestSound
<1>5. ASSUME NEW a \in Apps PROVE AppSound(a)'
  BY DEF IInv, AppSound, Sane, LinkServed, Becomes, Handles
<1> QED BY <1>2, <1>3, <1>4, <1>5 DEF IInv
\* The engine has taken link l's first frame, and nothing else has changed.
LEMMA ReadingSound ==
    ASSUME IInv, NEW l \in Links, links[l].toEng # <<>>
    PROVE  LET e == [Engine EXCEPT !.links[l].toEng = Tail(@)]
           IN  /\ e \in Eng /\ Sound(e) /\ FirstUsed(e, Used) /\ e.cur = cur /\ e.socks = socks
               /\ \A k \in Links : /\ e.links[k].owner = links[k].owner
                                   /\ e.links[k].appEnd = links[k].appEnd
                                   /\ e.links[k].engEnd = links[k].engEnd
                                   /\ e.links[k].authed = links[k].authed
                                   /\ e.links[k].claims = links[k].claims
                                   /\ e.links[k].toEng = IF k = l THEN Tail(links[l].toEng)
                                                         ELSE links[k].toEng
<1> DEFINE k == [links[l] EXCEPT !.toEng = Tail(@)]
           L == [links EXCEPT ![l] = k]
           e == [Engine EXCEPT !.links = L]
<1>0. /\ Engine \in Eng /\ Engine.links = links /\ Engine.cur = cur /\ Engine.socks = socks
      /\ Sound(Engine) /\ FirstUsed(Engine, Used)
  BY DEF IInv, EngineSound, Engine
<1>1. links[l] \in Link /\ links \in [Links -> Link]
  BY <1>0 DEF Eng
<1>2. Tail(links[l].toEng) \in Seq(ToEng)
  BY <1>1 DEF Link
<1>3. /\ k \in Link /\ k.toEng = Tail(links[l].toEng) /\ k.owner = links[l].owner
      /\ k.appEnd = links[l].appEnd /\ k.engEnd = links[l].engEnd
      /\ k.authed = links[l].authed /\ k.claims = links[l].claims /\ k.toApp = links[l].toApp
  BY <1>1, <1>2 DEF Link
<1> HIDE DEF k
<1>4. L \in [Links -> Link] /\ L[l] = k /\ \A j \in Links \ {l} : L[j] = links[j]
  BY <1>1, <1>3
<1>5. [Engine EXCEPT !.links[l].toEng = Tail(@)] = e
  BY <1>0 DEF Eng, k
<1> HIDE DEF L
<1>6. e \in Eng /\ e.cur = cur /\ e.socks = socks /\ e.links = L
  BY <1>0, <1>4, EngLinks
<1> HIDE DEF e
<1>7. \A j \in Links : /\ e.links[j].owner = links[j].owner
                       /\ e.links[j].appEnd = links[j].appEnd
                       /\ e.links[j].engEnd = links[j].engEnd
                       /\ e.links[j].authed = links[j].authed
                       /\ e.links[j].claims = links[j].claims
                       /\ e.links[j].toApp = links[j].toApp
                       /\ e.links[j].toEng = IF j = l THEN Tail(links[l].toEng)
                                             ELSE links[j].toEng
  BY <1>3, <1>4, <1>6
<1>8. Sound(e) /\ FirstUsed(e, Used)
  <2>1. Linkage(e)
    BY <1>0, <1>7 DEF Linkage, Sound
  <2>2. Life(e) /\ \A s \in Socks : OneClaim(e, s)
    BY <1>0, <1>6, <1>7 DEF Life, OneClaim, Sound
  <2> QED BY <1>0, <1>6, <2>1, <2>2 DEF Sound, FirstUsed
<1> QED BY <1>5, <1>6, <1>7, <1>8

\* Reading a frame is answering it, the frame taken.
LEMMA ReadsAnswered ==
    ASSUME IInv, NEW l \in Links, EngineReads(l)
    PROVE  LET g == [Engine EXCEPT !.links[l].toEng = Tail(@)]
               m == Head(links[l].toEng)
               f == Answer(g, l, m)
           IN  /\ Answered(g, f, l, m) /\ f.links[l].authed
               /\ Becomes(f) /\ f.cur # Full
<1> DEFINE g == [Engine EXCEPT !.links[l].toEng = Tail(@)]
           m == Head(links[l].toEng)
           f == Answer(g, l, m)
<1>1. links[l].toEng # <<>> /\ links[l].engEnd /\ f.cur # Full /\ Becomes(f)
  BY DEF EngineReads, Polled
<1>2. /\ g \in Eng /\ Sound(g) /\ FirstUsed(g, Used) /\ g.cur = cur
      /\ g.links[l].engEnd = links[l].engEnd /\ g.links[l].authed = links[l].authed
  BY <1>1, ReadingSound
<1> HIDE DEF g
<1>3. m \in ToEng
  <2>1. links[l] \in Link
    BY DEF IInv, EngineSound, Engine, Eng
  <2>2. links[l].toEng \in Seq(ToEng)
    BY <2>1 DEF Link
  <2> QED BY <1>1, <2>2
<1>4. links[l].authed \/ m.op = "hello"
  BY <1>1 DEF IInv, LinksSound
<1> HIDE DEF m
<1>5. Answered(g, f, l, m) /\ f.links[l].authed
  BY <1>1, <1>2, <1>3, <1>4, AnswerAnswered DEF IInv, EngineSound
<1> QED BY <1>1, <1>5 DEF g, m

\* EngineReads keeps the invariant.
LEMMA EngineReadsKeeps == ASSUME IInv, NEW l \in Links, EngineReads(l) PROVE IInv'
<1> DEFINE g == [Engine EXCEPT !.links[l].toEng = Tail(@)]
           m == Head(links[l].toEng)
           f == Answer(g, l, m)
<1>1. Answered(g, f, l, m) /\ f.links[l].authed /\ Becomes(f) /\ f.cur # Full
  BY ReadsAnswered
<1>2. links[l].toEng # <<>> /\ UNCHANGED <<apps, row, used>>
  BY DEF EngineReads
<1>3. \A k \in Links : /\ g.links[k].owner = links[k].owner
                       /\ g.links[k].appEnd = links[k].appEnd
                       /\ g.links[k].engEnd = links[k].engEnd
                       /\ g.links[k].authed = links[k].authed
                       /\ g.links[k].toEng = IF k = l THEN Tail(links[l].toEng)
                                             ELSE links[k].toEng
  BY <1>2, ReadingSound
<1> HIDE DEF f, g, m
<1>4. f \in Eng /\ Sound(f)
  BY <1>1 DEF Answered
<1>5. PICK n \in 0 .. MaxSocks : FirstUsed(f, n)
  BY <1>1 DEF Answered
<1>6. ASSUME NEW k \in Links PROVE LinkServed(f, k)
  BY <1>1, <1>3 DEF Answered, LinkSame, LinkServed
<1>7. used' \in [faults : 0 .. MaxFaults, cmds : 0 .. MaxCmds]
  BY <1>2 DEF IInv, RestSound
<1> QED BY <1>1, <1>2, <1>4, <1>5, <1>6, <1>7, EngineStepKeeps

\* What the invariant says of the engine.
LEMMA EngineFacts ==
    ASSUME IInv
    PROVE  /\ Engine \in Eng /\ Engine.cur = cur /\ Engine.socks = socks /\ Engine.links = links
           /\ Sound(Engine) /\ FirstUsed(Engine, Used) /\ Used \in 0 .. MaxSocks
           /\ cur \in Socks \union {0}
           /\ used \in [faults : 0 .. MaxFaults, cmds : 0 .. MaxCmds]
           /\ socks \in [Socks -> Sock] /\ links \in [Links -> Link]
<1>1. Engine.cur = cur /\ Engine.socks = socks /\ Engine.links = links
  BY DEF Engine
<1> QED BY <1>1 DEF IInv, EngineSound, RestSound, Eng

\* The bounds.
LEMMA SpendKeeps ==
    ASSUME IInv, NEW b \in {"faults", "cmds"}, Spend(b), b = "faults" => MayFail,
           b = "cmds" => MayAsk
    PROVE  used' \in [faults : 0 .. MaxFaults, cmds : 0 .. MaxCmds]
<1>1. used \in [faults : 0 .. MaxFaults, cmds : 0 .. MaxCmds]
  BY EngineFacts
<1> QED BY <1>1, ClaimConstants DEF Spend, MayFail, MayAsk

\* A step of the engine that only tells something about e.
LEMMA ToldKeeps ==
    ASSUME IInv, NEW e \in Eng, Sound(e), e.cur = cur \/ e.cur = 0, FirstUsed(e, Used),
           \A l \in Links : LinkServed(e, l),
           NEW f, NEW s \in Socks, Moves(e, f, s), f.socks = e.socks,
           \A l \in Links : f.links[l].claims = e.links[l].claims, Becomes(f),
           UNCHANGED <<apps, row>>, used' \in [faults : 0 .. MaxFaults, cmds : 0 .. MaxCmds]
    PROVE  IInv'
<1>1. Sound(f) /\ f \in Eng
  BY SaidSound DEF Moves
<1>2. FirstUsed(f, Used)
  BY DEF FirstUsed
<1>3. \A l \in Links : LinkServed(f, l)
  BY DEF LinkServed, Moves, LinkKept
<1>4. f.cur # Full
  BY EngineFacts, ClaimConstants DEF Moves, Full, Socks
<1> QED BY <1>1, <1>2, <1>3, <1>4, EngineFacts, EngineStepKeeps

\* No claim goes with this step, unless its link or its socket does.
ClaimsKept == \A l \in Links, s \in Socks : ~Lost(l, s)

\* A link that goes away lets go of its claims.
LEMMA LetGoKeeps ==
    ASSUME IInv, NEW l \in Links, Becomes(LetGo(Engine, l)),
           UNCHANGED <<apps, row>>, used' \in [faults : 0 .. MaxFaults, cmds : 0 .. MaxCmds]
    PROVE  IInv' /\ ClaimsKept
<1> DEFINE k == Ended(links[l])
           L == [links EXCEPT ![l] = k]
           S == [s \in Socks |-> IF socks[s].sink = l THEN [socks[s] EXCEPT !.sink = 0]
                                 ELSE socks[s]]
           g == [[Engine EXCEPT !.links = L] EXCEPT !.socks = S]
           f == Offered(g, cur, 0)
<1>1. /\ k \in Link /\ k.owner = links[l].owner /\ k.appEnd = links[l].appEnd
      /\ ~k.engEnd /\ k.claims = {}
  <2>1. links[l] \in Link
    BY EngineFacts
  <2>2. NoLink \in Link /\ ~NoLink.engEnd /\ NoLink.claims = {}
    BY DEF NoLink, Link
  <2> QED BY <2>1, <2>2 DEF Ended, Link
<1> HIDE DEF k
<1>2. L \in [Links -> Link] /\ L[l] = k /\ \A j \in Links \ {l} : L[j] = links[j]
  BY <1>1, EngineFacts
<1>3. ASSUME NEW s \in Socks
      PROVE  /\ S[s] \in Sock /\ S[s].sink = IF socks[s].sink = l THEN 0 ELSE socks[s].sink
             /\ S[s].st = socks[s].st /\ S[s].reg = socks[s].reg
             /\ S[s].driven = socks[s].driven
             /\ socks[s].sink # l => S[s] = socks[s]
  <2>1. socks[s] \in Sock
    BY EngineFacts
  <2> QED BY <2>1 DEF Sock
<1>4. S \in [Socks -> Sock]
  BY <1>3
<1>5. [Engine EXCEPT !.links[l] = Ended(Engine.links[l]),
                     !.socks = [s \in Socks |-> IF Engine.socks[s].sink = l
                                                THEN [Engine.socks[s] EXCEPT !.sink = 0]
                                                ELSE Engine.socks[s]]] = g
  <2>1. \A K, T : [Engine EXCEPT !.links[l] = K, !.socks = T]
                 = [[Engine EXCEPT !.links = [Engine.links EXCEPT ![l] = K]] EXCEPT !.socks = T]
    BY EngineFacts DEF Eng
  <2>2. Engine.socks = socks /\ Engine.links = links
    BY EngineFacts
  <2> HIDE DEF S
  <2>3. [s \in Socks |-> IF Engine.socks[s].sink = l THEN [Engine.socks[s] EXCEPT !.sink = 0]
                        ELSE Engine.socks[s]] = S
    BY <2>2 DEF S
  <2> QED BY <2>1, <2>2, <2>3 DEF k
<1> HIDE DEF L, S
<1>6. g \in Eng /\ g.cur = cur /\ g.links = L /\ g.socks = S
  <2>1. /\ [Engine EXCEPT !.links = L] \in Eng /\ [Engine EXCEPT !.links = L].cur = cur
        /\ [Engine EXCEPT !.links = L].links = L
    BY <1>2, EngineFacts, EngLinks
  <2> QED BY <1>4, <2>1, EngSocks
<1>7. \/ LetGo(Engine, l) = g
      \/ (LetGo(Engine, l) = f /\ cur \in Socks)
  <2>1. cur \in links[l].claims => cur \in Socks
    BY EngineFacts DEF Link
  <2>2. Engine.links = links /\ Engine.cur = cur
    BY EngineFacts
  <2>3. LetGo(Engine, l) = IF cur \in links[l].claims THEN f ELSE g
    <3> HIDE DEF g
    <3> QED BY <1>5, <2>2 DEF LetGo
  <2> HIDE DEF g, f
  <2> QED BY <2>1, <2>3
<1> HIDE DEF g
<1>8. Sound(g)
  <2>1. Linkage(g)
    BY <1>1, <1>2, <1>6, EngineFacts DEF Linkage, Sound
  <2>2. Life(g)
    <3>1. Life(Engine) /\ Engine.cur = cur /\ Engine.socks = socks
      BY EngineFacts DEF Sound
    <3>2. ASSUME NEW s \in Socks, socks[s].st = "unused" PROVE socks[s].sink # l
      BY <3>1, <3>2, ClaimConstants DEF Life, NoSock, Links
    <3>3. ASSUME NEW s \in Socks
          PROVE  /\ S[s].st = "unused" => S[s] = NoSock
                 /\ S[s].reg => S[s].driven /\ S[s].st = "open"
      <4>1. /\ socks[s].st = "unused" => socks[s] = NoSock
            /\ socks[s].reg => socks[s].driven /\ socks[s].st = "open"
        BY <3>1 DEF Life
      <4> QED BY <1>3, <3>2, <4>1
    <3>5. cur \in Socks => S[cur].st \in {"dialing", "open"}
      BY <1>3, <3>1 DEF Life
    <3> QED BY <1>6, <3>3, <3>5 DEF Life
  <2>3. ASSUME NEW s \in Socks PROVE OneClaim(g, s)
    <3>1. \A j \in Links : s \in links[j].claims <=> socks[s].sink = j
      BY EngineFacts DEF Sound, OneClaim
    <3>2. l # 0 /\ \A j \in Links : j # 0
      BY ClaimConstants DEF Links
    <3>3. L[l].claims = {} /\ \A j \in Links \ {l} : L[j].claims = links[j].claims
      BY <1>1, <1>2
    <3> HIDE DEF f
    <3>4. S[s].sink = IF socks[s].sink = l THEN 0 ELSE socks[s].sink
      BY <1>3
    <3>5. ASSUME NEW j \in Links PROVE s \in L[j].claims <=> S[s].sink = j
      <4>1. CASE j = l
        BY <3>2, <3>3, <3>4, <4>1
      <4>2. CASE j # l
        <5>1. L[j].claims = links[j].claims
          BY <3>3, <4>2
        <5>2. S[s].sink = j <=> socks[s].sink = j
          BY <3>2, <3>4, <4>2
        <5> QED BY <3>1, <5>1, <5>2
      <4> QED BY <4>1, <4>2
    <3> QED BY <1>6, <3>5 DEF OneClaim
  <2> QED BY <2>1, <2>2, <2>3 DEF Sound
<1>9. FirstUsed(g, Used)
  BY <1>3, <1>6, EngineFacts DEF FirstUsed
<1>10. \A j \in Links : LinkServed(g, j)
  BY <1>1, <1>2, <1>6 DEF LinkServed
<1>11. 1 \in Socks /\ Moves(g, g, 1)
  BY <1>6, ClaimConstants DEF Socks, Moves, LinkKept
<1>12. CASE LetGo(Engine, l) = g
  <2>1. ClaimsKept
    BY <1>1, <1>2, <1>6, <1>12 DEF ClaimsKept, Lost, Becomes
  <2> QED BY <1>6, <1>8, <1>9, <1>10, <1>11, <1>12, <2>1, ToldKeeps
<1>13. CASE LetGo(Engine, l) = f /\ cur \in Socks
  <2>1. /\ Moves(g, f, 1) /\ f.socks = g.socks
        /\ \A j \in Links : f.links[j].claims = g.links[j].claims
    BY <1>6, <1>11, <1>13, OfferedMoves
  <2> HIDE DEF f
  <2>2. ClaimsKept
    <3>1. \A j \in Links : LinkKept(g, f, 1, j)
      BY <2>1 DEF Moves
    <3> QED BY <1>1, <1>2, <1>6, <1>13, <2>1, <3>1 DEF ClaimsKept, Lost, Becomes, LinkKept
  <2> QED BY <1>6, <1>8, <1>9, <1>10, <1>11, <1>13, <2>1, <2>2, ToldKeeps
<1> QED BY <1>7, <1>12, <1>13
\* A step on one socket that keeps who listens to it.
LEMMA SockSound ==
    ASSUME NEW e \in Eng, Sound(e), NEW n, FirstUsed(e, n), NEW s \in Socks, NEW u \in Sock,
           e.socks[s].st # "unused", u.st # "unused", u.sink = e.socks[s].sink,
           e.cur = s => u.st \in {"dialing", "open"}, u.reg => u.driven /\ u.st = "open"
    PROVE  LET f == [e EXCEPT !.socks = [e.socks EXCEPT ![s] = u]]
           IN  /\ f \in Eng /\ f.cur = e.cur /\ f.links = e.links /\ f.socks[s] = u
               /\ Sound(f) /\ FirstUsed(f, n)
<1> DEFINE S == [e.socks EXCEPT ![s] = u]
           f == [e EXCEPT !.socks = S]
<1>1. S \in [Socks -> Sock] /\ S[s] = u /\ \A x \in Socks \ {s} : S[x] = e.socks[x]
  BY DEF Eng
<1> HIDE DEF S
<1>2. f \in Eng /\ f.cur = e.cur /\ f.links = e.links /\ f.socks = S
  BY <1>1, EngSocks
<1> HIDE DEF f
<1>3. Linkage(f)
  BY <1>2 DEF Sound, Linkage
<1>4. Life(f)
  BY <1>1, <1>2 DEF Sound, Life
<1>5. ASSUME NEW x \in Socks PROVE OneClaim(f, x)
  BY <1>1, <1>2 DEF Sound, OneClaim
<1>6. FirstUsed(f, n)
  BY <1>1, <1>2 DEF FirstUsed
<1> QED BY <1>1, <1>2, <1>3, <1>4, <1>5, <1>6 DEF Sound, f, S

\* The socket opens.
LEMMA OpensKeeps == ASSUME IInv, NEW s \in Socks, Opens(s) PROVE IInv' /\ ClaimsKept
<1> DEFINE u == [socks[s] EXCEPT !.st = "open"]
           g == [Engine EXCEPT !.socks = [Engine.socks EXCEPT ![s] = u]]
           f == Sent(g, socks[s].sink, On("open", s))
<1>1. /\ socks[s] \in Sock /\ socks[s].st = "dialing"
      /\ Becomes(Sent([Engine EXCEPT !.socks[s].st = "open"], socks[s].sink, On("open", s)))
      /\ UNCHANGED <<apps, row, used>>
  BY EngineFacts DEF Opens
<1>2. /\ u \in Sock /\ u.st = "open" /\ u.sink = socks[s].sink /\ u.reg = socks[s].reg
  BY <1>1 DEF Sock
<1>3. ~socks[s].reg
  BY <1>1, EngineFacts DEF Sound, Life
<1>4. [Engine EXCEPT !.socks[s].st = "open"] = g
  BY EngineFacts DEF Eng
<1>5. /\ g \in Eng /\ g.cur = cur /\ g.links = links
      /\ Sound(g) /\ FirstUsed(g, Used)
  <2> HIDE DEF u
  <2>1. Engine.socks[s] = socks[s]
    BY EngineFacts
  <2> QED BY <1>1, <1>2, <1>3, <2>1, EngineFacts, SockSound
<1> HIDE DEF g
<1>6. socks[s].sink \in Links \union {0}
  BY <1>1 DEF Sock
<1>7. socks[s].sink \in Links => g.links[socks[s].sink].authed
  <2>1. socks[s].sink \in Links => s \in links[socks[s].sink].claims
    BY EngineFacts DEF Sound, OneClaim
  <2> QED BY <1>5, <2>1 DEF Sound, Linkage
<1>8. On("open", s) \in ToApp
  BY DEF On, ToApp
<1>9. /\ Moves(g, f, s) /\ f.socks = g.socks
      /\ \A k \in Links : f.links[k].claims = g.links[k].claims
  BY <1>5, <1>6, <1>7, <1>8, SentMoves
<1>10. \A k \in Links : LinkServed(g, k)
  BY <1>5 DEF LinkServed
<1>11. Becomes(f)
  BY <1>1, <1>4
<1> HIDE DEF f
<1>12. ClaimsKept
  BY <1>5, <1>9, <1>11 DEF ClaimsKept, Lost, Becomes
<1> QED BY <1>1, <1>5, <1>9, <1>10, <1>11, <1>12, EngineFacts, ToldKeeps

\* The burst is done.
LEMMA RegistersKeeps == ASSUME IInv, NEW s \in Socks, Registers(s) PROVE IInv' /\ ClaimsKept
<1> DEFINE u == [socks[s] EXCEPT !.reg = TRUE]
           g == [Engine EXCEPT !.socks = [Engine.socks EXCEPT ![s] = u]]
           f == Offered(g, s, socks[s].letGo)
<1>1. /\ socks[s] \in Sock /\ socks[s].st = "open" /\ socks[s].driven
      /\ UNCHANGED <<apps, row, used>>
  BY EngineFacts DEF Registers
<1>2. [Engine EXCEPT !.socks[s].reg = TRUE] = g
  BY EngineFacts DEF Eng
<1>3. Becomes(f) \/ Becomes(g)
  <2> HIDE DEF g
  <2> QED BY <1>2 DEF Registers
<1>4. /\ u \in Sock /\ u.st = "open" /\ u.sink = socks[s].sink /\ u.driven
  BY <1>1 DEF Sock
<1>5. /\ g \in Eng /\ g.cur = cur /\ g.links = links
      /\ Sound(g) /\ FirstUsed(g, Used)
  <2> HIDE DEF u
  <2>1. Engine.socks[s].st # "unused" /\ u.st # "unused" /\ u.sink = Engine.socks[s].sink
    BY <1>1, <1>4, EngineFacts
  <2>2. u \in Sock /\ u.st \in {"dialing", "open"} /\ (u.reg => u.driven /\ u.st = "open")
    BY <1>4
  <2> QED BY <2>1, <2>2, EngineFacts, SockSound
<1> HIDE DEF g
<1>6. \A k \in Links : LinkServed(g, k)
  BY <1>5 DEF LinkServed
<1>7. CASE Becomes(f)
  <2>1. /\ Moves(g, f, s) /\ f.socks = g.socks
        /\ \A k \in Links : f.links[k].claims = g.links[k].claims
    BY <1>5, OfferedMoves
  <2> HIDE DEF f
  <2>2. ClaimsKept
    BY <1>5, <1>7, <2>1 DEF ClaimsKept, Lost, Becomes
  <2> QED BY <1>1, <1>5, <1>6, <1>7, <2>1, <2>2, EngineFacts, ToldKeeps
<1>8. CASE Becomes(g)
  <2>1. Moves(g, g, s)
    BY <1>5 DEF Moves, LinkKept
  <2>2. ClaimsKept
    BY <1>5, <1>8 DEF ClaimsKept, Lost, Becomes
  <2> QED BY <1>1, <1>5, <1>6, <1>8, <2>1, <2>2, EngineFacts, ToldKeeps
<1> QED BY <1>3, <1>7, <1>8

\* reapOrphans.
LEMMA OrphanReapedKeeps == ASSUME IInv, NEW s \in Socks, OrphanReaped(s) PROVE IInv' /\ ClaimsKept
<1> DEFINE f == Closing(Engine, s)
<1>1. /\ Becomes(f) /\ UNCHANGED <<apps, row>> /\ Spend("faults") /\ MayFail
      /\ socks[s].st = "open"
  BY DEF OrphanReaped
<1>2. Moves(Engine, f, s) /\ f.socks[s].sink = socks[s].sink /\ f.links = links
  BY ClosingMoves, EngineFacts
<1> HIDE DEF f
<1>3. f \in Eng /\ f.cur = cur /\ FirstUsed(f, Used)
  BY <1>2, EngineFacts DEF Moves, FirstUsed
<1>4. Sound(f)
  <2>1. OneClaim(f, s)
    BY <1>2, EngineFacts DEF OneClaim, Sound
  <2>2. \A l \in Links : s \in f.links[l].claims => f.links[l].engEnd /\ f.links[l].authed
    BY <1>2, EngineFacts DEF Sound, Linkage
  <2>3. Engine.socks[s].st # "unused"
    BY <1>1, EngineFacts
  <2> QED BY <1>2, <1>3, <2>1, <2>2, <2>3, EngineFacts, MovesSound
<1>5. \A k \in Links : LinkServed(f, k)
  BY <1>2 DEF LinkServed
<1>6. Moves(f, f, s)
  BY <1>3 DEF Moves, LinkKept
<1>7. used' \in [faults : 0 .. MaxFaults, cmds : 0 .. MaxCmds]
  BY <1>1, SpendKeeps
<1>8. ClaimsKept
  BY <1>1, <1>2 DEF ClaimsKept, Lost, Becomes
<1> QED BY <1>1, <1>3, <1>4, <1>5, <1>6, <1>7, <1>8, ToldKeeps

\* The socket closes, and so do the claims on it.
LEMMA SocketDiesKeeps == ASSUME IInv, NEW s \in Socks, SocketDies(s) PROVE IInv' /\ ClaimsKept
<1> DEFINE u == [NoSock EXCEPT !.st = "closed", !.dest = socks[s].dest]
           e == IF socks[s].quiet THEN Engine ELSE Sent(Engine, socks[s].sink, Op("closed"))
           S == [e.socks EXCEPT ![s] = u]
           c == IF e.cur = s THEN 0 ELSE e.cur
           g == [[e EXCEPT !.cur = c] EXCEPT !.socks = S]
           f == Unclaimed(g, s)
<1>1. /\ socks[s] \in Sock /\ socks[s].st \in {"dialing", "open"} /\ UNCHANGED <<apps, row>>
      /\ Becomes(Unclaimed([e EXCEPT !.cur = IF @ = s THEN 0 ELSE @, !.socks[s] = u], s))
  BY EngineFacts DEF SocketDies
<1>2. used' \in [faults : 0 .. MaxFaults, cmds : 0 .. MaxCmds]
  BY SpendKeeps, EngineFacts DEF SocketDies
<1>3. u \in Sock /\ u.st = "closed" /\ ~u.reg /\ u.sink = 0
  BY <1>1 DEF NoSock, Sock
<1>4. /\ Moves(Engine, e, s) /\ e.socks = socks
      /\ \A k \in Links : e.links[k].claims = links[k].claims
  <2>1. socks[s].sink \in Links \union {0}
    BY <1>1 DEF Sock
  <2>2. socks[s].sink \in Links => links[socks[s].sink].authed
    BY EngineFacts DEF Sound, OneClaim, Linkage
  <2>3. Op("closed") \in ToApp
    BY DEF Op, ToApp
  <2>4. Moves(Engine, Engine, s)
    BY EngineFacts DEF Moves, LinkKept
  <2> QED BY <2>1, <2>2, <2>3, <2>4, EngineFacts, SentMoves
<1> HIDE DEF u, e
<1>5. e \in Eng /\ e.cur = cur /\ Sound(e)
  BY <1>4, EngineFacts, SaidSound DEF Moves
<1>6. [e EXCEPT !.cur = IF @ = s THEN 0 ELSE @, !.socks[s] = u] = g
  BY <1>5 DEF Eng
<1>7. S \in [Socks -> Sock] /\ S[s] = u /\ \A x \in Socks \ {s} : S[x] = socks[x]
  BY <1>3, <1>4, <1>5 DEF Eng
<1>8. c \in Socks \union {0} /\ c # s /\ (c = cur \/ c = 0)
  BY <1>5, EngineFacts, ClaimConstants DEF Socks
<1> HIDE DEF S, c
<1>9. g \in Eng /\ g.cur = c /\ g.links = e.links /\ g.socks = S
  <2>1. /\ [e EXCEPT !.cur = c] \in Eng /\ [e EXCEPT !.cur = c].cur = c
        /\ [e EXCEPT !.cur = c].links = e.links
    BY <1>5, <1>8, ClaimConstants DEF Eng, Full, Socks
  <2> QED BY <1>7, <2>1, EngSocks
<1> HIDE DEF g
<1>10. /\ Moves(g, f, s) /\ f.socks = S
       /\ \A l \in Links : f.links[l].claims = e.links[l].claims \ {s}
  BY <1>9, UnclaimedMoves
<1>11. Becomes(f)
  BY <1>1, <1>6
<1> HIDE DEF f
<1>12. \A l \in Links : LinkKept(Engine, e, s, l) /\ LinkKept(g, f, s, l)
  BY <1>4, <1>10 DEF Moves
<1>13. f \in Eng /\ f.cur = c
  BY <1>9, <1>10 DEF Moves
<1>14. Linkage(f)
  <2> SUFFICES ASSUME NEW l \in Links
               PROVE  /\ f.links[l].engEnd => f.links[l].owner # 0
                      /\ f.links[l].claims # {} => f.links[l].engEnd /\ f.links[l].authed
                      /\ f.links[l].toApp # <<>> /\ f.links[l].engEnd => f.links[l].authed
    BY DEF Linkage
  <2>1. LinkKept(g, f, s, l) /\ g.links = e.links
    BY <1>9, <1>12
  <2>2. f.links[l].claims \subseteq e.links[l].claims
    BY <1>10
  <2> QED BY <1>5, <2>1, <2>2 DEF Sound, Linkage, LinkKept
<1>15. Life(f)
  <2>1. Life(Engine) /\ Engine.socks = socks /\ Engine.cur = cur
    BY EngineFacts DEF Sound
  <2>2. c \in Socks => socks[c].st \in {"dialing", "open"} /\ S[c] = socks[c]
    BY <1>7, <1>8, <2>1, ClaimConstants DEF Life, Socks
  <2>3. ASSUME NEW x \in Socks
        PROVE  /\ S[x].st = "unused" => S[x] = NoSock
               /\ S[x].reg => S[x].driven /\ S[x].st = "open"
    <3>1. CASE x = s
      BY <1>3, <1>7, <3>1
    <3>2. CASE x # s
      BY <1>7, <2>1, <3>2 DEF Life
    <3> QED BY <3>1, <3>2
  <2> QED BY <1>10, <1>13, <2>2, <2>3 DEF Life
<1>16. ASSUME NEW x \in Socks PROVE OneClaim(f, x)
  <2>1. \A l \in Links : x \in e.links[l].claims <=> socks[x].sink = l
    BY <1>4, <1>5 DEF Sound, OneClaim
  <2>2. \A l \in Links : l # 0
    BY ClaimConstants DEF Links
  <2>3. CASE x = s
    BY <1>3, <1>7, <1>10, <2>2, <2>3 DEF OneClaim
  <2>4. CASE x # s
    <3>1. f.socks[x] = socks[x]
      BY <1>7, <1>10, <2>4
    <3>2. \A l \in Links : x \in f.links[l].claims <=> x \in e.links[l].claims
      BY <1>10, <2>4
    <3> QED BY <2>1, <3>1, <3>2 DEF OneClaim
  <2> QED BY <2>3, <2>4
<1>17. FirstUsed(f, Used)
  BY <1>1, <1>3, <1>7, <1>10, EngineFacts DEF FirstUsed
<1>18. ASSUME NEW l \in Links PROVE LinkServed(f, l)
  BY <1>9, <1>12, EngineFacts DEF LinkKept, LinkServed
<1>19. Moves(f, f, s)
  BY <1>13 DEF Moves, LinkKept
<1>20. Sound(f)
  BY <1>14, <1>15, <1>16 DEF Sound
<1>21. ClaimsKept
  <2>1. links' = f.links /\ socks' = S
    BY <1>10, <1>11 DEF Becomes
  <2>2. \A l \in Links : f.links[l].claims = links[l].claims \ {s}
    BY <1>4, <1>10
  <2> QED BY <1>3, <1>7, <2>1, <2>2 DEF ClaimsKept, Lost
<1> QED BY <1>1, <1>2, <1>8, <1>11, <1>13, <1>17, <1>18, <1>19, <1>20, <1>21, ToldKeeps

\* A step of the engine keeps the invariant and, when it reads nothing, every claim.
LEMMA EngineKeeps ==
    ASSUME IInv, EngineStep
    PROVE  IInv' /\ (ClaimsKept \/ \E l \in Links : EngineReads(l))
<1>1. ASSUME NEW l \in Links, EngineSeesEOF(l) PROVE IInv' /\ ClaimsKept
  BY <1>1, LetGoKeeps, EngineFacts DEF EngineSeesEOF
<1>2. ASSUME NEW l \in Links, EngineDropsLink(l) PROVE IInv' /\ ClaimsKept
  BY <1>2, LetGoKeeps, SpendKeeps DEF EngineDropsLink
<1> QED BY <1>1, <1>2, EngineReadsKeeps, OpensKeeps, RegistersKeeps, SocketDiesKeeps,
           OrphanReapedKeeps DEF EngineStep

-----------------------------------------------------------------------------
(* Steps of the processes and of the user.                                 *)

\* A link that is not authenticated has its hello still to be read.
HelloFirst(k) ==
    k.engEnd /\ ~k.authed /\ k.toEng # <<>> => Head(k.toEng).op = "hello"

\* A step of process a at its own link, or at the first link nobody opened yet.
LEMMA OneLinkKeeps ==
    ASSUME IInv, NEW a \in Apps, NEW l \in Links, NEW k \in Link, NEW p \in Process,
           links[l].owner \in {a, 0}, links[l].owner = 0 => l = Linked + 1,
           k.owner = a, k.claims = links[l].claims,
           k.claims # {} => k.engEnd /\ k.authed,
           k.toApp # <<>> /\ k.engEnd => k.authed,
           HelloFirst(k),
           Sane(p), p.st = "up" => p.link = l, p.st # "up" => p.ph = "none" /\ ~p.ready,
           p.ready => k.appEnd /\ (k.engEnd => k.authed),
           links' = [links EXCEPT ![l] = k], apps' = [apps EXCEPT ![a] = p],
           UNCHANGED <<cur, socks>>, row' \in Dests,
           used' \in [faults : 0 .. MaxFaults, cmds : 0 .. MaxCmds]
    PROVE  IInv' /\ ClaimsKept
<1>1. /\ links' \in [Links -> Link] /\ links'[l] = k
      /\ \A j \in Links \ {l} : links'[j] = links[j]
  BY EngineFacts
<1>2. /\ apps' \in [Apps -> Process] /\ apps'[a] = p
      /\ \A b \in Apps \ {a} : apps'[b] = apps[b]
  BY DEF IInv, RestSound
<1>3. a # 0 /\ a \in Int
  BY ClaimConstants DEF Apps
<1>4. \A j \in Links : links'[j].claims = links[j].claims
  BY <1>1
<1>5. EngineSound'
  <2>1. /\ Engine'.cur = cur /\ Engine'.socks = socks /\ Engine'.links = links'
        /\ Engine' \in Eng
    BY <1>1, EngineFacts DEF Engine, Eng
  <2>2. Linkage(Engine')
    <3> SUFFICES ASSUME NEW j \in Links
                 PROVE  /\ links'[j].engEnd => links'[j].owner # 0
                        /\ links'[j].claims # {} => links'[j].engEnd /\ links'[j].authed
                        /\ links'[j].toApp # <<>> /\ links'[j].engEnd => links'[j].authed
      BY <2>1 DEF Linkage
    <3>1. CASE j = l
      BY <1>1, <1>3, <3>1
    <3>2. CASE j # l
      BY <1>1, <3>2, EngineFacts DEF Sound, Linkage
    <3> QED BY <3>1, <3>2
  <2>3. Life(Engine') /\ \A s \in Socks : OneClaim(Engine', s)
    BY <1>4, <2>1, EngineFacts DEF Sound, Life, OneClaim
  <2>4. Used' = Used /\ FirstUsed(Engine', Used)
    BY <2>1, EngineFacts DEF Used, FirstUsed
  <2>5. Sound(Engine)'
    BY <2>2, <2>3 DEF Sound, Linkage, Life, OneClaim
  <2>6. FirstUsed(Engine, Used)'
    BY <2>4 DEF FirstUsed
  <2> QED BY <2>1, <2>4, <2>5, <2>6, EngineFacts DEF EngineSound
<1>6. LinksSound'
  <2>1. Linked \in Nat /\ \A j \in Links : links[j].owner # 0 <=> j <= Linked
    BY DEF IInv, LinksSound
  <2> DEFINE n == IF links[l].owner = 0 THEN l ELSE Linked
  <2>2. n \in Nat /\ \A j \in Links : links'[j].owner # 0 <=> j <= n
    <3>1. CASE links[l].owner = 0
      BY <1>1, <1>3, <2>1, <3>1 DEF Links
    <3>2. CASE links[l].owner # 0
      BY <1>1, <1>3, <2>1, <3>2 DEF Links
    <3> QED BY <3>1, <3>2
  <2> HIDE DEF n
  <2> DEFINE m == IF n <= MaxApps + MaxFaults THEN n ELSE MaxApps + MaxFaults
  <2>3. m \in 0 .. (MaxApps + MaxFaults) /\ \A j \in Links : links'[j].owner # 0 <=> j <= m
    BY <2>2, ClaimConstants DEF Links
  <2> HIDE DEF m
  <2>4. Linked' = m
    <3> DEFINE L == [links EXCEPT ![l] = k]
    <3>1. \A j \in Links : L[j].owner # 0 <=> j <= m
      BY <2>3
    <3> HIDE DEF L
    <3>2. Cardinality({j \in Links : L[j].owner # 0}) = m
      BY <2>3, <3>1, LinkedIs
    <3> QED BY <3>2 DEF Linked, L
  <2>5. ASSUME NEW j \in Links PROVE HelloFirst(links'[j])
    <3>1. CASE j = l
      BY <1>1, <3>1
    <3>2. CASE j # l
      BY <1>1, <3>2 DEF IInv, LinksSound, HelloFirst
    <3> QED BY <3>1, <3>2
  <2> QED BY <2>3, <2>4, <2>5 DEF LinksSound, HelloFirst
<1>7. RestSound'
  BY <1>2 DEF RestSound
<1>8. ASSUME NEW b \in Apps PROVE AppSound(b)'
  <2>1. CASE b = a
    BY <1>1, <1>2, <2>1 DEF AppSound, Sane, Handles
  <2>2. CASE b # a
    <3>1. AppSound(b) /\ apps'[b] = apps[b]
      BY <1>2, <2>2 DEF IInv
    <3>2. apps[b].st = "up" => apps[b].link \in Links \ {l}
      BY <1>3, <2>2, <3>1, ClaimConstants DEF AppSound, Apps
    <3>3. apps[b].st = "up" => links'[apps[b].link] = links[apps[b].link]
      BY <1>1, <3>2
    <3> QED BY <3>1, <3>3 DEF AppSound, Sane, Handles
  <2> QED BY <2>1, <2>2
<1>9. ClaimsKept
  BY <1>4 DEF ClaimsKept, Lost
<1> QED BY <1>5, <1>6, <1>7, <1>8, <1>9 DEF IInv

\* What the links of processes and their frames are, before any step.
LEMMA AppFacts ==
    ASSUME IInv, NEW a \in Apps, Up(a)
    PROVE  LET l == apps[a].link IN
           /\ l \in Links /\ links[l].owner = a /\ links[l] \in Link
           /\ Sane(apps[a]) /\ apps[a] \in Process /\ apps[a].st = "up"
           /\ apps[a].ready => links[l].appEnd /\ (links[l].engEnd => links[l].authed)
           /\ links[l].claims # {} => links[l].engEnd /\ links[l].authed
           /\ links[l].toApp # <<>> /\ links[l].engEnd => links[l].authed
           /\ HelloFirst(links[l])
           /\ row \in Dests /\ apps \in [Apps -> Process]
<1>1. AppSound(a) /\ apps[a].st = "up" /\ row \in Dests /\ apps \in [Apps -> Process]
  BY DEF IInv, RestSound, Up
<1>2. apps[a].link \in Links /\ links[apps[a].link] \in Link
  BY <1>1, EngineFacts DEF AppSound
<1>3. Linkage(Engine) /\ Engine.links = links
  BY EngineFacts DEF Sound
<1>4. HelloFirst(links[apps[a].link])
  BY <1>2 DEF IInv, LinksSound, HelloFirst
<1> QED BY <1>1, <1>2, <1>3, <1>4 DEF AppSound, Sane, Linkage

\* A process's step writes its frames behind those it wrote before.
LEMMA TakesKeeps ==
    ASSUME IInv, NEW a \in Apps, Up(a), NEW k \in Link,
           k.owner = links[apps[a].link].owner, k.appEnd = links[apps[a].link].appEnd,
           k.engEnd = links[apps[a].link].engEnd, k.authed = links[apps[a].link].authed,
           k.toEng = links[apps[a].link].toEng, k.claims = links[apps[a].link].claims,
           k.toApp # <<>> => links[apps[a].link].toApp # <<>>,
           NEW r, r.st = "up", r.link = apps[a].link,
           r.ready => k.appEnd /\ (k.engEnd => k.authed),
           NEW x, Takable(r, x), Takes(a, x, [links EXCEPT ![apps[a].link] = k]),
           UNCHANGED <<cur, socks>>, row' \in Dests,
           used' \in [faults : 0 .. MaxFaults, cmds : 0 .. MaxCmds]
    PROVE  IInv' /\ ClaimsKept
<1> DEFINE l == apps[a].link
           j == IF k.engEnd THEN [k EXCEPT !.toEng = @ \o x.out] ELSE k
<1>1. /\ l \in Links /\ links[l].owner = a /\ links \in [Links -> Link]
      /\ links[l].claims # {} => links[l].engEnd /\ links[l].authed
      /\ links[l].toApp # <<>> /\ links[l].engEnd => links[l].authed
      /\ HelloFirst(links[l])
  BY AppFacts, EngineFacts
<1>2. /\ Sane(x.p) /\ x.p \in Process /\ x.p.st = "up" /\ x.p.link = l
      /\ x.p.ready = r.ready /\ x.out \in Seq(Asked) /\ (x.out # <<>> => r.ready)
  BY DEF Takable, Sane
<1>3. k.toEng \o x.out \in Seq(ToEng)
  <2>1. k.toEng \in Seq(ToEng)
    BY DEF Link
  <2>2. x.out \in Seq(ToEng)
    BY <1>2 DEF ToEng
  <2> QED BY <2>1, <2>2
<1>4. /\ j \in Link /\ j.owner = k.owner /\ j.appEnd = k.appEnd /\ j.engEnd = k.engEnd
      /\ j.authed = k.authed /\ j.claims = k.claims /\ j.toApp = k.toApp
      /\ j.engEnd => j.toEng = k.toEng \o x.out
  BY <1>3 DEF Link
<1>5. links' = [links EXCEPT ![l] = j] /\ apps' = [apps EXCEPT ![a] = x.p]
  BY <1>1 DEF Takes
<1> HIDE DEF j
<1>6. HelloFirst(j)
  <2>1. CASE x.out = <<>>
    <3>1. k.toEng \o x.out = k.toEng
      BY <2>1 DEF Link
    <3> QED BY <1>1, <1>4, <3>1 DEF HelloFirst
  <2>2. CASE x.out # <<>>
    BY <1>2, <1>4, <2>2 DEF HelloFirst
  <2> QED BY <2>1, <2>2
<1>7. a # 0
  BY ClaimConstants DEF Apps
<1> QED BY <1>1, <1>2, <1>4, <1>5, <1>6, <1>7, OneLinkKeeps

\* The same, of a process that has read nothing.
LEMMA AsksKeeps ==
    ASSUME IInv, NEW a \in Apps, Up(a), NEW x, Takable(apps[a], x), Takes(a, x, links),
           UNCHANGED <<cur, socks>>, row' \in Dests,
           used' \in [faults : 0 .. MaxFaults, cmds : 0 .. MaxCmds]
    PROVE  IInv' /\ ClaimsKept
<1> DEFINE k == links[apps[a].link]
<1>1. k \in Link /\ [links EXCEPT ![apps[a].link] = k] = links
  BY AppFacts, EngineFacts
<1>2. /\ apps[a].st = "up"
      /\ apps[a].ready => k.appEnd /\ (k.engEnd => k.authed)
  BY AppFacts
<1>3. Takes(a, x, [links EXCEPT ![apps[a].link] = k])
  BY <1>1
<1> HIDE DEF k
<1>4. k = links[apps[a].link]
  BY DEF k
<1> QED BY <1>1, <1>2, <1>3, <1>4, TakesKeeps

\* A process reads a frame.
LEMMA AppReadsKeeps == ASSUME IInv, NEW a \in Apps, AppReads(a) PROVE IInv' /\ ClaimsKept
<1> DEFINE l == apps[a].link
           f == Head(links[l].toApp)
           k == [links[l] EXCEPT !.toApp = Tail(@)]
           r == [apps[a] EXCEPT !.ready = @ \/ f.op = "hello"]
           x == Reads(apps[a], f)
<1>1. /\ Up(a) /\ links[l].appEnd /\ links[l].toApp # <<>>
      /\ Takes(a, x, [links EXCEPT ![l].toApp = Tail(@)])
      /\ UNCHANGED <<cur, socks, row, used>>
  BY DEF AppReads
<1>2. /\ l \in Links /\ links[l] \in Link /\ Sane(apps[a]) /\ apps[a] \in Process
      /\ apps[a].st = "up" /\ row \in Dests
      /\ apps[a].ready => links[l].appEnd /\ (links[l].engEnd => links[l].authed)
      /\ links[l].toApp # <<>> /\ links[l].engEnd => links[l].authed
  BY <1>1, AppFacts
<1>3. links[l].toApp \in Seq(ToApp)
  BY <1>2 DEF Link
<1>4. f \in ToApp /\ Tail(links[l].toApp) \in Seq(ToApp)
  BY <1>1, <1>3
<1>5. /\ k \in Link /\ k.owner = links[l].owner /\ k.appEnd = links[l].appEnd
      /\ k.engEnd = links[l].engEnd /\ k.authed = links[l].authed
      /\ k.toEng = links[l].toEng /\ k.claims = links[l].claims
  BY <1>2, <1>4 DEF Link
<1>6. [links EXCEPT ![l].toApp = Tail(@)] = [links EXCEPT ![l] = k]
  BY <1>2, EngineFacts
<1>7. Takable(r, x)
  BY <1>2, <1>4, ReadsTakable
<1>8. r.st = "up" /\ r.link = l /\ (r.ready => k.appEnd /\ (k.engEnd => k.authed))
  BY <1>1, <1>2, <1>5 DEF Process
<1>9. row' \in Dests /\ used' \in [faults : 0 .. MaxFaults, cmds : 0 .. MaxCmds]
  BY <1>1, <1>2, EngineFacts
<1> HIDE DEF k, r, x
<1> QED BY <1>1, <1>5, <1>6, <1>7, <1>8, <1>9, TakesKeeps

\* The link after the last one opened exists, and belongs to nobody.
LEMMA FreshLink ==
    ASSUME IInv, LinkLeft
    PROVE  Linked + 1 \in Links /\ links[Linked + 1].owner = 0
<1>1. /\ Linked \in Nat /\ \A j \in Links : links[j].owner # 0 <=> j <= Linked
  BY DEF IInv, LinksSound
<1>2. Cardinality(Links) = MaxApps + MaxFaults
  <2>1. 1 \in Int /\ MaxApps + MaxFaults \in Nat
    BY ClaimConstants
  <2>2. Cardinality(1 .. (MaxApps + MaxFaults))
          = IF 1 > MaxApps + MaxFaults THEN 0 ELSE (MaxApps + MaxFaults) - 1 + 1
    BY <2>1, FS_Interval
  <2> QED BY <2>1, <2>2 DEF Links
<1> QED BY <1>1, <1>2, ClaimConstants DEF LinkLeft, Links

\* The link a process opens is the first that nobody has; it starts with its hello.
LEMMA OpenedKeeps ==
    ASSUME IInv, NEW a \in Apps, LinkLeft, NEW p \in Process, Sane(p), p.st = "up",
           p.link = Linked + 1, ~p.ready, apps' = [apps EXCEPT ![a] = p],
           links' = Opened(a, Linked + 1), UNCHANGED <<cur, socks, row, used>>
    PROVE  IInv' /\ ClaimsKept
<1> DEFINE h == <<Op("hello")>>
           k == [NoLink EXCEPT !.owner = a, !.appEnd = TRUE, !.engEnd = TRUE, !.toEng = h]
           l == Linked + 1
<1>3. l \in Links /\ links[l].owner = 0
  BY FreshLink
<1>4. Linkage(Engine) /\ Engine.links = links
  BY EngineFacts DEF Sound
<1>5. links[l].claims = {}
  BY <1>3, <1>4 DEF Linkage
<1>6. h \in Seq(ToEng) /\ (h # <<>> => Head(h).op = "hello")
  <2>1. Op("hello") \in ToEng /\ Op("hello").op = "hello"
    BY DEF Op, ToEng
  <2> QED BY <2>1
<1>9. links' = [links EXCEPT ![l] = k]
  BY DEF Opened
<1> HIDE DEF h
<1>7. k \in Link /\ k.owner = a /\ k.claims = {} /\ k.toApp = <<>> /\ k.toEng = h
  <2>1. NoLink \in Link /\ NoLink.claims = {} /\ NoLink.toApp = <<>>
    BY DEF NoLink, Link
  <2> QED BY <1>6, <2>1 DEF Link
<1>8. HelloFirst(k)
  BY <1>6, <1>7 DEF HelloFirst
<1>10. row' \in Dests /\ used' \in [faults : 0 .. MaxFaults, cmds : 0 .. MaxCmds]
  BY EngineFacts DEF IInv, RestSound
<1> HIDE DEF k, l
<1>11. l = Linked + 1
  BY DEF l
<1> QED BY <1>3, <1>5, <1>7, <1>8, <1>9, <1>10, <1>11, OneLinkKeeps

\* startEngineLink, initAll.
LEMMA BootKeeps == ASSUME IInv, NEW a \in Apps, Boot(a) PROVE IInv' /\ ClaimsKept
<1>1. PICK ph \in {"none", "queued"} :
         apps' = [apps EXCEPT ![a] = [NoApp EXCEPT !.st = "up", !.link = Linked + 1,
                                                   !.ph = ph, !.dest = row]]
  BY DEF Boot
<1> DEFINE p == [NoApp EXCEPT !.st = "up", !.link = Linked + 1, !.ph = ph, !.dest = row]
<1>2. LinkLeft /\ links' = Opened(a, Linked + 1) /\ UNCHANGED <<cur, socks, row, used>>
  BY DEF Boot
<1>3. Linked + 1 \in Links
  BY <1>2, FreshLink
<1>4. row \in Dests
  BY DEF IInv, RestSound
<1>5. p \in Process /\ Sane(p) /\ p.st = "up" /\ p.link = Linked + 1 /\ ~p.ready
  BY <1>3, <1>4 DEF NoApp, Process, Phases, Settings, Sane, Handles, Asking
<1> HIDE DEF p
<1> QED BY <1>1, <1>2, <1>5, OpenedKeeps DEF p

\* A lost link is dialed again.
LEMMA RelinkKeeps == ASSUME IInv, NEW a \in Apps, Relink(a) PROVE IInv' /\ ClaimsKept
<1> DEFINE p == [apps[a] EXCEPT !.link = Linked + 1]
<1>1. /\ Up(a) /\ LinkLeft /\ links' = Opened(a, Linked + 1) /\ ~links[apps[a].link].appEnd
      /\ UNCHANGED <<cur, socks, row, used>>
  BY DEF Relink
<1>2. /\ Sane(apps[a]) /\ apps[a] \in Process /\ apps[a].st = "up" /\ ~apps[a].ready
      /\ apps \in [Apps -> Process]
  BY <1>1, AppFacts
<1>3. Linked + 1 \in Links
  BY <1>1, FreshLink
<1>4. p \in Process /\ Sane(p) /\ p.st = "up" /\ p.link = Linked + 1 /\ ~p.ready
  BY <1>2, <1>3 DEF Process, Sane, Handles
<1>5. apps' = [apps EXCEPT ![a] = p]
  BY <1>2 DEF Relink
<1> HIDE DEF p
<1>6. p.link = Linked + 1
  BY <1>4
<1> QED BY <1>1, <1>4, <1>5, OpenedKeeps

\* A queued launch or a retry.
LEMMA LaunchKeeps == ASSUME IInv, NEW a \in Apps, Launch(a) PROVE IInv' /\ ClaimsKept
<1> DEFINE q == [apps[a] EXCEPT !.ph = "none"]
<1>1. Up(a) /\ UNCHANGED <<cur, socks, row, used>>
  BY DEF Launch
<1>2. Sane(apps[a]) /\ apps[a] \in Process /\ row \in Dests
  BY <1>1, AppFacts
<1>3. Sane(q) /\ q.st = apps[a].st /\ q.link = apps[a].link /\ q.ready = apps[a].ready
  BY <1>2 DEF Sane, Process, Phases, Handles, Asking
<1>4. Takable(apps[a], Dial(apps[a])) /\ Takable(apps[a], Step(q, <<>>))
  BY <1>2, <1>3, DialTakable, QuietStep
<1>5. Takes(a, Dial(apps[a]), links) \/ Takes(a, Step(q, <<>>), links)
  BY DEF Launch
<1>6. row' \in Dests /\ used' \in [faults : 0 .. MaxFaults, cmds : 0 .. MaxCmds]
  BY <1>1, <1>2, EngineFacts
<1> HIDE DEF q
<1> QED BY <1>1, <1>4, <1>5, <1>6, AsksKeeps

\* A process's link as it leaves it when it only changes itself.
LEMMA AloneKeeps ==
    ASSUME IInv, NEW a \in Apps, Up(a), NEW p \in Process, Sane(p), p.st = "up",
           p.link = apps[a].link, p.ready = apps[a].ready, apps' = [apps EXCEPT ![a] = p],
           UNCHANGED <<cur, socks, links>>, row' \in Dests,
           used' \in [faults : 0 .. MaxFaults, cmds : 0 .. MaxCmds]
    PROVE  IInv' /\ ClaimsKept
<1> DEFINE l == apps[a].link
           k == links[l]
<1>1. /\ l \in Links /\ k.owner = a /\ k \in Link
      /\ apps[a].ready => k.appEnd /\ (k.engEnd => k.authed)
      /\ k.claims # {} => k.engEnd /\ k.authed
      /\ k.toApp # <<>> /\ k.engEnd => k.authed
      /\ HelloFirst(k)
  BY AppFacts
<1>2. links' = [links EXCEPT ![l] = k]
  BY EngineFacts
<1>3. a # 0
  BY ClaimConstants DEF Apps
<1> HIDE DEF k
<1>4. k = links[l]
  BY DEF k
<1> QED BY <1>1, <1>2, <1>3, <1>4, OneLinkKeeps

\* The link or the answer took too long.
LEMMA TimesOutKeeps == ASSUME IInv, NEW a \in Apps, TimesOut(a) PROVE IInv' /\ ClaimsKept
<1> DEFINE p == [apps[a] EXCEPT !.ph = "backoff"]
<1>1. Up(a) /\ UNCHANGED <<cur, socks, links, row>>
  BY DEF TimesOut
<1>2. Sane(apps[a]) /\ apps[a] \in Process /\ row \in Dests /\ apps[a].st = "up"
  BY <1>1, AppFacts
<1>3. /\ p \in Process /\ Sane(p) /\ p.st = "up" /\ p.link = apps[a].link
      /\ p.ready = apps[a].ready
  BY <1>2 DEF Sane, Process, Phases, Handles, Asking
<1>4. apps' = [apps EXCEPT ![a] = p]
  BY <1>1, AppFacts DEF TimesOut
<1>5. used' \in [faults : 0 .. MaxFaults, cmds : 0 .. MaxCmds]
  BY SpendKeeps DEF TimesOut
<1> HIDE DEF p
<1> QED BY <1>1, <1>2, <1>3, <1>4, <1>5, AloneKeeps

\* What the engine can still read of a link starts as what was written did.
LEMMA PrefixStarts ==
    ASSUME NEW T, NEW s \in Seq(T), NEW left \in PrefixesOf(s) \union {s}
    PROVE  left \in Seq(T) /\ (left # <<>> => s # <<>> /\ Head(left) = Head(s))
<1>1. CASE left = s
  BY <1>1
<1>2. CASE left \in PrefixesOf(s)
  <2>1. PICK n \in 0 .. Len(s) : left = SubSeq(s, 1, n)
    BY <1>2 DEF PrefixesOf
  <2>2. left \in Seq(T) /\ Len(left) = n /\ \A x \in 1 .. n : left[x] = s[x]
    BY <2>1
  <2> QED BY <2>1, <2>2
<1> QED BY <1>1, <1>2

\* A process's link is cut; it goes on, or it is gone.
LEMMA SeveredKeeps ==
    ASSUME IInv, NEW a \in Apps, Up(a), NEW left \in Seq(ToEng),
           left # <<>> => \/ /\ links[apps[a].link].toEng # <<>>
                             /\ Head(left) = Head(links[apps[a].link].toEng)
                          \/ apps[a].ready,
           links' = [links EXCEPT ![apps[a].link] =
                       [links[apps[a].link] EXCEPT !.appEnd = FALSE, !.toApp = <<>>,
                                                   !.toEng = left]],
           NEW p \in Process, Sane(p), ~p.ready,
           \/ p.st = "up" /\ p.link = apps[a].link
           \/ p.st # "up" /\ p.ph = "none",
           apps' = [apps EXCEPT ![a] = p], UNCHANGED <<cur, socks, row>>,
           used' \in [faults : 0 .. MaxFaults, cmds : 0 .. MaxCmds]
    PROVE  IInv' /\ ClaimsKept
<1> DEFINE l == apps[a].link
           k == [links[l] EXCEPT !.appEnd = FALSE, !.toApp = <<>>, !.toEng = left]
<1>1. /\ l \in Links /\ links[l].owner = a /\ links[l] \in Link
      /\ apps[a].ready => (links[l].engEnd => links[l].authed)
      /\ links[l].claims # {} => links[l].engEnd /\ links[l].authed
      /\ HelloFirst(links[l]) /\ row \in Dests
  BY AppFacts
<1>2. <<>> \in Seq(ToApp)
  OBVIOUS
<1>3. /\ k \in Link /\ k.owner = links[l].owner /\ k.engEnd = links[l].engEnd
      /\ k.authed = links[l].authed /\ k.claims = links[l].claims /\ k.toApp = <<>>
      /\ k.toEng = left
  BY <1>1, <1>2 DEF Link
<1>4. links' = [links EXCEPT ![l] = k]
  OBVIOUS
<1> HIDE DEF k
<1>5. HelloFirst(k)
  BY <1>1, <1>3 DEF HelloFirst
<1>6. a # 0
  BY ClaimConstants DEF Apps
<1> HIDE DEF l
<1>7. p.st = "up" => p.link = l
  BY DEF l
<1>8. k.claims # {} => k.engEnd /\ k.authed
  BY <1>1, <1>3
<1>9. row' \in Dests /\ UNCHANGED <<cur, socks>>
  BY <1>1
<1>10. p.st # "up" => p.ph = "none"
  OBVIOUS
<1>11. links[l].owner \in {a, 0} /\ links[l].owner # 0 /\ k.owner = a /\ k.toApp = <<>>
  BY <1>1, <1>3, <1>6
<1> QED BY <1>1, <1>3, <1>4, <1>5, <1>7, <1>8, <1>9, <1>10, <1>11, OneLinkKeeps

\* The link goes, the process goes on.
LEMMA LinkLostKeeps == ASSUME IInv, NEW a \in Apps, LinkLost(a) PROVE IInv' /\ ClaimsKept
<1> DEFINE l == apps[a].link
           ph == CASE apps[a].ph = "connected" -> "relink"
                   [] apps[a].ph \in Asking    -> "waiting"
                   [] OTHER                    -> apps[a].ph
           p == [apps[a] EXCEPT !.ready = FALSE, !.sock = 0, !.ph = ph]
<1>1. Up(a) /\ Severed(l, Lossy) /\ apps' = [apps EXCEPT ![a] = p]
      /\ UNCHANGED <<cur, socks, row>>
  BY DEF LinkLost
<1>2. /\ Sane(apps[a]) /\ apps[a] \in Process /\ apps[a].st = "up" /\ l \in Links
      /\ links[l] \in Link
  BY <1>1, AppFacts
<1>3. PICK left \in PrefixesOf(links[l].toEng) \union {links[l].toEng} :
         links' = [links EXCEPT ![l] = [links[l] EXCEPT !.appEnd = FALSE, !.toApp = <<>>,
                                                        !.toEng = left]]
  BY <1>1, <1>2, EngineFacts DEF Severed
<1>4. links[l].toEng \in Seq(ToEng)
  BY <1>2 DEF Link
<1>5. /\ left \in Seq(ToEng)
      /\ left # <<>> => links[l].toEng # <<>> /\ Head(left) = Head(links[l].toEng)
  BY <1>4, PrefixStarts
<1>6. ph \in Phases \ (Asking \union {"connected"})
  BY <1>2 DEF Process, Phases, Asking
<1> HIDE DEF ph
<1>7. p \in Process /\ Sane(p) /\ ~p.ready /\ p.st = "up" /\ p.link = apps[a].link
  BY <1>2, <1>6 DEF Sane, Process, Handles
<1>8. used' \in [faults : 0 .. MaxFaults, cmds : 0 .. MaxCmds]
  BY SpendKeeps, EngineFacts DEF LinkLost
<1> HIDE DEF p
<1> QED BY <1>1, <1>3, <1>5, <1>7, <1>8, SeveredKeeps

\* A process that is gone waits for nothing.
LEMMA GoneSane == Gone \in Process /\ Sane(Gone) /\ ~Gone.ready /\ Gone.st # "up" /\ Gone.ph = "none"
  BY DEF Gone, NoApp, Process, Phases, Settings, Sane, Handles, Asking

\* The process dies.
LEMMA CrashKeeps == ASSUME IInv, NEW a \in Apps, Crash(a) PROVE IInv' /\ ClaimsKept
<1> DEFINE l == apps[a].link
<1>1. Up(a) /\ Severed(l, TRUE) /\ apps' = [apps EXCEPT ![a] = Gone]
      /\ UNCHANGED <<cur, socks, row>>
  BY DEF Crash
<1>2. l \in Links /\ links[l] \in Link
  BY <1>1, AppFacts
<1>3. PICK left \in PrefixesOf(links[l].toEng) \union {links[l].toEng} :
         links' = [links EXCEPT ![l] = [links[l] EXCEPT !.appEnd = FALSE, !.toApp = <<>>,
                                                        !.toEng = left]]
  BY <1>1, <1>2, EngineFacts DEF Severed
<1>4. links[l].toEng \in Seq(ToEng)
  BY <1>2 DEF Link
<1>5. /\ left \in Seq(ToEng)
      /\ left # <<>> => links[l].toEng # <<>> /\ Head(left) = Head(links[l].toEng)
  BY <1>4, PrefixStarts
<1>6. used' \in [faults : 0 .. MaxFaults, cmds : 0 .. MaxCmds]
  BY SpendKeeps DEF Crash
<1> QED BY <1>1, <1>3, <1>5, <1>6, GoneSane, SeveredKeeps

\* The process detaches and goes.
LEMMA ShutdownKeeps == ASSUME IInv, NEW a \in Apps, Shutdown(a) PROVE IInv' /\ ClaimsKept
<1> DEFINE l == apps[a].link
           left == IF apps[a].ph = "connected" /\ links[l].engEnd
                   THEN Append(links[l].toEng, Op("detach")) ELSE links[l].toEng
<1>1. Up(a) /\ apps' = [apps EXCEPT ![a] = Gone] /\ UNCHANGED <<cur, socks, row, used>>
  BY DEF Shutdown
<1>2. /\ l \in Links /\ links[l] \in Link
      /\ apps[a].ph = "connected" => apps[a].ready
  BY <1>1, AppFacts DEF Sane, Handles
<1>3. links[l].toEng \in Seq(ToEng) /\ Op("detach") \in ToEng
  BY <1>2 DEF Link, Op, ToEng, Asked
<1>4. /\ left \in Seq(ToEng)
      /\ apps[a].ready \/ left = links[l].toEng
  BY <1>2, <1>3
<1>5. links' = [links EXCEPT ![l] = [links[l] EXCEPT !.appEnd = FALSE, !.toApp = <<>>,
                                                     !.toEng = left]]
  BY DEF Shutdown
<1> HIDE DEF left
<1>6. used' \in [faults : 0 .. MaxFaults, cmds : 0 .. MaxCmds]
  BY <1>1, EngineFacts
<1> QED BY <1>1, <1>4, <1>5, <1>6, GoneSane, SeveredKeeps

\* Connect.
LEMMA UserConnectsKeeps == ASSUME IInv, NEW a \in Apps, UserConnects(a) PROVE IInv' /\ ClaimsKept
<1>1. Up(a) /\ UNCHANGED <<cur, socks, row>> /\ Takes(a, Start(apps[a]), links)
  BY DEF UserConnects
<1>2. Sane(apps[a]) /\ row \in Dests
  BY <1>1, AppFacts
<1>3. Takable(apps[a], Start(apps[a]))
  BY <1>2, StartTakable
<1>4. used' \in [faults : 0 .. MaxFaults, cmds : 0 .. MaxCmds]
  BY SpendKeeps DEF UserConnects
<1> QED BY <1>1, <1>2, <1>3, <1>4, AsksKeeps

\* Disconnect.
LEMMA UserDisconnectsKeeps == ASSUME IInv, NEW a \in Apps, UserDisconnects(a) PROVE IInv' /\ ClaimsKept
<1>1. Up(a) /\ UNCHANGED <<cur, socks, row>> /\ Takes(a, Quit(apps[a]), links)
  BY DEF UserDisconnects
<1>2. Sane(apps[a]) /\ row \in Dests
  BY <1>1, AppFacts
<1>3. Takable(apps[a], Quit(apps[a]))
  BY <1>2, QuitTakable
<1>4. used' \in [faults : 0 .. MaxFaults, cmds : 0 .. MaxCmds]
  BY SpendKeeps DEF UserDisconnects
<1> QED BY <1>1, <1>2, <1>3, <1>4, AsksKeeps

\* restartNetwork.
LEMMA UserReconnectsKeeps == ASSUME IInv, NEW a \in Apps, UserReconnects(a) PROVE IInv' /\ ClaimsKept
<1> DEFINE x == Quit(apps[a])
           q == [x.p EXCEPT !.dest = row']
           y == IF allowed THEN Dial(q) ELSE Step(x.p, <<>>)
           z == Step(y.p, x.out \o y.out)
<1>1. /\ Up(a) /\ UNCHANGED <<cur, socks>> /\ row' \in Dests
      /\ Takes(a, z, links)
  BY DEF UserReconnects, Then
<1>2. Sane(apps[a])
  BY <1>1, AppFacts
<1>3. Takable(apps[a], x)
  BY <1>2, QuitTakable
<1> HIDE DEF x
<1>4. Sane(x.p)
  BY <1>3 DEF Takable
<1>5. Takable(x.p, y)
  <2>1. Sane(q) /\ q.st = x.p.st /\ q.link = x.p.link /\ q.ready = x.p.ready
    BY <1>1, <1>4 DEF Sane, Process, Settings, Handles, Asking
  <2> HIDE DEF q
  <2>2. Takable(q, Dial(q))
    BY <2>1, DialTakable
  <2>3. Takable(x.p, Dial(q))
    BY <2>1, <2>2 DEF Takable
  <2>4. Takable(x.p, Step(x.p, <<>>))
    BY <1>4, QuietStep
  <2> QED BY <2>3, <2>4
<1> HIDE DEF y
<1>6. Takable(apps[a], z)
  BY <1>3, <1>5, ThenTakable
<1>7. used' \in [faults : 0 .. MaxFaults, cmds : 0 .. MaxCmds]
  BY SpendKeeps DEF UserReconnects
<1> HIDE DEF z
<1> QED BY <1>1, <1>6, <1>7, AsksKeeps

\* suspendUser.
LEMMA AccountPausedKeeps == ASSUME IInv, NEW a \in Apps, AccountPaused(a) PROVE IInv' /\ ClaimsKept
<1>1. Up(a) /\ UNCHANGED <<cur, socks, row>>
  BY DEF AccountPaused, Newest
<1>2. Sane(apps[a]) /\ row \in Dests /\ apps[a] \in Process /\ apps \in [Apps -> Process]
  BY <1>1, AppFacts
<1>3. used' \in [faults : 0 .. MaxFaults, cmds : 0 .. MaxCmds]
  BY SpendKeeps DEF AccountPaused
<1>4. CASE UNCHANGED <<apps, links>>
  <2>1. apps' = [apps EXCEPT ![a] = apps[a]]
    BY <1>2, <1>4
  <2>2. apps[a].st = "up"
    BY <1>1 DEF Up
  <2> QED BY <1>1, <1>2, <1>3, <1>4, <2>1, <2>2, AloneKeeps
<1>5. CASE Takes(a, Quit(apps[a]), links)
  BY <1>1, <1>2, <1>3, <1>5, QuitTakable, AsksKeeps
<1> QED BY <1>4, <1>5 DEF AccountPaused

\* The account is un-paused.
LEMMA AccountResumedKeeps == ASSUME IInv, NEW a \in Apps, AccountResumed(a) PROVE IInv' /\ ClaimsKept
<1> DEFINE p == [apps[a] EXCEPT !.dest = row]
           q == [p EXCEPT !.ph = "queued"]
<1>1. Up(a) /\ UNCHANGED <<cur, socks, row>>
  BY DEF AccountResumed, Newest
<1>2. Sane(apps[a]) /\ row \in Dests /\ apps[a] \in Process /\ apps \in [Apps -> Process]
  BY <1>1, AppFacts
<1>3. used' \in [faults : 0 .. MaxFaults, cmds : 0 .. MaxCmds]
  BY SpendKeeps DEF AccountResumed
<1>4. CASE UNCHANGED <<apps, links>>
  <2>1. apps' = [apps EXCEPT ![a] = apps[a]]
    BY <1>2, <1>4
  <2>2. apps[a].st = "up"
    BY <1>1 DEF Up
  <2> QED BY <1>1, <1>2, <1>3, <1>4, <2>1, <2>2, AloneKeeps
<1>5. CASE Takes(a, Dial(p), links) \/ Takes(a, Step(q, <<>>), links)
  <2>1. /\ Sane(p) /\ p.st = apps[a].st /\ p.link = apps[a].link
        /\ p.ready = apps[a].ready
    BY <1>2 DEF Sane, Process, Settings, Handles, Asking
  <2>2. /\ Sane(q) /\ q.st = apps[a].st /\ q.link = apps[a].link
        /\ q.ready = apps[a].ready
    BY <2>1 DEF Sane, Process, Phases, Handles, Asking
  <2> HIDE DEF p, q
  <2>3. Takable(p, Dial(p))
    BY <2>1, DialTakable
  <2>4. Takable(apps[a], Dial(p)) /\ Takable(apps[a], Step(q, <<>>))
    BY <2>1, <2>2, <2>3, QuietStep DEF Takable
  <2> QED BY <1>1, <1>2, <1>3, <1>5, <2>4, AsksKeeps
<1> QED BY <1>4, <1>5 DEF AccountResumed

\* Every step of a process or a user keeps the invariant and every claim.
LEMMA AppStepKeeps == ASSUME IInv, NEW a \in Apps, AppStep(a) \/ UserStep(a) PROVE IInv' /\ ClaimsKept
  BY BootKeeps, AppReadsKeeps, RelinkKeeps, LaunchKeeps, TimesOutKeeps, LinkLostKeeps,
     ShutdownKeeps, CrashKeeps, UserConnectsKeeps, UserDisconnectsKeeps,
     UserReconnectsKeeps, AccountPausedKeeps, AccountResumedKeeps DEF AppStep, UserStep

\* And so does no step.
LEMMA StutterKeeps == ASSUME IInv, UNCHANGED vars PROVE IInv'
<1>1. UNCHANGED <<cur, socks, links, apps, row, used>>
  BY DEF vars
<1>2. UNCHANGED <<Engine, Used, Linked>>
  BY <1>1 DEF Engine, Used, Linked
<1>3. EngineSound'
  BY <1>1, <1>2 DEF IInv, EngineSound, Sound, Linkage, Life, OneClaim, FirstUsed
<1>4. LinksSound'
  BY <1>1, <1>2 DEF IInv, LinksSound
<1>5. RestSound'
  BY <1>1 DEF IInv, RestSound
<1>6. ASSUME NEW a \in Apps PROVE AppSound(a)'
  BY <1>1 DEF IInv, AppSound, Sane, Handles
<1> QED BY <1>3, <1>4, <1>5, <1>6 DEF IInv

-----------------------------------------------------------------------------
(* Theorems.                                                               *)

\* Between two steps of the engine and the processes: every claim is a socket's
\* sink, links say hello first, and a process that is ready has its own open link.
THEOREM InductiveInvariant == Spec => []IInv
<1>1. IInv /\ [Next]_vars => IInv'
  BY EngineKeeps, AppStepKeeps, StutterKeeps DEF Next
<1> QED BY InitInvariant, <1>1, PTL DEF Spec

\* Only an authenticated link claims a socket (server.ts:55-83), only a process
\* with a link waits for its id's frames (EngineLink.register), and only a driven
\* socket registers, for any processes, links, sockets and settings.
THEOREM TypesHold == Spec => []TypeOK
<1>1. IInv => TypeOK
  <2> SUFFICES ASSUME IInv PROVE TypeOK
    OBVIOUS
  <2>1. /\ cur \in Socks \union {0} /\ socks \in [Socks -> Sock]
        /\ links \in [Links -> Link] /\ Sound(Engine)
        /\ Engine.socks = socks /\ Engine.links = links
        /\ used \in [faults : 0 .. MaxFaults, cmds : 0 .. MaxCmds]
    BY EngineFacts
  <2>2. ASSUME NEW s \in Socks
        PROVE  /\ socks[s].st \in {"unused", "dialing", "open", "closed"}
               /\ socks[s].sink \in Links \union {0} /\ socks[s].letGo \in Links \union {0}
               /\ socks[s].reg => socks[s].driven
    BY <2>1 DEF Sock, Sound, Life
  <2>3. ASSUME NEW l \in Links
        PROVE  /\ links[l].owner \in Apps \union {0}
               /\ links[l].claims \subseteq Socks
               /\ links[l].claims # {} => links[l].engEnd /\ links[l].authed
    BY <2>1 DEF Link, Sound, Linkage
  <2>4. ASSUME NEW a \in Apps
        PROVE  /\ apps[a].ph \in Phases
               /\ Handles(apps[a]) => apps[a].ready
               /\ apps[a].ph = "connected" => apps[a].sock \in Socks
    BY DEF IInv, AppSound, Sane, Process
  <2>5. used.faults \in 0 .. MaxFaults /\ used.cmds \in 0 .. MaxCmds
    BY <2>1
  <2> QED BY <2>1, <2>2, <2>3, <2>4, <2>5 DEF TypeOK, Phases
<1> QED BY InductiveInvariant, <1>1, PTL

\* "A claim is exclusive -- every path that adds one strips the previous holder
\* first" (server.ts:174-176): a socket reports to the one link that claims it.
THEOREM ClaimsAreExclusive == Spec => []SinkIsClaimant
<1>1. IInv => SinkIsClaimant
  BY EngineFacts DEF SinkIsClaimant, Sound, OneClaim
<1> QED BY InductiveInvariant, <1>1, PTL

\* What the engine's answer takes away, it takes away by right.
LEMMA ReadsByRight ==
    ASSUME IInv, NEW k \in Links, EngineReads(k), NEW l \in Links, NEW s \in Socks, Lost(l, s)
    PROVE  /\ links[k].toEng # <<>> /\ links'[k].toEng = Tail(links[k].toEng)
           /\ links[k].owner >= links[l].owner \/ AsksElsewhere(k, s)
<1> DEFINE g == [Engine EXCEPT !.links[k].toEng = Tail(@)]
           m == Head(links[k].toEng)
           f == Answer(g, k, m)
<1>1. Answered(g, f, k, m) /\ Becomes(f)
  BY ReadsAnswered
<1>2. links[k].toEng # <<>>
  BY DEF EngineReads
<1>3. /\ g.socks = socks
      /\ \A j \in Links : g.links[j].owner = links[j].owner /\ g.links[j].claims = links[j].claims
      /\ g.links[k].toEng = Tail(links[k].toEng)
  BY <1>2, ReadingSound
<1>4. m = Head(links[k].toEng)
  OBVIOUS
<1> HIDE DEF f, g, m
<1>5. s \in g.links[l].claims /\ s \notin f.links[l].claims /\ ~g.socks[s].closing
  BY <1>1, <1>3 DEF Lost, Becomes
<1>6. g.links[l].owner <= g.links[k].owner \/ (m.op = "connect" /\ m.dest # g.socks[s].dest)
  BY <1>1, <1>5 DEF Answered, Rightful
<1>7. links'[k].toEng = Tail(links[k].toEng)
  BY <1>1, <1>3 DEF Answered, LinkSame, Becomes
<1>8. links[k].owner \in Int /\ links[l].owner \in Int
  BY EngineFacts, ClaimConstants DEF Link, Apps
<1>9. links[k].owner >= links[l].owner \/ AsksElsewhere(k, s)
  BY <1>3, <1>4, <1>6, <1>8 DEF AsksElsewhere
<1> QED BY <1>2, <1>7, <1>9

\* The claim on a socket that is not on its way out goes only by a frame from a
\* process that is not older (server.ts:60-61), or by a connect to other settings,
\* which no claim stands against (server.ts:523), however many processes overlap.
THEOREM OnlyNewerTakes == Spec => NewestWins
<1>1. ASSUME IInv, Next, NEW l \in Links, NEW s \in Socks, Lost(l, s)
      PROVE  \E k \in Links : /\ links[k].toEng # <<>>
                              /\ links'[k].toEng = Tail(links[k].toEng)
                              /\ \/ links[k].owner >= links[l].owner
                                 \/ AsksElsewhere(k, s)
  <2>1. ~ClaimsKept
    BY <1>1 DEF ClaimsKept
  <2>2. PICK k \in Links : EngineReads(k)
    BY <1>1, <2>1, EngineKeeps, AppStepKeeps DEF Next
  <2> QED BY <1>1, <2>2, ReadsByRight
<1>2. IInv /\ [Next]_vars =>
        [\A l \in Links, s \in Socks :
          Lost(l, s) => \E k \in Links : /\ links[k].toEng # <<>>
                                        /\ links'[k].toEng = Tail(links[k].toEng)
                                        /\ \/ links[k].owner >= links[l].owner
                                           \/ AsksElsewhere(k, s)]_vars
  BY <1>1
<1> QED BY InductiveInvariant, <1>2, PTL DEF Spec, NewestWins

=============================================================================
