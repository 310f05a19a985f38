---------------------------- MODULE EngineClaims ----------------------------
(***************************************************************************)
(* Who drives an IRC socket.  The engine process (engine/server.ts,        *)
(* engine/upstream.ts) holds the sockets; app processes (engineLink.ts,    *)
(* engineTransport.ts, ircManager.ts, ircConnection.ts) claim, release and *)
(* close them over links that come and go.                                 *)
(*                                                                         *)
(* One connection id: one user's network.  Two processes overlap during a  *)
(* deploy, a link is replaced while the engine still has its predecessor   *)
(* on the books, and the user connects and disconnects meanwhile.  What    *)
(* the lines carry is EngineRelay's business.                              *)
(*                                                                         *)
(* A definition marked `fault' is a plausible mistake in the one that      *)
(* follows it; it breaks a property below when put in its place.           *)
(***************************************************************************)
EXTENDS Integers, Sequences, FiniteSets

CONSTANTS
    MaxApps,    \* processes, one after another: a later one is newer
    MaxFaults,  \* bound: links lost, sockets dying, timeouts, crashes
    MaxCmds,    \* bound: what the user asks
    MaxSocks,   \* bound: sockets dialed
    Dests,      \* connection settings the user chooses among
    Lossy,      \* a lost link loses what was written to it and not yet read
    Reordered   \* a new link is read while its dead predecessor is still unread

NoDest == 0   \* no settings yet

ASSUME ClaimConstants ==
    /\ MaxApps \in Nat \ {0} /\ MaxFaults \in Nat /\ MaxCmds \in Nat /\ MaxSocks \in Nat \ {0}
    /\ Dests # {} /\ NoDest \notin Dests /\ Lossy \in BOOLEAN /\ Reordered \in BOOLEAN

Apps  == 1 .. MaxApps
Links == 1 .. (MaxApps + MaxFaults)
Socks == 1 .. MaxSocks

VARIABLES
    cur,      \* EngineServer.upstreams: the socket under the id, 0 if none
    socks,    \* EngineUpstream, per socket
    links,    \* AppLink on one side, EngineLink's socket on the other
    apps,     \* per process
    row,      \* the settings in the database
    allowed,  \* the account is not paused
    used,     \* bounds
    told      \* history: the Disconnect each process had last, nothing asked since

vars == <<cur, socks, links, apps, row, allowed, used, told>>

-----------------------------------------------------------------------------
(* Values.                                                                 *)

\* driven: NICK and USER were written; reg: burstDone; letGo: releasedBy
NoSock == [st |-> "unused", driven |-> FALSE, reg |-> FALSE, closing |-> FALSE,
           quiet |-> FALSE, sink |-> 0, letGo |-> 0, dest |-> NoDest]

NoLink == [owner |-> 0, appEnd |-> FALSE, engEnd |-> FALSE, authed |-> FALSE,
           toApp |-> <<>>, toEng |-> <<>>, claims |-> {}]

\* ph: none (no IrcConnection in the map), queued (in connectScheduler), waiting
\* (transport waits for the link), asked (CONNECT sent), dialing (answered so),
\* connected, relink (link lost, reattachSoon), backoff (reconnect timer)
NoApp == [st |-> "unborn", link |-> 0, ready |-> FALSE, held |-> FALSE,
          pendingClose |-> FALSE, closedHere |-> FALSE,
          ph |-> "none", sock |-> 0, dest |-> NoDest]

Gone == [NoApp EXCEPT !.st = "gone"]

\* had: what was ended had a socket, or had just lost its link, and no older
\* process was left that might dial
NotTold == [had |-> FALSE, sock |-> 0]

Op(o)      == [op |-> o]
On(o, s)   == [op |-> o, sock |-> s]
Error(o)   == [op |-> "error", re |-> o]

Up(a)      == apps[a].st = "up"
Newest(a)  == Up(a) /\ \A b \in Apps : apps[b].st # "unborn" => b <= a
Used       == Cardinality({s \in Socks : socks[s].st # "unused"})
Linked     == Cardinality({l \in Links : links[l].owner # 0})
MayFail    == used.faults < MaxFaults
MayAsk     == used.cmds < MaxCmds
LinkLeft   == Linked < Cardinality(Links)   \* bound: never in the way of a Boot
Spend(b)   == used' = [used EXCEPT ![b] = @ + 1]

-----------------------------------------------------------------------------
Init ==
    /\ cur = 0
    /\ socks = [s \in Socks |-> NoSock]
    /\ links = [l \in Links |-> NoLink]
    /\ apps = [a \in Apps |-> NoApp]
    /\ row \in Dests
    /\ allowed \in BOOLEAN
    /\ used = [faults |-> 0, cmds |-> 0]
    /\ told = [a \in Apps |-> NotTold]

-----------------------------------------------------------------------------
(* The engine.  Its state is passed along as e: cur, socks and links.      *)

Engine == [cur |-> cur, socks |-> socks, links |-> links]

Becomes(e) == cur' = e.cur /\ socks' = e.socks /\ links' = e.links

\* AppLink.send; what nobody reads is lost
Sent(e, l, f) ==
    IF l # 0 /\ e.links[l].engEnd /\ e.links[l].appEnd
    THEN [e EXCEPT !.links[l].toApp = Append(@, f)] ELSE e

\* EngineServer.isSession
Session(u) == u.st = "open" /\ u.reg /\ ~u.closing

\* EngineServer.holderOf
Holders(e, s, l) == {k \in Links \ {l} : e.links[k].engEnd /\ s \in e.links[k].claims}

Unclaimed(e, s) == [e EXCEPT !.links = [l \in Links |-> [e.links[l] EXCEPT !.claims = @ \ {s}]]]
Claimed(e, l, s) == [e EXCEPT !.links[l].claims = @ \union {s}, !.socks[s].sink = l]

\* EngineUpstream.silence, close
Silenced(e, s) == [e EXCEPT !.socks[s] = [@ EXCEPT !.sink = 0, !.quiet = TRUE]]
Closing(e, s)  == [e EXCEPT !.socks[s] = [@ EXCEPT !.closing = TRUE, !.quiet = TRUE]]

\* fault: a session let go of is offered to nobody (#894)
OfferedToNobody(e, s, except) == e

\* EngineServer.offer
Offered(e, s, except) ==
    IF ~Session(e.socks[s]) \/ Holders(e, s, 0) # {} THEN e
    ELSE [e EXCEPT !.links = [l \in Links |->
            LET k == e.links[l] IN
            IF l # except /\ k.authed /\ k.engEnd /\ k.appEnd
            THEN [k EXCEPT !.toApp = Append(@, Op("held"))] ELSE k]]

\* faults: an older process is not refused; the same process's own
\* predecessor link refuses (#849)
RefusedByNone(other, me) == FALSE
RefusedByEqual(other, me) == other >= me

\* The rule of EngineServer.contest, on the owners' generations.
Refused(other, me) == other > me

Refusers(e, l, s) ==
    {k \in Holders(e, s, l) : Refused(e.links[k].owner, e.links[l].owner)}

Superseded(e, l, s) ==
    LET k == CHOOSE k \in Holders(e, s, l) : TRUE
    IN  IF Holders(e, s, l) = {} THEN e
        ELSE Sent([e EXCEPT !.links[k].claims = @ \ {s}], k, Op("detached"))

\* fault: a link that ends keeps its claims
EndedClaiming(link) == [link EXCEPT !.engEnd = FALSE, !.toEng = <<>>]

Ended(link) == [NoLink EXCEPT !.owner = link.owner, !.appEnd = link.appEnd,
                              !.toApp = link.toApp]

\* The link goes away: its claims are let go of and offered to the others.
LetGo(e, l) ==
    LET had == e.links[l].claims
        f   == [e EXCEPT !.links[l] = Ended(e.links[l]),
                         !.socks = [s \in Socks |-> IF @[s].sink = l
                                                    THEN [@[s] EXCEPT !.sink = 0]
                                                    ELSE @[s]]]
    IN  IF e.cur \in had THEN Offered(f, e.cur, 0) ELSE f

\* A dial past the bound: the step is cut off.
Full == MaxSocks + 1

\* The tail of EngineServer.connect.
Fresh(e, l, d) ==
    LET n == Used + 1
    IN  IF n = Full THEN [e EXCEPT !.cur = Full]
        ELSE Sent(Claimed([e EXCEPT !.cur = n,
                                    !.socks[n] = [NoSock EXCEPT !.st = "dialing", !.dest = d]],
                          l, n),
                  l, Op("dialing"))

\* fault: the socket in the way keeps its sink
LeftListening(e, s) == Unclaimed(e, s)

\* A socket in the way of a fresh dial loses its claims and its voice.
CastOff(e, s) == Silenced(Unclaimed(e, s), s)

Connect(e, l, d) ==
    LET s == e.cur
        u == e.socks[s]
    IN  IF s = 0 THEN Fresh(e, l, d)
        ELSE IF u.closing THEN Fresh(CastOff(e, s), l, d)
        ELSE IF u.dest # d THEN Fresh(Closing(CastOff(e, s), s), l, d)
        ELSE IF Refusers(e, l, s) # {} THEN Sent(e, l, Op("detached"))
        ELSE LET t == Superseded(e, l, s) IN
             IF u.st = "dialing" THEN Sent(Claimed(t, l, s), l, Op("dialing"))
             ELSE IF u.reg THEN Sent(Claimed(t, l, s), l, On("attached", s))
             ELSE Fresh(Closing(CastOff(t, s), s), l, d)

\* close from a link without the claim follows the attach rule; a held one
\* only stops being reported.
CloseAsked(e, l) ==
    LET s == e.cur IN
    IF s = 0 THEN Sent(e, l, Error("close"))
    ELSE IF s \in e.links[l].claims THEN Closing(e, s)
    ELSE IF Refusers(e, l, s) # {} THEN Sent(e, l, Error("close"))
    ELSE Closing(Silenced(Superseded(e, l, s), s), s)

Drives(e, l) == e.cur # 0 /\ e.cur \in e.links[l].claims

WriteAsked(e, l) ==
    IF ~Drives(e, l) THEN Sent(e, l, Error("write"))
    ELSE [e EXCEPT !.socks[e.cur].driven =
            @ \/ (e.socks[e.cur].st = "open" /\ ~e.socks[e.cur].closing)]

DetachAsked(e, l) ==
    IF ~Drives(e, l) THEN Sent(e, l, Error("detach"))
    ELSE Offered([e EXCEPT !.links[l].claims = @ \ {e.cur},
                           !.socks[e.cur] = [@ EXCEPT !.sink = 0, !.letGo = l]],
                 e.cur, l)

\* EngineServer.heldFor
HeldFor(e, l) ==
    e.cur # 0 /\ Session(e.socks[e.cur]) /\ Holders(e, e.cur, l) = {}

HelloAsked(e, l) ==
    Sent([e EXCEPT !.links[l].authed = TRUE], l, [op |-> "hello", held |-> HeldFor(e, l)])

Answer(e, l, f) ==
    CASE f.op = "hello"   -> HelloAsked(e, l)
      [] f.op = "connect" -> Connect(e, l, f.dest)
      [] f.op = "write"   -> WriteAsked(e, l)
      [] f.op = "detach"  -> DetachAsked(e, l)
      [] f.op = "close"   -> CloseAsked(e, l)

\* "both are ready in the same poll batch, and the poll does not order them by
\* time" (server.ts:225-227)
Polled(l) ==
    /\ links[l].engEnd
    /\ Reordered \/ \A k \in Links : k < l /\ links[k].owner = links[l].owner =>
                                     links[k].toEng = <<>>

EngineReads(l) ==
    LET f == Head(links[l].toEng)
        e == Answer([Engine EXCEPT !.links[l].toEng = Tail(@)], l, f)
    IN  /\ Polled(l) /\ links[l].toEng # <<>>
        /\ e.cur # Full
        /\ Becomes(e)
        /\ UNCHANGED <<apps, row, allowed, used, told>>

EngineSeesEOF(l) ==
    /\ links[l].engEnd /\ ~links[l].appEnd /\ links[l].toEng = <<>>
    /\ Becomes(LetGo(Engine, l))
    /\ UNCHANGED <<apps, row, allowed, used, told>>

\* sweepSilentLinks, an over-long frame: what was not read is gone
EngineDropsLink(l) ==
    /\ Lossy /\ MayFail
    /\ links[l].engEnd
    /\ Becomes(LetGo(Engine, l))
    /\ Spend("faults")
    /\ UNCHANGED <<apps, row, allowed, told>>

Opens(s) ==
    /\ socks[s].st = "dialing" /\ ~socks[s].closing
    /\ Becomes(Sent([Engine EXCEPT !.socks[s].st = "open"], socks[s].sink, On("open", s)))
    /\ UNCHANGED <<apps, row, allowed, used, told>>

Registers(s) ==
    LET e == [Engine EXCEPT !.socks[s].reg = TRUE] IN
    /\ socks[s].st = "open" /\ socks[s].driven /\ ~socks[s].reg /\ ~socks[s].closing
    /\ Becomes(IF socks[s].sink = 0 THEN Offered(e, s, socks[s].letGo) ELSE e)
    /\ UNCHANGED <<apps, row, allowed, used, told>>

SocketDies(s) ==
    LET u == socks[s]
        e == IF u.quiet THEN Engine ELSE Sent(Engine, u.sink, Op("closed"))
    IN  /\ u.st \in {"dialing", "open"}
        /\ \/ u.closing /\ UNCHANGED used
           \/ ~u.closing /\ MayFail /\ Spend("faults")
        /\ Becomes(Unclaimed([e EXCEPT !.cur = IF @ = s THEN 0 ELSE @,
                                       !.socks[s] = [NoSock EXCEPT !.st = "closed",
                                                               !.dest = u.dest]],
                             s))
        /\ UNCHANGED <<apps, row, allowed, told>>

\* reapOrphans: registered or not
OrphanReaped(s) ==
    /\ MayFail
    /\ s = cur /\ socks[s].sink = 0
    /\ socks[s].st = "open" /\ ~socks[s].closing
    /\ Becomes(Closing(Engine, s))
    /\ Spend("faults")
    /\ UNCHANGED <<apps, row, allowed, told>>

-----------------------------------------------------------------------------
(* An app process.  A step gives the process's next record and the frames  *)
(* it writes.                                                              *)

Step(p, out) == [p |-> p, out |-> out]
Then(x, F(_)) == LET y == F(x.p) IN Step(y.p, x.out \o y.out)

\* EngineTransport.connect
Dial(p) ==
    IF p.ready
    THEN Step([p EXCEPT !.ph = "asked", !.closedHere = FALSE],
              <<[op |-> "connect", dest |-> p.dest]>>)
    ELSE Step([p EXCEPT !.ph = "waiting"], <<>>)

\* IrcManager.startNetwork, not deferred; the connection keeps the row it read
Start(p) ==
    IF allowed THEN Dial([p EXCEPT !.dest = row]) ELSE Step(p, <<>>)

CloseQueued(p) == [p EXCEPT !.held = FALSE, !.pendingClose = TRUE]

\* EngineLink.requestClose
RequestClose(p) ==
    IF p.ready
    THEN Step([p EXCEPT !.held = FALSE, !.closedHere = TRUE], <<Op("close")>>)
    ELSE Step(CloseQueued(p), <<>>)

\* fault: only an open socket is worth a close
QuitWhenConnected(p) ==
    LET q == [p EXCEPT !.ph = "none", !.sock = 0]
    IN  IF p.ph = "connected" THEN RequestClose(q) ELSE Step(q, <<>>)

\* client.quit through EngineTransport.close, whatever became of the transport;
\* a connection still queued for its launch has none.
Quit(p) ==
    LET q == [p EXCEPT !.ph = "none", !.sock = 0]
    IN  IF p.ph = "queued" THEN Step(q, <<>>) ELSE RequestClose(q)

\* IrcManager.reconcileHeld
Reconcile(p) ==
    IF ~p.held \/ p.ph # "none" THEN Step(p, <<>>)
    ELSE IF allowed THEN Start(p) ELSE RequestClose(p)

\* Whoever waited for the link: a transport asks; reattachSoon asks for what is
\* held and otherwise takes the ordinary ladder.
Resume(p) ==
    CASE p.ph = "waiting"          -> Dial(p)
      [] p.ph = "relink" /\ p.held -> Dial(p)
      [] p.ph = "relink"           -> Step([p EXCEPT !.ph = "backoff"], <<>>)
      [] OTHER                     -> Step(p, <<>>)

\* fault: the closes queued during the outage go out last
FlushedLast(p) ==
    Then(Then(Reconcile(p), Resume),
         LAMBDA q : IF q.pendingClose
                    THEN RequestClose([q EXCEPT !.pendingClose = FALSE]) ELSE Step(q, <<>>))

\* The engine's hello: queued closes go out before anyone hears `ready'.
Flushed(p) ==
    LET x == IF p.pendingClose THEN RequestClose([p EXCEPT !.pendingClose = FALSE])
             ELSE Step(p, <<>>)
    IN  Then(Then(x, Reconcile), Resume)

OnHello(p, f) ==
    Flushed([p EXCEPT !.ready = TRUE, !.held = f.held, !.closedHere = FALSE])

\* fault: an offer that crossed our own close is believed
NeverStale(p) == FALSE
Stale(p) == p.closedHere

OnHeld(p) == IF Stale(p) THEN Step(p, <<>>) ELSE Reconcile([p EXCEPT !.held = TRUE])

\* The id's handler is the transport of the connection the process has now.
Asking  == {"asked", "dialing"}
Handles(p) == p.ph \in Asking \union {"connected"}

OnSocket(p, f) ==
    IF ~Handles(p) THEN Step([p EXCEPT !.held = TRUE], <<>>)
    ELSE Step([p EXCEPT !.held = TRUE, !.ph = "connected", !.sock = f.sock],
              IF f.op = "open" THEN <<Op("write")>> ELSE <<>>)

Reads(p, f) ==
    CASE f.op = "hello"    -> OnHello(p, f)
      [] f.op = "held"     -> OnHeld(p)
      [] f.op \in {"open", "attached"} -> OnSocket(p, f)
      [] f.op = "closed"   -> Step(IF Handles(p)
                                   THEN [p EXCEPT !.held = FALSE, !.ph = "backoff", !.sock = 0]
                                   ELSE [p EXCEPT !.held = FALSE], <<>>)
      [] f.op = "detached" -> Step(IF Handles(p)
                                   THEN [p EXCEPT !.held = FALSE, !.ph = "none", !.sock = 0]
                                   ELSE [p EXCEPT !.held = FALSE], <<>>)
      [] f.op = "error"    -> Step(IF p.ph \in Asking THEN [p EXCEPT !.ph = "backoff"] ELSE p,
                                   <<>>)
      [] f.op = "dialing"  -> Step(IF p.ph = "asked" THEN [p EXCEPT !.ph = "dialing"] ELSE p,
                                   <<>>)

\* x is the step process a takes; `ls' the links as it finds them.
Takes(a, x, ls) ==
    LET l == apps[a].link IN
    /\ apps' = [apps EXCEPT ![a] = x.p]
    /\ links' = IF ls[l].engEnd THEN [ls EXCEPT ![l].toEng = @ \o x.out] ELSE ls

AppReads(a) ==
    LET l == apps[a].link IN
    /\ Up(a) /\ links[l].appEnd /\ links[l].toApp # <<>>
    /\ Takes(a, Reads(apps[a], Head(links[l].toApp)),
             [links EXCEPT ![l].toApp = Tail(@)])
    /\ UNCHANGED <<cur, socks, row, allowed, used, told>>

Opened(a, l) == [links EXCEPT ![l] = [NoLink EXCEPT !.owner = a, !.appEnd = TRUE,
                                        !.engEnd = TRUE, !.toEng = <<Op("hello")>>]]

\* startEngineLink, initAll: an autoconnect network is queued for its launch.
Boot(a) ==
    /\ apps[a].st = "unborn"
    /\ \A b \in Apps : b < a => apps[b].st # "unborn"
    /\ LinkLeft
    /\ \E ph \in {"none", "queued"} :
          /\ ph = "queued" => allowed
          /\ apps' = [apps EXCEPT ![a] = [NoApp EXCEPT !.st = "up", !.link = Linked + 1,
                                                       !.ph = ph, !.dest = row]]
    /\ links' = Opened(a, Linked + 1)
    /\ UNCHANGED <<cur, socks, row, allowed, used, told>>

Relink(a) ==
    /\ Up(a) /\ ~links[apps[a].link].appEnd
    /\ LinkLeft
    /\ apps' = [apps EXCEPT ![a].link = Linked + 1]
    /\ links' = Opened(a, Linked + 1)
    /\ UNCHANGED <<cur, socks, row, allowed, used, told>>

\* A queued launch, or a retry whose backoff is over and whose gate is open.
Launch(a) ==
    /\ Up(a)
    /\ \/ apps[a].ph = "queued" /\ Takes(a, Dial(apps[a]), links)
       \/ /\ apps[a].ph = "backoff"
          /\ Takes(a, IF allowed THEN Dial(apps[a])
                      ELSE Step([apps[a] EXCEPT !.ph = "none"], <<>>), links)
    /\ UNCHANGED <<cur, socks, row, allowed, used, told>>

\* The link or the engine's answer took too long.
TimesOut(a) ==
    /\ Up(a) /\ MayFail
    /\ \/ apps[a].ph \in {"waiting", "relink"} /\ ~apps[a].ready
       \/ apps[a].ph = "asked"
    /\ apps' = [apps EXCEPT ![a].ph = "backoff"]
    /\ Spend("faults")
    /\ UNCHANGED <<cur, socks, links, row, allowed, told>>

PrefixesOf(s) == {SubSeq(s, 1, k) : k \in 0 .. Len(s)}

\* The app's end of a link goes; the engine may yet read what was written.
Severed(l, lossy) ==
    \E left \in IF lossy THEN PrefixesOf(links[l].toEng) ELSE {links[l].toEng} :
        links' = [links EXCEPT ![l] = [@ EXCEPT !.appEnd = FALSE, !.toApp = <<>>,
                                                !.toEng = left]]

LinkLost(a) ==
    LET l == apps[a].link
        p == apps[a]
    IN  /\ Up(a) /\ links[l].appEnd
        /\ \/ ~links[l].engEnd /\ UNCHANGED used
           \/ links[l].engEnd /\ MayFail /\ Spend("faults")
        /\ Severed(l, Lossy)
        /\ apps' = [apps EXCEPT ![a] =
                      [p EXCEPT !.ready = FALSE, !.sock = 0,
                                !.ph = CASE p.ph = "connected" -> "relink"
                                         [] p.ph \in Asking    -> "waiting"
                                         [] OTHER              -> p.ph]]
        /\ UNCHANGED <<cur, socks, row, allowed, told>>

\* IrcManager.shutdown, stopEngineLink: detach, then a FIN behind it.
Shutdown(a) ==
    LET l == apps[a].link IN
    /\ Up(a)
    /\ apps' = [apps EXCEPT ![a] = Gone]
    /\ told' = [told EXCEPT ![a] = NotTold]
    /\ links' = [links EXCEPT ![l] =
                   [links[l] EXCEPT !.appEnd = FALSE, !.toApp = <<>>,
                                    !.toEng = IF apps[a].ph = "connected" /\ links[l].engEnd
                                              THEN Append(@, Op("detach")) ELSE @]]
    /\ UNCHANGED <<cur, socks, row, allowed, used>>

Crash(a) ==
    /\ Up(a) /\ MayFail
    /\ Severed(apps[a].link, TRUE)
    /\ apps' = [apps EXCEPT ![a] = Gone]
    /\ told' = [told EXCEPT ![a] = NotTold]
    /\ Spend("faults")
    /\ UNCHANGED <<cur, socks, row, allowed>>

-----------------------------------------------------------------------------
(* What the user asks of a process.                                        *)

Ends(a) ==
    told' = [told EXCEPT ![a] =
               LET alone == \A b \in Apps : b < a => apps[b].st = "gone"
               IN  [sock |-> cur,
                    had  |-> alone /\ apps[a].ph \in {"connected", "relink"}]]

AsksAgain(a) == told' = [told EXCEPT ![a] = NotTold]

UserConnects(a) ==
    /\ Up(a) /\ MayAsk
    /\ apps[a].ph = "none" /\ allowed
    /\ Takes(a, Start(apps[a]), links)
    /\ AsksAgain(a)
    /\ Spend("cmds")
    /\ UNCHANGED <<cur, socks, row, allowed>>

UserDisconnects(a) ==
    /\ Up(a) /\ MayAsk
    /\ apps[a].ph # "none"
    /\ Takes(a, Quit(apps[a]), links)
    /\ Ends(a)
    /\ Spend("cmds")
    /\ UNCHANGED <<cur, socks, row, allowed>>

\* restartNetwork; with other settings when the user has just edited them
UserReconnects(a) ==
    /\ Up(a) /\ MayAsk
    /\ apps[a].ph # "none"
    /\ row' \in Dests
    /\ LET start(p) == IF allowed THEN Dial([p EXCEPT !.dest = row'])
                       ELSE Step(p, <<>>)
       IN  Takes(a, Then(Quit(apps[a]), start), links)
    /\ AsksAgain(a)
    /\ Spend("cmds")
    /\ UNCHANGED <<cur, socks, allowed>>

\* suspendUser, and on un-pausing initForUser if the network autoconnects
AccountPaused(a) ==
    /\ Newest(a) /\ MayAsk
    /\ allowed /\ allowed' = FALSE
    /\ IF apps[a].ph = "none" THEN UNCHANGED <<apps, links, told>>
       ELSE Takes(a, Quit(apps[a]), links) /\ Ends(a)
    /\ Spend("cmds")
    /\ UNCHANGED <<cur, socks, row>>

AccountResumed(a) ==
    /\ Newest(a) /\ MayAsk
    /\ ~allowed /\ allowed' = TRUE
    /\ \/ UNCHANGED <<apps, links>>
       \/ /\ apps[a].ph = "none"
          /\ LET p == [apps[a] EXCEPT !.dest = row]
             IN  Takes(a, IF p.held THEN Dial(p)
                          ELSE Step([p EXCEPT !.ph = "queued"], <<>>), links)
    /\ AsksAgain(a)
    /\ Spend("cmds")
    /\ UNCHANGED <<cur, socks, row>>

-----------------------------------------------------------------------------
EngineStep ==
    \/ \E l \in Links : EngineReads(l) \/ EngineSeesEOF(l) \/ EngineDropsLink(l)
    \/ \E s \in Socks : Opens(s) \/ Registers(s) \/ SocketDies(s) \/ OrphanReaped(s)

AppStep(a) ==
    \/ Boot(a) \/ AppReads(a) \/ Relink(a) \/ Launch(a) \/ TimesOut(a)
    \/ LinkLost(a) \/ Shutdown(a) \/ Crash(a)

UserStep(a) ==
    \/ UserConnects(a) \/ UserDisconnects(a) \/ UserReconnects(a)
    \/ AccountPaused(a) \/ AccountResumed(a)

Next == EngineStep \/ \E a \in Apps : AppStep(a) \/ UserStep(a)

Spec == Init /\ [][Next]_vars

-----------------------------------------------------------------------------
(* Properties.                                                             *)

\* Types; and only an authenticated link that the engine has open claims a
\* socket (server.ts:55-83), only a process with a link waits for frames of its
\* id (EngineLink.register), only a driven socket registers.
TypeOK ==
    /\ cur \in Socks \union {0}
    /\ \A s \in Socks :
          /\ socks[s].st \in {"unused", "dialing", "open", "closed"}
          /\ socks[s].sink \in Links \union {0} /\ socks[s].letGo \in Links \union {0}
          /\ socks[s].reg => socks[s].driven
    /\ \A l \in Links :
          /\ links[l].owner \in Apps \union {0}
          /\ links[l].claims \subseteq Socks
          /\ links[l].claims # {} => links[l].engEnd /\ links[l].authed
    /\ \A a \in Apps :
          /\ apps[a].ph \in {"none", "queued", "waiting", "asked", "dialing", "connected",
                             "relink", "backoff"}
          /\ Handles(apps[a]) => apps[a].ready
          /\ apps[a].ph = "connected" => apps[a].sock \in Socks
    /\ used.faults \in 0 .. MaxFaults /\ used.cmds \in 0 .. MaxCmds

\* A socket reports to the one link that claims it, and to none other: "a
\* claim is exclusive -- every path that adds one strips the previous holder
\* first" (server.ts:174-176).
SinkIsClaimant ==
    \A s \in Socks, l \in Links :
        s \in links[l].claims <=> (socks[s].sink = l)

\* The claim on a socket that is not on its way out goes only by a frame from a
\* process that is not older than the one that has it (server.ts:60-61), or by
\* a connect to other settings, which no claim stands against (server.ts:523).
Lost(l, s) ==
    /\ s \in links[l].claims /\ links'[l].engEnd /\ s \notin links'[l].claims
    /\ ~socks[s].closing /\ socks'[s].st # "closed"

AsksElsewhere(k, s) ==
    /\ Head(links[k].toEng).op = "connect"
    /\ Head(links[k].toEng).dest # socks[s].dest

NewestWins ==
    [][\A l \in Links, s \in Socks :
          Lost(l, s) => \E k \in Links : /\ links[k].toEng # <<>>
                                        /\ links'[k].toEng = Tail(links[k].toEng)
                                        /\ \/ links[k].owner >= links[l].owner
                                           \/ AsksElsewhere(k, s)]_vars

Settled(a) ==
    /\ Up(a) /\ apps[a].ready
    /\ links[apps[a].link].engEnd
    /\ links[apps[a].link].toApp = <<>> /\ links[apps[a].link].toEng = <<>>

\* Nobody has dialed with other settings than the process has: a claim that
\* such a dial strips is never reported to its holder.
Undisputed(a) ==
    \A s \in Socks : socks[s].st # "unused" => socks[s].dest = apps[a].dest

\* With nothing in flight, a process that thinks it is connected is the one the
\* engine lets drive the id's socket, and the open socket it drives is the one
\* it was told of.  (An `open' that comes after the engine's answer was given
\* up on, CONNECT_REPLY_TIMEOUT_MS, is believed while the second dial is on.)
ConnectedIsReal ==
    \A a \in Apps :
        Settled(a) /\ apps[a].ph = "connected" /\ Undisputed(a) =>
            /\ cur # 0
            /\ cur \in links[apps[a].link].claims
            /\ ~socks[cur].closing
            /\ socks[cur].st = "open" => cur = apps[a].sock

\* With nothing in flight, a process without a connection claims no session:
\* nobody would see it, or end it.
NothingForgotten ==
    \A a \in Apps, s \in Socks :
        Settled(a) /\ Newest(a) /\ apps[a].ph = "none" /\ Session(socks[s]) =>
            s \notin links[apps[a].link].claims

\* Once the newest process is the only one with a link and nothing is in flight,
\* a session it has no connection for is gone: "every socket the engine holds
\* that no connection here speaks for" is adopted "whenever policy still allows,
\* and closed when it doesn't" (ircManager.ts:377-382).
NoSessionLeftOver ==
    \A a \in Apps, s \in Socks :
        /\ Settled(a) /\ Newest(a) /\ apps[a].ph = "none"
        /\ \A l \in Links \ {apps[a].link} : ~links[l].engEnd
        => ~Session(socks[s])

\* After a Disconnect the newest process has no connection until it is asked for
\* one: adopting what it ended would "turn that Disconnect into a reconnect"
\* (server.ts:152-158).
NeverResumed ==
    \A a \in Apps : told[a].had /\ Newest(a) => apps[a].ph = "none"

\* Process a is handed a frame of this kind.
Handed(a, op) ==
    LET in == links[apps[a].link].toApp
    IN  in # <<>> /\ Head(in).op = op /\ links'[apps[a].link].toApp = Tail(in)

\* A waiting transport is failed only by the answer to its own CONNECT: "an
\* error naming our id is the engine's answer to the CONNECT"
\* (engineTransport.ts:362-365).
ErrorsAnswerConnect ==
    [][\A a \in Apps :
          apps[a].ph \in Asking /\ apps'[a].ph = "backoff" /\ Handed(a, "error") =>
            Head(links[apps[a].link].toApp).re = "connect"]_vars

-----------------------------------------------------------------------------
(* Fairness: what is written is read, links come back, timers fire,        *)
(* closing sockets close.  Processes need not start or stop, nor faults    *)
(* happen, nor dials succeed.                                              *)

Fairness ==
    /\ \A l \in Links : WF_vars(EngineReads(l) \/ EngineSeesEOF(l))
    /\ \A s \in Socks : WF_vars(SocketDies(s) /\ UNCHANGED used)
    /\ \A a \in Apps : /\ WF_vars(AppReads(a) \/ Relink(a) \/ (LinkLost(a) /\ UNCHANGED used))
                       /\ WF_vars(Launch(a))

FairSpec == Spec /\ Fairness

\* A session nobody claims is adopted or ended as long as a process is there
\* to do it (#894): "the hello's list is otherwise the last word, and a paused
\* account's socket then stayed on IRC" (server.ts:182-187).
HeldIsSettled ==
    \A s \in Socks :
        Session(socks[s]) /\ socks[s].sink = 0 ~>
            (\/ ~Session(socks[s]) \/ socks[s].sink # 0
             \/ \A a \in Apps : ~Up(a))

\* A Disconnect ends the socket it was about, across the loss of a link too as
\* long as what was written to it arrives (#849), unless the process it was given to goes before it is delivered or a newer
\* one takes over.
DisconnectEnds ==
    \A a \in Apps, s \in Socks :
        told[a].sock = s /\ told[a].had ~>
            (socks[s].closing \/ socks[s].st = "closed" \/ told[a].sock # s \/ ~Newest(a))

=============================================================================
