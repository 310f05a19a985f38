---------------------------- MODULE EngineRelay ----------------------------
(***************************************************************************)
(* How one connection's IRC lines become rows.  The engine process keeps   *)
(* the IRC socket and the lines nobody acked (server/engine); app          *)
(* processes come and go, claim the connection over a link, store a row    *)
(* per line together with the catch-up mark (services/engineTransport.ts,  *)
(* services/ircConnection.ts, db/engineMarks.ts) and ack.                  *)
(*                                                                         *)
(* One connection id.  Apps are numbered in the order they start: the      *)
(* number is the generation.  Sockets are numbered in the order they are   *)
(* dialed; each numbers its own lines from 1, line 1 stands for the        *)
(* registration burst.  `sock' in a line frame is history: the code's      *)
(* frame has only the seq.                                                 *)
(*                                                                         *)
(* A definition marked `fault' is a plausible mistake in the one that      *)
(* follows it; it breaks a property below when put in its place.           *)
(***************************************************************************)
EXTENDS BacklogOps, Sequences, SequencesExt

CONSTANTS
    RowsAt,      \* RowsAt[s]: message rows the delivery of line s stores
    BatchStart,  \* BatchStart[s]: the line opening the batch s closes, else s
    MaxApps, MaxLinks, MaxSockets, MaxSeq, MaxSheds, MaxBreaks  \* bounds

Apps  == 1 .. MaxApps
Links == 1 .. MaxLinks
Socks == 1 .. MaxSockets
Seqs  == 1 .. MaxSeq

BurstEnd == 1

ASSUME RelayConstants ==
    /\ {MaxApps, MaxLinks, MaxSockets} \subseteq Nat \ {0}
    /\ {MaxSeq, MaxSheds, MaxBreaks} \subseteq Nat
    /\ RowsAt \in [Seqs -> Nat]
    /\ BatchStart \in [Seqs -> Seqs]
    /\ \A s \in Seqs : BatchStart[s] # s =>
          /\ BurstEnd < BatchStart[s] /\ BatchStart[s] < s
          /\ RowsAt[s] < s - BatchStart[s]

VARIABLES
    up,      \* the engine's upstream for the id
    links,   \* one record per link ever opened
    nLinks,  \* links opened so far
    apps,    \* one record per app process
    marks,   \* db engine_marks: per socket, 0 for no row
    log,     \* the message rows, in the order stored
    sheds,   \* how often a backlog has shed (bound)
    breaks,  \* how often a link has broken (bound)
    hist     \* history: lines acked, shed, reported as a hole; marks pruned

vars == <<up, links, nLinks, apps, marks, log, sheds, breaks, hist>>

-----------------------------------------------------------------------------
(* Values.                                                                 *)

\* sock stays at the last socket dialed when there is none.
NoUpstream == [st |-> "none", sock |-> 0, buf |-> EmptyBuffer, sink |-> 0,
               sent |-> 0, stalled |-> FALSE, liveAfter |-> 0]
Dialing(n, l) == [NoUpstream EXCEPT !.st = "dialing", !.sock = n, !.sink = l]

\* owner 0: not opened yet.  toApp and toEng are the bytes in flight;
\* appEnd / engEnd: that side still has its descriptor.
NoLink == [owner |-> 0, toApp |-> <<>>, toEng |-> <<>>,
           appEnd |-> FALSE, engEnd |-> FALSE]
NewLink(a, first) == [owner |-> a, toApp |-> <<>>, toEng |-> <<[op |-> first]>>,
                      appEnd |-> TRUE, engEnd |-> TRUE]

\* st: "unborn", "linkless" (waiting for the link), "asking" (CONNECT sent),
\* "up", "redial" (the socket closed; a CONNECT is scheduled), "over" (taken
\* over: this process has no connection under the id any more), "gone".
\* todo: rows of the line being delivered still to be stored, the least first.
\* ackSeq 0: no ack queued.  known: lines of batches not closed yet.
NoApp == [st |-> "unborn", link |-> 0, sock |-> 0, catching |-> FALSE,
          maxRow |-> 0, under |-> 0, at |-> 0, todo |-> {}, ackSeq |-> 0,
          known |-> {}]

Op(o) == [op |-> o]
Line(n, s) == [op |-> "line", sock |-> n, seq |-> s]
GapFrame(n, g) == [op |-> "gap", sock |-> n, gap |-> g]

Registered == up.st = "open" /\ LastSeq(up.buf) >= BurstEnd

\* Bounds: on broken links, and on leaving a socket that is not registered,
\* which takes another socket to dial.  The last process never goes.
MayLeave == Registered \/ up.sock < MaxSockets
MayBreak == breaks < MaxBreaks /\ MayLeave

Alive(a) == apps[a].st \notin {"unborn", "gone"}

-----------------------------------------------------------------------------
(* Links.                                                                  *)

\* What the engine writes to a link nobody reads any more is lost.
Deliver(ls, l, frames) ==
    IF l # 0 /\ ls[l].appEnd /\ ls[l].engEnd
    THEN [ls EXCEPT ![l].toApp = @ \o frames]
    ELSE ls

Ask(ls, l, frame) ==
    IF l # 0 /\ ls[l].engEnd THEN [ls EXCEPT ![l].toEng = Append(@, frame)] ELSE ls

\* fault: a session let go of is not offered
OfferedToNobody(ls) == ls

\* EngineServer.offer: an unclaimed session, to every link still there.
Offered(ls) == [l \in Links |-> IF ls[l].appEnd /\ ls[l].engEnd
                                THEN [ls[l] EXCEPT !.toApp = Append(@, Op("held"))]
                                ELSE ls[l]]

PrefixesOf(s) == {SubSeq(s, 1, k) : k \in 0 .. Len(s)}

-----------------------------------------------------------------------------
(* EngineUpstream.flush: what goes to the sink, and what is left to send.  *)

LineFrames(n, i, j) == [k \in 1 .. (j - i + 1) |-> Line(n, i + k - 1)]

\* Lines i .. j, with `live' after the first one at or past liveAfter.
WithLive(u, i, j) ==
    LET at == IF i > u.liveAfter THEN i ELSE u.liveAfter
    IN  IF u.liveAfter = 0 \/ at > j THEN LineFrames(u.sock, i, j)
        ELSE LineFrames(u.sock, i, at) \o <<Op("live")>> \o LineFrames(u.sock, at + 1, j)

AfterLines(u, j) ==
    [u EXCEPT !.sent = j,
              !.liveAfter = IF @ # 0 /\ @ <= j THEN 0 ELSE @]

\* fault: the cursor one too far when the backlog was trimmed under it
NextOwedSkipping(u) == IF u.sent >= u.buf.first THEN u.sent + 1 ELSE u.buf.first + 1

\* Seqs are contiguous and trimmed only from the front: the first owed line.
NextOwed(u) == IF u.sent >= u.buf.first THEN u.sent + 1 ELSE u.buf.first

\* The sink may cross its high-water mark with any frame of the lot: what is
\* owed is then left for resume().  A hole goes first, and only to a sink that
\* has not been sent the lines that fell into it.
FlushOutcomes(u) ==
    LET due   == u.buf.gap.last > u.sent
        hole  == IF due THEN <<GapFrame(u.sock, u.buf.gap)>> ELSE <<>>
        v     == IF due THEN [u EXCEPT !.buf = GapTaken(@)] ELSE u
        from  == NextOwed(v)
        to    == LastSeq(v.buf)
        done  == IF from > to THEN v ELSE AfterLines(v, to)
        tail  == IF done.liveAfter # 0 THEN <<Op("live")>> ELSE <<>>
    IN  IF u.sink = 0 \/ u.stalled THEN {[u |-> u, out |-> <<>>]}
        ELSE {[u   |-> [done EXCEPT !.liveAfter = 0],
               out |-> hole \o WithLive(v, from, to) \o tail]}
             \union {[u   |-> [AfterLines(v, k) EXCEPT !.stalled = TRUE],
                      out |-> hole \o WithLive(v, from, k)] : k \in from .. to}
             \union (IF due THEN {[u |-> [v EXCEPT !.stalled = TRUE], out |-> hole]}
                            ELSE {})

\* EngineUpstream.detach
Detached(u) == [u EXCEPT !.sink = 0, !.stalled = FALSE, !.liveAfter = 0]

Released(b, q) == {s \in Pending(b) : s <= q}
Dropped(b, k)  == b.first .. (b.first + k - 1)

-----------------------------------------------------------------------------
Init ==
    /\ up = NoUpstream
    /\ links = [l \in Links |-> NoLink]
    /\ nLinks = 0
    /\ apps = [a \in Apps |-> NoApp]
    /\ marks = [n \in Socks |-> 0]
    /\ log = <<>>
    /\ sheds = 0
    /\ breaks = 0
    /\ hist = [acked |-> {}, shed |-> {}, told |-> {}, forgot |-> {}]

Note(field, n, S) == [hist EXCEPT ![field] = @ \union ({n} \X S)]

-----------------------------------------------------------------------------
(* The IRC socket.                                                         *)

\* EngineUpstream.onOpen
Opens ==
    /\ up.st = "dialing"
    /\ up' = [up EXCEPT !.st = "open"]
    /\ links' = Deliver(links, up.sink, <<[op |-> "open", sock |-> up.sock]>>)
    /\ UNCHANGED <<nLinks, apps, marks, log, sheds, breaks, hist>>

\* EngineUpstream.onLine: buffer.push, which may shed, then flush.  A socket
\* that completes its registration with nobody attached is offered.
ServerLine ==
    /\ up.st = "open"
    /\ LastSeq(up.buf) < MaxSeq
    /\ \E k \in ShedCounts(Pushed(up.buf)) :
         /\ k = 0 \/ sheds < MaxSheds
         /\ sheds' = IF k = 0 THEN sheds ELSE sheds + 1
         /\ hist' = Note("shed", up.sock, Dropped(up.buf, k))
         /\ \E f \in FlushOutcomes([up EXCEPT !.buf = Shed(Pushed(@), k)]) :
              /\ up' = f.u
              /\ links' = IF up.sink = 0 /\ LastSeq(f.u.buf) = BurstEnd
                          THEN Offered(links)
                          ELSE Deliver(links, up.sink, f.out)
    /\ UNCHANGED <<nLinks, apps, marks, log, breaks>>

\* Another connection's line sheds from this backlog: nothing is flushed.
Squeezed ==
    /\ up.st = "open"
    /\ sheds < MaxSheds
    /\ \E k \in ShedCounts(up.buf) \ {0} :
         /\ up' = [up EXCEPT !.buf = Shed(@, k)]
         /\ hist' = Note("shed", up.sock, Dropped(up.buf, k))
    /\ sheds' = sheds + 1
    /\ UNCHANGED <<links, nLinks, apps, marks, log, breaks>>

\* The sink's `drain' event: EngineUpstream.resume.
Drain ==
    /\ up.sink # 0 /\ up.stalled
    /\ \E f \in FlushOutcomes([up EXCEPT !.stalled = FALSE]) :
         /\ up' = f.u
         /\ links' = Deliver(links, up.sink, f.out)
    /\ UNCHANGED <<nLinks, apps, marks, log, sheds, breaks, hist>>

\* EngineUpstream.onClose: the backlog is disposed of, the sink told.
SocketDies ==
    /\ up.st # "none"
    /\ up.sock < MaxSockets
    /\ up' = [NoUpstream EXCEPT !.sock = up.sock]
    /\ links' = Deliver(links, up.sink, <<Op("closed")>>)
    /\ UNCHANGED <<nLinks, apps, marks, log, sheds, breaks, hist>>

-----------------------------------------------------------------------------
(* The engine's side of a link: EngineServer.dispatch, one frame at a time. *)

\* EngineServer.contest for an attach: a newer holder refuses it.
Refused(l) ==
    /\ up.sink \notin {0, l}
    /\ links[up.sink].owner > links[l].owner

\* The superseded holder is told.
Superseded(ls, l) ==
    IF up.sink \in {0, l} THEN ls ELSE Deliver(ls, up.sink, <<Op("detached")>>)

\* faults: `live' before the backlog; `live' after a line that is yet to come
LiveAtOnce(b) == 0
LiveAfterPastEnd(b) == IF Pending(b) = {} THEN 0 ELSE b.next

\* `live' is owed after the last line that exists at the attach; 0 when there
\* is none, and it goes out at once.
LiveAfter(b) == IF Pending(b) = {} THEN 0 ELSE LastSeq(b)

\* EngineUpstream.attach and flushAfterAttach on a registered socket: the
\* replay covers the burst, the rest of the backlog is owed and then `live'.
AttachOutcomes(l) ==
    LET b    == Acked(up.buf, BurstEnd)
        u    == [up EXCEPT !.buf = b, !.sink = l, !.sent = BurstEnd,
                           !.stalled = FALSE, !.liveAfter = LiveAfter(b)]
        head == <<[op |-> "attached", sock |-> up.sock]>>
                    \o (IF u.liveAfter = 0 THEN <<Op("live")>> ELSE <<>>)
    IN  {[u |-> f.u, out |-> head \o f.out] : f \in FlushOutcomes(u)}

\* EngineServer.connect.  An open socket that never finished registering is
\* ended quietly and dialed afresh.
Connect(l, ls) ==
    \/ /\ Refused(l)
       /\ links' = Deliver(ls, l, <<Op("detached")>>)
       /\ UNCHANGED <<up, hist>>
    \/ /\ ~Refused(l)
       /\ up.st = "dialing"
       /\ up' = [up EXCEPT !.sink = l, !.sent = 0, !.stalled = FALSE]
       /\ links' = Deliver(Superseded(ls, l), l, <<Op("dialing")>>)
       /\ UNCHANGED hist
    \/ /\ ~Refused(l)
       /\ Registered
       /\ \E f \in AttachOutcomes(l) :
            /\ up' = f.u
            /\ links' = Deliver(Superseded(ls, l), l, f.out)
       /\ hist' = Note("acked", up.sock, Released(up.buf, BurstEnd))
    \/ /\ ~Refused(l)
       /\ up.st # "dialing" /\ ~Registered
       /\ up.sock < MaxSockets
       /\ up' = Dialing(up.sock + 1, l)
       /\ links' = Deliver(Superseded(ls, l), l, <<Op("dialing")>>)
       /\ UNCHANGED hist

\* EngineServer.release and onLinkClose: the session goes on without l, and is
\* offered to the others.
LetGo(l, ls) ==
    IF up.sink = l
    THEN /\ up' = Detached(up)
         /\ links' = IF Registered THEN Offered(ls) ELSE ls
    ELSE /\ links' = ls
         /\ UNCHANGED up

\* A `hello' is answered with the unclaimed sessions.  An ack is taken from
\* any link, whoever holds the socket.
EngineReads(l) ==
    LET frame == Head(links[l].toEng)
        ls    == [links EXCEPT ![l].toEng = Tail(@)]
    IN  /\ links[l].engEnd
        /\ links[l].toEng # <<>>
        /\ \/ /\ frame.op = "hello"
              /\ links' = IF Registered /\ up.sink = 0
                          THEN Deliver(ls, l, <<Op("held")>>) ELSE ls
              /\ UNCHANGED <<up, hist>>
           \/ /\ frame.op = "connect"
              /\ Connect(l, ls)
           \/ /\ frame.op = "ack"
              /\ links' = ls
              /\ IF up.st = "none" THEN UNCHANGED <<up, hist>>
                 ELSE /\ up' = [up EXCEPT !.buf = Acked(@, frame.seq)]
                      /\ hist' = Note("acked", up.sock, Released(up.buf, frame.seq))
           \/ /\ frame.op = "detach"
              /\ LetGo(l, ls)
              /\ UNCHANGED hist
        /\ UNCHANGED <<nLinks, apps, marks, log, sheds, breaks>>

\* EngineServer.onLinkClose: end of file, once everything before it was read.
EngineSeesEOF(l) ==
    /\ links[l].engEnd /\ ~links[l].appEnd
    /\ links[l].toEng = <<>>
    /\ LetGo(l, [links EXCEPT ![l].engEnd = FALSE])
    /\ UNCHANGED <<nLinks, apps, marks, log, sheds, breaks, hist>>

\* EngineServer.sweepSilentLinks: what the app has not sent yet is lost, and
\* so may be what it has not read.
EngineDropsLink(l) ==
    /\ links[l].engEnd /\ links[l].appEnd
    /\ MayBreak
    /\ breaks' = breaks + 1
    /\ \E kept \in PrefixesOf(links[l].toApp) :
         LetGo(l, [links EXCEPT ![l].engEnd = FALSE, ![l].toEng = <<>>,
                                ![l].toApp = kept])
    /\ UNCHANGED <<nLinks, apps, marks, log, sheds, hist>>

-----------------------------------------------------------------------------
(* An app process.                                                         *)

\* A process starts, a link opens and IrcConnection.connect asks over it.  A
\* rolling deploy starts one while its predecessor runs.
Boot(a) ==
    /\ apps[a].st = "unborn"
    /\ \A b \in Apps : b < a => apps[b].st # "unborn"
    /\ nLinks < MaxLinks
    /\ nLinks' = nLinks + 1
    /\ links' = [links EXCEPT ![nLinks + 1] = NewLink(a, "connect")]
    /\ apps' = [apps EXCEPT ![a].st = "asking", ![a].link = nLinks + 1]
    /\ UNCHANGED <<up, marks, log, sheds, breaks, hist>>

\* EngineLink reconnects; a waiting transport registers again and asks, and a
\* process with no connection under the id hears what is unclaimed.
Relink(a) ==
    /\ apps[a].st \in {"linkless", "over"} /\ apps[a].link = 0
    /\ nLinks < MaxLinks
    /\ nLinks' = nLinks + 1
    /\ IF apps[a].st = "linkless"
       THEN /\ links' = [links EXCEPT ![nLinks + 1] = NewLink(a, "connect")]
            /\ apps' = [apps EXCEPT ![a].st = "asking", ![a].link = nLinks + 1]
       ELSE /\ links' = [links EXCEPT ![nLinks + 1] = NewLink(a, "hello")]
            /\ apps' = [apps EXCEPT ![a].link = nLinks + 1]
    /\ UNCHANGED <<up, marks, log, sheds, breaks, hist>>

\* The backoff after a closed socket ends: CONNECT again, on the same link.
Redial(a) ==
    /\ apps[a].st = "redial"
    /\ apps' = [apps EXCEPT ![a].st = "asking"]
    /\ links' = Ask(links, apps[a].link, Op("connect"))
    /\ UNCHANGED <<up, nLinks, marks, log, sheds, breaks, hist>>

\* Between two lines: nothing being stored, no microtask waiting.
Idle(a) == apps[a].todo = {} /\ apps[a].ackSeq = 0

\* EngineTransport.end, and what IrcConnection clears on `close'.
Ended(p, st) == [NoApp EXCEPT !.st = st, !.link = p.link]

\* The app's end of the link goes; the engine may still read a prefix of what
\* was sent.  EngineTransport.onLost waits for the next link.
LinkLost(a) ==
    LET l == apps[a].link IN
    /\ Alive(a) /\ Idle(a)
    /\ l # 0 /\ links[l].appEnd
    /\ \/ MayBreak /\ breaks' = breaks + 1
       \/ ~links[l].engEnd /\ links[l].toApp = <<>> /\ UNCHANGED breaks
    /\ \E read \in PrefixesOf(links[l].toEng) :
         links' = [links EXCEPT ![l].appEnd = FALSE, ![l].toEng = read,
                                ![l].toApp = <<>>]
    /\ apps' = [apps EXCEPT ![a] =
                  [NoApp EXCEPT !.st = IF apps[a].st = "over" THEN "over" ELSE "linkless"]]
    /\ UNCHANGED <<up, nLinks, marks, log, sheds, hist>>

\* The process dies at any point, between two rows of one line included.
Crash(a) ==
    LET l == apps[a].link IN
    /\ Alive(a)
    /\ a < MaxApps /\ MayBreak
    /\ breaks' = breaks + 1
    /\ apps' = [apps EXCEPT ![a] = [NoApp EXCEPT !.st = "gone"]]
    /\ \E read \in IF l = 0 THEN {<<>>} ELSE PrefixesOf(links[l].toEng) :
         links' = IF l = 0 THEN links
                  ELSE [links EXCEPT ![l].appEnd = FALSE, ![l].toEng = read,
                                     ![l].toApp = <<>>]
    /\ UNCHANGED <<up, nLinks, marks, log, sheds, hist>>

\* Graceful shutdown: IrcConnection.detach, then EngineLink.stop half-closes
\* the link, so everything written before it arrives.
Shutdown(a) ==
    LET l == apps[a].link IN
    /\ Alive(a) /\ Idle(a)
    /\ a < MaxApps /\ MayLeave
    /\ apps' = [apps EXCEPT ![a] = [NoApp EXCEPT !.st = "gone"]]
    /\ links' = IF l = 0 THEN links
                ELSE [IF apps[a].st = "up" THEN Ask(links, l, Op("detach")) ELSE links
                        EXCEPT ![l].appEnd = FALSE, ![l].toApp = <<>>]
    /\ UNCHANGED <<up, nLinks, marks, log, sheds, breaks, hist>>

\* pruneEngineMarks: forget every socket's mark but keep's.
Pruned(keep) == [n \in Socks |-> IF n = keep THEN marks[n] ELSE 0]
Forgotten(keep) == {n \in Socks \ {keep} : marks[n] # 0}

\* The rows irc-framework's handlers publish while line s is delivered: its
\* own, or those of the batch it closes, as far as this client saw them.
RowsFor(p, s) ==
    LET start == BatchStart[s]
    IN  {i \in 1 .. RowsAt[s] : start = s \/ {start, start + i} \subseteq p.known}

InOpenBatch(s) == \E z \in Seqs : BatchStart[z] # z /\ s \in BatchStart[z] .. (z - 1)

Delivering(p, s) ==
    LET rows  == RowsFor(p, s)
        known == IF InOpenBatch(s) THEN p.known \union {s}
                 ELSE p.known \ (BatchStart[s] .. s)
    IN  IF rows = {} THEN [p EXCEPT !.known = known, !.ackSeq = s]
        ELSE [p EXCEPT !.known = known, !.at = s, !.todo = rows]

\* EngineTransport.onFrame and IrcConnection.onEnginePhase for one frame.
OnFrame(a, frame) ==
    LET p == apps[a] IN
    \/ /\ frame.op = "dialing"
       /\ apps' = [apps EXCEPT ![a] = Ended(p, "asking")]
       /\ marks' = Pruned(0)
       /\ hist' = [hist EXCEPT !.forgot = @ \union Forgotten(0)]
    \/ /\ frame.op = "open"
       /\ apps' = [apps EXCEPT ![a].st = "up", ![a].sock = frame.sock]
       /\ UNCHANGED <<marks, hist>>
    \/ /\ frame.op = "attached"
       /\ apps' = [apps EXCEPT ![a] =
                     [Ended(p, "up") EXCEPT !.sock = frame.sock,
                                            !.catching = TRUE,
                                            !.maxRow = Len(log)]]
       /\ marks' = Pruned(frame.sock)
       /\ hist' = [hist EXCEPT !.forgot = @ \union Forgotten(frame.sock)]
    \/ /\ frame.op = "line"
       /\ apps' = [apps EXCEPT ![a] = Delivering(p, frame.seq)]
       /\ UNCHANGED <<marks, hist>>
    \/ /\ frame.op = "gap"
       /\ hist' = Note("told", frame.sock, frame.gap.first .. frame.gap.last)
       /\ UNCHANGED <<apps, marks>>
    \/ /\ frame.op = "live"
       /\ apps' = [apps EXCEPT ![a].catching = FALSE, ![a].maxRow = 0]
       /\ UNCHANGED <<marks, hist>>
    \/ /\ frame.op = "detached"
       /\ apps' = [apps EXCEPT ![a] = Ended(p, "over")]
       /\ UNCHANGED <<marks, hist>>
    \/ /\ frame.op = "closed"
       /\ apps' = [apps EXCEPT ![a] = Ended(p, "redial")]
       /\ UNCHANGED <<marks, hist>>

\* EngineLink.route: a session on offer is adopted by a process that has no
\* connection for it (IrcManager.reconcileHeld); a frame nobody handles is
\* dropped.
AppReads(a) ==
    LET l     == apps[a].link
        p     == apps[a]
        frame == Head(links[l].toApp)
        ls    == [links EXCEPT ![l].toApp = Tail(@)]
    IN  /\ Alive(a) /\ p.todo = {}
        /\ l # 0 /\ links[l].toApp # <<>>
        /\ IF frame.op = "held" /\ p.st = "over"
           THEN /\ links' = Ask(ls, l, Op("connect"))
                /\ apps' = [apps EXCEPT ![a].st = "asking"]
                /\ UNCHANGED <<marks, hist>>
           ELSE /\ links' = ls
                /\ IF frame.op = "held" \/ p.st \notin {"asking", "up"}
                   THEN UNCHANGED <<apps, marks, hist>>
                   ELSE OnFrame(a, frame)
        /\ UNCHANGED <<up, nLinks, log, sheds, breaks>>

\* IrcConnection.alreadyPersisted, in the catch-up window only: the mark, then
\* the probe of the rows older than this attach.
AlreadyPersisted(p, row) ==
    /\ p.catching
    /\ \/ p.at <= marks[p.sock]
       \/ \E i \in 1 .. p.maxRow : log[i] = row

\* faults: the mark is not consulted; it refuses the line after it as well
NeverRefused(p) == FALSE
RefusedOneTooMany(p) ==
    IF p.under = p.at THEN p.at < marks[p.sock] ELSE p.at <= marks[p.sock] + 1

\* db/engineMarks storeUnderMark: refused when the mark says another process
\* stored this line.
RefusedByMark(p) ==
    IF p.under = p.at THEN p.at < marks[p.sock] ELSE p.at <= marks[p.sock]

\* IrcConnection.publish for the next row of the line being delivered: the row
\* and the mark in one transaction, or neither.  After the last row the ack
\* is queued.
StoreRow(a) ==
    LET p     == apps[a]
        row   == [sock |-> p.sock, seq |-> p.at, part |-> Min(p.todo)]
        store == ~AlreadyPersisted(p, row) /\ ~RefusedByMark(p)
        last  == p.todo = {Min(p.todo)}
    IN  /\ p.todo # {}
        /\ log' = IF store THEN Append(log, row) ELSE log
        /\ marks' = IF store /\ marks[p.sock] < p.at
                    THEN [marks EXCEPT ![p.sock] = p.at] ELSE marks
        /\ apps' = [apps EXCEPT ![a].todo = @ \ {Min(@)},
                                ![a].under = IF store THEN p.at ELSE @,
                                ![a].at = IF last THEN 0 ELSE @,
                                ![a].ackSeq = IF last THEN p.at ELSE @]
        /\ UNCHANGED <<up, links, nLinks, sheds, breaks, hist>>

\* The microtask after a batch of lines: one ack for all of them.
SendAck(a) ==
    /\ apps[a].ackSeq # 0 /\ apps[a].todo = {}
    /\ links' = Ask(links, apps[a].link, [op |-> "ack", seq |-> apps[a].ackSeq])
    /\ apps' = [apps EXCEPT ![a].ackSeq = 0]
    /\ UNCHANGED <<up, nLinks, marks, log, sheds, breaks, hist>>

-----------------------------------------------------------------------------
EngineStep == Opens \/ ServerLine \/ Squeezed \/ Drain \/ SocketDies

LinkStep(l) == EngineReads(l) \/ EngineSeesEOF(l) \/ EngineDropsLink(l)

AppStep(a) ==
    \/ Boot(a) \/ Relink(a) \/ Redial(a)
    \/ LinkLost(a) \/ Crash(a) \/ Shutdown(a)
    \/ AppReads(a) \/ StoreRow(a) \/ SendAck(a)

Next ==
    \/ EngineStep
    \/ \E l \in Links : LinkStep(l)
    \/ \E a \in Apps : AppStep(a)

Spec == Init /\ [][Next]_vars

-----------------------------------------------------------------------------
(* Properties.                                                             *)

Row == [sock : Socks, seq : Seqs, part : Nat]

\* Types; the numbers the engine hands out and the marks stay within the lines
\* there are (EngineUpstream, engineMarks.ts).
TypeOK ==
    /\ up.st \in {"none", "dialing", "open"}
    /\ up.buf \in BufferType
    /\ up.sink \in {0} \union Links
    /\ up.sock \in 0 .. MaxSockets
    /\ {up.sent, up.liveAfter} \subseteq {0} \union Seqs
    /\ nLinks \in 0 .. MaxLinks
    /\ \A l \in Links : links[l].owner \in {0} \union Apps
    /\ \A a \in Apps :
          /\ apps[a].st \in {"unborn", "linkless", "asking", "up", "redial", "over", "gone"}
          /\ apps[a].link \in {0} \union Links
          /\ apps[a].sock \in {0} \union Socks
    /\ marks \in [Socks -> {0} \union Seqs]
    /\ log \in Seq(Row)

\* The rows a line stands for.
RowsOf(n, s) == {[sock |-> n, seq |-> s, part |-> i] : i \in 1 .. RowsAt[s]}
StoredRows == ToSet(log)

\* A line the engine let go of because of an ack has every row it stands for:
\* "the ack can never get ahead of the row" (engineTransport.ts:424-426), and
\* so says the ack frame itself (engine/protocol.ts:154).
AckedIsPersisted ==
    \A n \in Socks, z \in Seqs :
        {n} \X (BatchStart[z] .. z) \subseteq hist.acked
            => RowsOf(n, z) \subseteq StoredRows

\* A row is stored twice only on a socket whose mark was pruned meanwhile:
\* "whichever process gets there second stores nothing"
\* (db/engineMarks.ts:25-29).
SecondCopyNeedsPrune ==
    \A i, j \in DOMAIN log :
        i < j /\ log[i] = log[j] => log[i].sock \in hist.forgot

\* What the engine delivers past `live' nobody has stored: outside the
\* catch-up window no line is probed for, so a repeat delivered there would
\* rest on the mark alone (ircConnection.ts:7688-7690).
LiveLinesAreNew ==
    \A a \in Apps :
        LET p == apps[a] IN
        /\ p.todo # {} /\ p.under # p.at
        /\ ~p.catching /\ up.sink = p.link
        => \A r \in StoredRows : r.sock = p.sock => r.seq < p.at

\* The relay keeps the promise of MessageLog, for lines of one row each.
PromisedLog == INSTANCE MessageLog WITH
    Sockets <- Socks,
    Lines   <- {s \in Seqs : RowsAt[s] # 0},
    rows    <- [i \in DOMAIN log |-> <<log[i].sock, log[i].seq>>],
    holes   <- {e \in hist.shed : RowsAt[e[2]] # 0},
    forgot  <- hist.forgot

ImplementsMessageLog == PromisedLog!LogSpec

-----------------------------------------------------------------------------
(* Fairness: what the event loops and the kernels see to.  A process reads *)
(* what arrived, finishes what it started, reconnects on its backoff timer *)
(* and is started again when none is left; a link carries what was written *)
(* to it; a sink that is read drains.  Nothing makes a link break, a       *)
(* process die or a line arrive.                                           *)

Restart(a) == Boot(a) /\ \A b \in Apps : ~Alive(b)
NoticesLoss(a) == LinkLost(a) /\ UNCHANGED breaks

Fairness ==
    /\ WF_vars(Opens) /\ WF_vars(Drain)
    /\ \A l \in Links : WF_vars(EngineReads(l)) /\ WF_vars(EngineSeesEOF(l))
    /\ \A a \in Apps :
          /\ WF_vars(Restart(a)) /\ WF_vars(NoticesLoss(a))
          /\ WF_vars(Relink(a)) /\ WF_vars(Redial(a))
          /\ WF_vars(AppReads(a)) /\ WF_vars(StoreRow(a)) /\ WF_vars(SendAck(a))

FairSpec == Spec /\ Fairness

\* Every line received on the socket that the backlog does not shed is stored in
\* the end, whatever links break and processes come and go: what a dead link cut
\* off is sent again, and to somebody (engine/upstream.ts flush, server.ts offer).
LineSettles ==
    \A s \in {t \in Seqs : RowsAt[t] # 0} :
        (up.sock = 1 /\ up.st = "open" /\ LastSeq(up.buf) >= s)
            ~> (RowsOf(1, s) \subseteq StoredRows \/ <<1, s>> \in hist.shed)

\* A line the backlog shed before it was stored is told of as part of a hole:
\* "the app will learn the shape of the hole from the recorded gap"
\* (engine/lineBuffer.ts:8-9).
ShedIsTold ==
    \A s \in {t \in Seqs : RowsAt[t] # 0} :
        <<1, s>> \in hist.shed
            ~> (RowsOf(1, s) \subseteq StoredRows \/ <<1, s>> \in hist.told)

=============================================================================
