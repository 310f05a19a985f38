---------------------------- MODULE Chathistory ----------------------------
(***************************************************************************)
(* Filling a gap from the network's history: the paged walks of            *)
(* services/chathistoryBackfill.ts over one socket that outlives the link  *)
(* to the engine, with the reply router's rule for whose an answer is      *)
(* (services/replyRouter.ts, form `chathistory') and the feeds of          *)
(* services/ircConnection.ts.                                              *)
(*                                                                         *)
(* A line of history is its target and its index in log.times; its time is *)
(* in milliseconds.  All windows end together, after every time of the log.*)
(* Server lines are read one by one; those of a batch are stored when its  *)
(* end is read, as irc-framework holds them until then, whoever asked.     *)
(*                                                                         *)
(* A definition marked `fault' is a plausible mistake in the one that      *)
(* follows it; it breaks a property below when put in its place.           *)
(***************************************************************************)
EXTENDS Integers, Sequences, FiniteSets, SequencesExt

CONSTANTS
    Channels,     \* channels of the network
    Peers,        \* the nicks of its conversations
    Logs,         \* bound: histories, [times: per target, held: lines we hold, off]
    PageLimit,        \* the network's limit of a page
    Fuzz,         \* BOUND_FUZZ_MS
    Strikes,      \* UNANSWERED_STRIKES
    MaxWindows,   \* bound: times a window is wanted
    MaxUnlinked,  \* bound: times the link to the engine drops
    MaxUnheard    \* bound: requests that are refused or get no answer in time

Targets == Channels \union Peers

\* `off': how far the time we stored for the newest line held is from the server's.
ASSUME ChathistoryConstants ==
    /\ {PageLimit, Strikes} \subseteq Nat \ {0} /\ Fuzz \in Nat \ {0, 1}
    /\ {MaxWindows, MaxUnlinked, MaxUnheard} \subseteq Nat
    /\ Channels \intersect Peers = {}
    /\ \A l \in Logs :
        /\ l.times \in [Targets -> Seq(Nat)] /\ l.off \in -1 .. 1
        /\ \A t \in Targets : /\ l.held[t] \in 0 .. Len(l.times[t])
                              /\ \A i \in 2 .. Len(l.times[t]) :
                                    l.times[t][i - 1] <= l.times[t][i]

VARIABLES
    log,         \* the network's history, and how much of it we held
    walks,       \* ChathistoryBackfill.queue
    asking,      \* ChathistoryBackfill.active, Idle if null
    available,   \* ChathistoryBackfill.available
    unanswered,  \* ChathistoryBackfill.unanswered
    linked,      \* the link to the engine: "down", "replaying" or "live"
    atServer,    \* requests sent and not answered
    inbound,     \* lines of the server (and the engine's `live') not read yet
    opened,      \* batches whose start this link brought
    got,         \* lines of history stored from a batch
    caughtUp,    \* walks that ended with nothing left to ask
    foreign,     \* walks that took an answer to another walk's request
    shifted,     \* walks that took an answer to an earlier request of theirs
    sent,        \* requests sent
    wanted, unlinked, unheard  \* bounds

historyVars == <<log, walks, asking, available, unanswered, linked, atServer, inbound,
                 opened, got, caughtUp, foreign, shifted, sent, wanted, unlinked, unheard>>

NoOne == "*"
Idle == [ref |-> -1]
LiveFrame == [op |-> "live"]

-----------------------------------------------------------------------------
(* The server: both bounds of a request are exclusive, the oldest first.   *)

NewestOf(t) == IF log.times[t] = <<>> THEN 0 ELSE Last(log.times[t])

\* Its lines, as <<target, index, time>>; of a TARGETS, one per conversation.
Matching(req) ==
    IF req.kind = "between"
    THEN {<<req.target, i, log.times[req.target][i]>> : i \in DOMAIN log.times[req.target]}
    ELSE {<<t, Len(log.times[t]), NewestOf(t)>> : t \in Targets}
Answering(req) == {m \in Matching(req) : m[3] > req.from}
\* A target's lines by index, conversations by their newest time.
Page(req) ==
    LET all == SetToSortSeq(Answering(req),
                            LAMBDA a, b : a[3] < b[3] \/ (a[3] = b[3] /\ a[2] < b[2]))
    IN  SubSeq(all, 1, IF Len(all) > PageLimit THEN PageLimit ELSE Len(all))

-----------------------------------------------------------------------------
(* ChathistoryBackfill.                                                    *)

\* fault: from just above the newest line of the page
NextFromAbove(from, newest) == IF newest > from THEN newest ELSE from
\* A millisecond under the newest line; the line's own where that does not move;
\* where nothing does, from for null.
NextFrom(from, newest) ==
    IF newest - 1 > from THEN newest - 1 ELSE IF newest > from THEN newest ELSE from

\* A line's time as the row has it, and the bound below it.
Newest(t) == Max({i \in DOMAIN log.times[t] : i <= log.held[t] \/ <<t, i>> \in got})
Anchored == {t \in Targets : \E i \in DOMAIN log.times[t] :
                                i <= log.held[t] \/ <<t, i>> \in got}
Under(anchor) == anchor - Fuzz
Anchor(t) == log.times[t][Newest(t)] + log.off

\* from: where the next page starts; origin: as first asked; starts: where the
\* window of each conversation would, and seen, those that have one; id: of what
\* wanted it.
Between(t, from, id) == [kind |-> "between", target |-> t, from |-> from, origin |-> from,
                         starts |-> <<>>, seen |-> {}, id |-> id]
TargetsWalk(id) ==
    LET from == Under(Max({Anchor(t) : t \in Anchored})) IN
    [kind |-> "targets", target |-> NoOne, from |-> from, origin |-> from,
     starts |-> [t \in Peers |-> IF t \in Anchored THEN Under(Anchor(t)) ELSE from],
     seen |-> {}, id |-> id]

\* next(), the walk on the wire being over: `waiting' is the queue, `asked' what
\* is at the server.
Proceed(waiting, asked) ==
    IF waiting = <<>> \/ ~available
    THEN asking' = Idle /\ walks' = waiting /\ atServer' = asked /\ UNCHANGED sent
    ELSE LET w == Head(waiting) IN
         /\ asking' = [ref |-> 0, walk |-> w] /\ walks' = Tail(waiting)
         /\ atServer' = Append(asked, [kind |-> w.kind, target |-> w.target,
                                       from |-> w.from, id |-> w.id, ref |-> sent + 1])
         /\ sent' = sent + 1

Enqueue(w) ==
    IF ~available THEN UNCHANGED <<walks, asking, atServer, sent>>
    ELSE IF asking # Idle
    THEN walks' = Append(walks, w) /\ UNCHANGED <<asking, atServer, sent>>
    ELSE Proceed(Append(walks, w), atServer)

\* The conversations a TARGETS page names that have no window of it yet.
Named(w, page) == SelectSeq(page, LAMBDA m : m[1] \in Peers \ w.seen)

\* A page in full, with where the next would start.
More(w, page, last) == /\ Len(page) >= PageLimit /\ ~last
                       /\ NextFrom(w.from, Last(page)[3]) # w.from

\* ended, endedTargets: the walk goes to the front, for its next page, and the
\* windows it found to the back.
Replied(w, page, last) ==
    LET named == IF w.kind = "targets" THEN Named(w, page) ELSE <<>>
        w1 == [w EXCEPT !.seen = @ \union {m[1] : m \in Range(named)}]
        windows == [i \in DOMAIN named |-> Between(named[i][1], w.starts[named[i][1]], w.id)]
        more == More(w, page, last)
    IN  /\ Proceed((IF more THEN <<[w1 EXCEPT !.from = NextFrom(w.from, Last(page)[3])]>>
                            ELSE <<>>) \o walks \o windows, atServer)
        /\ caughtUp' = IF more THEN caughtUp ELSE caughtUp \union {w1}

-----------------------------------------------------------------------------
(* What wants a window.                                                    *)

HistoryInit ==
    /\ log \in Logs
    /\ walks = <<>> /\ asking = Idle /\ available = TRUE /\ unanswered = 0
    /\ linked = "live" /\ atServer = <<>> /\ inbound = <<>> /\ opened = {}
    /\ got = {} /\ caughtUp = {} /\ foreign = {} /\ shifted = {} /\ sent = 0
    /\ wanted = 0 /\ unlinked = 0 /\ unheard = 0

Wants == /\ linked # "down" /\ wanted < MaxWindows /\ wanted' = wanted + 1
         /\ UNCHANGED <<log, available, unanswered, linked, inbound, opened, got, caughtUp,
                        foreign, shifted, unlinked, unheard>>

\* Our JOIN and its NAMES; a hole in the engine's backlog asks the same.
ChannelJoined(t) ==
    /\ Wants /\ t \in Anchored
    /\ Enqueue(Between(t, Under(Anchor(t)), wanted))

\* WhenRegistered.
WhenRegistered == Wants /\ Anchored # {} /\ Enqueue(TargetsWalk(wanted))

-----------------------------------------------------------------------------
(* The server's side.                                                      *)

Serves == /\ atServer # <<>> /\ atServer' = Tail(atServer)
          /\ UNCHANGED <<log, walks, asking, available, unanswered, linked, opened, got,
                         caughtUp, foreign, shifted, sent, wanted, unlinked>>

\* The last page may say that it is.
ServerAnswers ==
    /\ Serves /\ UNCHANGED unheard
    /\ \E last \in {FALSE, Len(Page(Head(atServer))) = Cardinality(Answering(Head(atServer)))} :
        inbound' = inbound \o <<[op |-> "open", req |-> Head(atServer), last |-> last],
                                [op |-> "close", req |-> Head(atServer), last |-> last]>>

Refuses ==
    /\ Serves /\ unheard < MaxUnheard /\ unheard' = unheard + 1
    /\ inbound' = Append(inbound, [op |-> "fail", req |-> Head(atServer), last |-> FALSE])

\* Of a request that was given up, nothing may come.
Ignores == /\ Serves /\ UNCHANGED <<inbound, unheard>>
           /\ asking = Idle \/ Head(atServer).ref # sent

-----------------------------------------------------------------------------
(* What is read: the router gives a line to the query on the wire that it  *)
(* fits, and the walk takes it then.                                       *)

Reads(op) == /\ linked # "down" /\ inbound # <<>> /\ Head(inbound).op = op
             /\ inbound' = Tail(inbound)
             /\ UNCHANGED <<log, wanted, unlinked, unheard>>

Mine(req) == /\ asking # Idle /\ asking.ref = 0
             /\ req.kind = asking.walk.kind /\ req.target = asking.walk.target

KeyOf(w) == <<w.id, w.target>>

\* BATCH +
BatchOpens ==
    LET req == Head(inbound).req IN
    /\ Reads("open")
    /\ opened' = opened \union {req.ref}
    /\ IF Mine(req)
       THEN /\ asking' = [asking EXCEPT !.ref = req.ref] /\ unanswered' = 0
            /\ foreign' = IF KeyOf(req) # KeyOf(asking.walk)
                          THEN foreign \union {KeyOf(asking.walk)} ELSE foreign
            /\ shifted' = IF KeyOf(req) = KeyOf(asking.walk) /\ req.ref # sent
                          THEN shifted \union {KeyOf(asking.walk)} ELSE shifted
       ELSE UNCHANGED <<asking, unanswered, foreign, shifted>>
    /\ UNCHANGED <<walks, available, linked, atServer, got, caughtUp, sent>>

\* BATCH -
BatchCloses ==
    LET f == Head(inbound) IN
    /\ Reads("close")
    /\ opened' = opened \ {f.req.ref}
    /\ got' = IF f.req.kind = "between" /\ f.req.ref \in opened
              THEN got \union {<<m[1], m[2]>> : m \in Range(Page(f.req))} ELSE got
    /\ UNCHANGED <<available, unanswered, linked, foreign, shifted>>
    /\ IF asking # Idle /\ asking.ref = f.req.ref
       THEN Replied(asking.walk, Page(f.req), f.last)
       ELSE UNCHANGED <<walks, asking, atServer, caughtUp, sent>>

\* A FAIL is the query's whose subcommand it names, and whose channel if it
\* names one: a nick is not compared.
FailIsFor(req) == /\ asking # Idle /\ req.kind = asking.walk.kind
                  /\ req.target \in Channels => req.target = asking.walk.target

Fails ==
    /\ Reads("fail")
    /\ UNCHANGED <<available, unanswered, linked, opened, got, caughtUp, foreign, shifted>>
    /\ IF FailIsFor(Head(inbound).req) THEN Proceed(walks, atServer)
       ELSE UNCHANGED <<walks, asking, atServer, sent>>

\* The router gives the query up.  A page that opened may close yet, its walk is
\* over; the second request in a row that drew nothing ends all.
TimesOut ==
    LET strikes == IF asking.ref = 0 THEN unanswered + 1 ELSE unanswered
        over == asking.ref = 0 /\ strikes >= Strikes
    IN  /\ asking # Idle /\ linked # "down"
        /\ unheard < MaxUnheard /\ unheard' = unheard + 1
        /\ unanswered' = strikes /\ available' = (available /\ ~over)
        /\ Proceed(IF over THEN <<>> ELSE walks, atServer)
        /\ UNCHANGED <<log, linked, inbound, opened, got, caughtUp, foreign, shifted,
                       wanted, unlinked>>

-----------------------------------------------------------------------------
(* The link to the engine, and the socket.                                 *)

\* suspend
Suspend == IF asking = Idle THEN walks ELSE <<asking.walk>> \o walks

\* The engine keeps what the server says; the request may not have gone yet.
LinkDrops ==
    /\ linked # "down" /\ unlinked < MaxUnlinked
    /\ unlinked' = unlinked + 1 /\ linked' = "down"
    /\ walks' = Suspend /\ asking' = Idle
    /\ \/ UNCHANGED atServer
       \/ asking # Idle /\ atServer' = SelectSeq(atServer, LAMBDA r : r.ref # sent)
    /\ opened' = {} /\ inbound' = SelectSeq(inbound, LAMBDA f : f # LiveFrame)
    /\ UNCHANGED <<log, available, unanswered, got, caughtUp, foreign, shifted, sent,
                   wanted, unheard>>

\* The engine replays what it kept, and then says `live'.
LinkReturns ==
    /\ linked = "down" /\ linked' = "replaying"
    /\ inbound' = Append(inbound, LiveFrame)
    /\ UNCHANGED <<log, walks, asking, available, unanswered, atServer, opened, got,
                   caughtUp, foreign, shifted, sent, wanted, unlinked, unheard>>

\* fault: the walk waits for the next window that is wanted
LiveWithoutResume == UNCHANGED <<walks, asking, atServer, sent>>
ResumeWalks == IF asking = Idle THEN Proceed(walks, atServer)
          ELSE UNCHANGED <<walks, asking, atServer, sent>>

GoesLive ==
    /\ Reads("live") /\ linked' = "live" /\ ResumeWalks
    /\ UNCHANGED <<available, unanswered, opened, got, caughtUp, foreign, shifted>>

\* The socket itself: every walk goes with it.
SocketGoes ==
    /\ linked = "live" /\ unlinked < MaxUnlinked /\ unlinked' = unlinked + 1
    /\ walks' = <<>> /\ asking' = Idle /\ available' = TRUE /\ unanswered' = 0
    /\ atServer' = <<>> /\ inbound' = <<>> /\ opened' = {}
    /\ UNCHANGED <<log, linked, got, caughtUp, foreign, shifted, sent, wanted, unheard>>

HistoryNext ==
    \/ \E t \in Channels : ChannelJoined(t)
    \/ WhenRegistered
    \/ ServerAnswers \/ Refuses \/ Ignores
    \/ BatchOpens \/ BatchCloses \/ Fails \/ TimesOut
    \/ LinkDrops \/ LinkReturns \/ GoesLive \/ SocketGoes

HistorySpec == HistoryInit /\ [][HistoryNext]_historyVars

-----------------------------------------------------------------------------
(* Properties.                                                             *)

HistoryTypeOK ==
    /\ log \in Logs /\ available \in BOOLEAN /\ unanswered \in 0 .. Strikes
    /\ linked \in {"down", "replaying", "live"}
    /\ asking = Idle \/ asking.ref \in 0 .. sent
    /\ \A w \in Range(walks) \union caughtUp \union
              (IF asking = Idle THEN {} ELSE {asking.walk}) :
        /\ w.kind \in {"between", "targets"} /\ w.target \in Targets \union {NoOne}
        /\ w.from \in Int /\ w.from >= w.origin /\ w.seen \subseteq Peers
        /\ w.id \in 0 .. MaxWindows
    /\ \A q \in Range(atServer) : q.ref \in 1 .. sent
    /\ opened \subseteq 1 .. sent
    /\ \A l \in got : l[1] \in Targets /\ l[2] \in DOMAIN log.times[l[1]]

Sharing(times, time) == Cardinality({i \in DOMAIN times : times[i] = time})

\* What a walk w over these times may leave behind: what a page cannot hold of a
\* millisecond; and anything once a page that is all of one millisecond was
\* answered twice, as the second of the two then moves nothing.
GivenUp(w, times, time) ==
    \/ Sharing(times, time) > PageLimit
    \/ KeyOf(w) \in shifted /\ \E other \in Range(times) : Sharing(times, other) >= PageLimit

\* A walk that was caught up left no line of its window behind, and no
\* conversation unasked, but what nextFrom gives up (chathistoryBackfill.ts), and
\* unless it took the answer to another walk's request for its own.  Two answers
\* for one page, the second asked for after the link was lost, do no other harm.
NothingSkipped ==
    \A w \in caughtUp : KeyOf(w) \notin foreign =>
        IF w.kind = "between"
        THEN \A i \in DOMAIN log.times[w.target] : log.times[w.target][i] > w.origin =>
                \/ i <= log.held[w.target] \/ <<w.target, i>> \in got
                \/ GivenUp(w, log.times[w.target], log.times[w.target][i])
        ELSE \A t \in Peers : NewestOf(t) > w.origin =>
                t \in w.seen \/ GivenUp(w, [u \in Targets |-> NewestOf(u)], NewestOf(t))

\* While the link is up a walk waits only behind one on the wire
\* (chathistoryBackfill.ts, next): none is left over by the end of another, by
\* the link's return, or by a verdict on the cap.
WalkGoesOn == linked = "live" /\ asking = Idle => walks = <<>>

=============================================================================
