----------------------------- MODULE SendPacer -----------------------------
(***************************************************************************)
(* services/sendPacer.ts: the outbound queue of one IRC connection, with   *)
(* the connection's phases that hold, resume and drop it                   *)
(* (services/ircConnection.ts) and the clock the server keeps of us.       *)
(*                                                                         *)
(* One turn of drain()'s loop is a step: while `draining' holds, the call  *)
(* stack is not empty, and nothing else happens but the writes a hook      *)
(* makes.  Time is in ticks of one short line's charge (2 s).              *)
(*                                                                         *)
(* A definition marked `fault' is a plausible mistake in the one that      *)
(* follows it; it breaks a property below when put in its place.           *)
(***************************************************************************)
EXTENDS Integers, Sequences, FiniteSets, SequencesExt

CONSTANTS
    Mixes,       \* bound: what one behaviour may mix, [kinds of item, how many
                 \* of them, whether flood protection is turned off and on]
    Budget,      \* BURST_BUDGET_MS
    LongCost,    \* what a long line (MONITOR) costs
    UnitLines,   \* lines of a draft/multiline batch
    MaxKeyed,    \* DEFAULT_MAX_KEYED
    MaxItems,    \* bound: items written in any behaviour
    MaxSockets   \* bound: sockets dialed

\* nick: a line of the high lane, held through a restore; chat: a line;
\* offer: a DCC offer, which may be withdrawn; batch: a unit; secret: an E2E
\* message, a thunk that makes the pending REKEY and a thunk for its chunks;
\* keyA, keyB: handshake replies under two keys; monitor: a long line, and
\* poll a line of the walk, in the low lane; ping: past the lanes.
AllKinds == {"nick", "chat", "offer", "batch", "secret", "keyA", "keyB",
             "monitor", "poll", "ping"}

ASSUME PacerConstants ==
    /\ \A m \in Mixes : /\ m.kinds \subseteq AllKinds
                       /\ m.most \in 0 .. MaxItems /\ m.edit \in BOOLEAN
    /\ {LongCost, UnitLines, MaxKeyed, MaxSockets} \subseteq Nat \ {0}
    /\ {Budget, MaxItems} \subseteq Nat
    /\ LongCost <= Budget

VARIABLES
    lanes,     \* per lane, the entries waiting
    ahead,     \* since - now(), 0 when the past
    timer,     \* ticks until the scheduled drain, NoTimer if none
    draining,
    refused,   \* toldAtRefusal: the hooks a refusal has called
    link,      \* of the connection
    quitting,  \* intentionalDisconnect: the socket takes nothing
    paced,     \* the network's flood protection
    items,     \* history: what was written, with its arrival order
    heard,     \* history: per item, how often it was told sent and dropped
    rekeys,    \* REKEYs: made so far, queued by the E2E manager, void
    gone,      \* history: entries that left the lanes for the socket
    server,    \* the server's clock for us: debt; on this socket, the PONGs and
               \* the walk's lines sent, and whether pacing was ever off
    sockets,   \* bound
    mix        \* bound: one of Mixes

pacerVars == <<lanes, ahead, timer, draining, refused, link, quitting, paced,
               items, heard, rekeys, gone, server, sockets, mix>>

Lanes == <<"high", "normal", "low">>
LaneNames == ToSet(Lanes)
NoTimer == -1
NoLines == [l \in LaneNames |-> <<>>]

-----------------------------------------------------------------------------
(* Entries: an item as written, or a part of what its thunk made.          *)

Stages == <<"whole", "rekey", "notice", "encrypt", "chunk", "last">>
PacerEntry == [item : 1 .. MaxItems, stage : ToSet(Stages)]

Part(i, stage) == [item |-> i, stage |-> stage]
KindOf(e) == items[e.item].kind
LaneOf(kind) == CASE kind = "nick" -> "high"
                  [] kind \in {"monitor", "poll"} -> "low"
                  [] OTHER -> "normal"

Keyed(kind) == kind \in {"keyA", "keyB"}
IsThunk(e) == \/ e.stage \in {"rekey", "encrypt"}
              \/ e.stage = "whole" /\ (Keyed(KindOf(e)) \/ KindOf(e) = "secret")

\* What admits an entry: a thunk and a unit go by their first short line.
FirstCost(e) == IF KindOf(e) = "monitor" THEN LongCost ELSE 1
WholeCost(e) == IF KindOf(e) = "batch" THEN UnitLines ELSE FirstCost(e)

Pending == Len(lanes["high"]) + Len(lanes["normal"]) + Len(lanes["low"])
HeadLane == CHOOSE l \in LaneNames :
               /\ lanes[l] # <<>>
               /\ l = "high" \/ lanes["high"] = <<>>
               /\ l # "low" \/ lanes["normal"] = <<>>
HeadEntry == Head(lanes[HeadLane])
Waiting == UNION {ToSet(lanes[l]) : l \in LaneNames}

\* remove(): s without the entries at positions N.
Without(s, N) ==
    LET left == DOMAIN s \ N
    IN  [n \in 1 .. Cardinality(left) |->
            s[CHOOSE k \in left : Cardinality({j \in left : j <= k}) = n]]

\* ready() and holding(): a NICK waits for the end of an engine restore.
Ready == link \in {"up", "restoring"}
Holding(e) == link = "restoring" /\ KindOf(e) = "nick"

-----------------------------------------------------------------------------
(* Hooks.                                                                  *)

\* tellDropped: the entry's own, and those of what it came from.  A REKEY's
\* puts it back into the manager's queue.
Hook(of, i) == [of |-> of, item |-> i]

\* fault: the line a REKEY became has no hook of its own
HooksOfThunks(e) == {Hook("item", e.item)} \union
                    IF e.stage = "rekey" THEN {Hook("rekey", e.item)} ELSE {}

HooksOf(e) == {Hook("item", e.item)} \union
              IF e.stage \in {"rekey", "notice"} THEN {Hook("rekey", e.item)} ELSE {}

TellDropped(hooks) ==
    /\ heard' = [i \in DOMAIN heard |->
                   IF Hook("item", i) \in hooks
                   THEN [heard[i] EXCEPT !.dropped = @ + 1] ELSE heard[i]]
    /\ rekeys' = [rekeys EXCEPT
                    !.queued = @ + Cardinality({h \in hooks : h.of = "rekey"})]

\* The item's own onSent follows its last line.
TellSent(e) ==
    /\ heard' = [heard EXCEPT ![e.item].sent =
                   IF e.stage \in {"whole", "last"} THEN @ + 1 ELSE @]
    /\ UNCHANGED rekeys

TellNobody == UNCHANGED <<heard, rekeys>>

\* expand's catch, which does not ask what a refusal has told.
TellThrown(e) ==
    /\ heard' = [heard EXCEPT ![e.item].dropped = @ + 1, ![e.item].threw = TRUE]
    /\ UNCHANGED rekeys

Refuse(e) ==
    /\ TellDropped(HooksOf(e) \ refused)
    /\ refused' = refused \union HooksOf(e)

-----------------------------------------------------------------------------
PacerInit ==
    /\ lanes = NoLines
    /\ ahead = 0
    /\ timer = NoTimer
    /\ draining = FALSE
    /\ refused = {}
    /\ link = "dialing"
    /\ quitting = FALSE
    /\ paced = TRUE
    /\ items = <<>>
    /\ heard = [i \in 1 .. MaxItems |-> [sent |-> 0, dropped |-> 0, threw |-> FALSE]]
    /\ rekeys = [made |-> 0, queued |-> 0, void |-> 0]
    /\ gone = <<>>
    /\ server = [debt |-> 0, pongs |-> 0, asks |-> 0, exempt |-> FALSE]
    /\ sockets = 1
    /\ mix \in Mixes

-----------------------------------------------------------------------------
(* The clock.                                                              *)

Least(a, b) == IF a < b THEN a ELSE b
Most(a, b) == IF a < b THEN b ELSE a

\* fault: an unpaced line starts the clock again from the budget
ChargedAfresh(kind, cost) == IF kind = "poll" THEN Least(cost, Budget)
                             ELSE ahead + cost

\* charge: an unpaced line counts up to the budget only.
Charged(kind, cost) == IF kind = "poll" THEN Least(ahead + cost, Most(ahead, Budget))
                       ELSE ahead + cost

\* What a line does to both clocks: to ours, nothing while unpaced.
Charge(kind, cost) ==
    /\ ahead' = IF paced THEN Charged(kind, cost) ELSE ahead
    /\ server' = [server EXCEPT !.debt = @ + cost,
                                !.pongs = IF kind = "ping" THEN @ + 1 ELSE @,
                                !.asks = IF kind = "poll" THEN @ + 1 ELSE @]

\* schedule(): how far over the budget the entry would go.
Over(e) == IF paced /\ ~(KindOf(e) = "poll") THEN ahead + FirstCost(e) - Budget ELSE 0

PassTime(n) == IF n > 0 THEN n - 1 ELSE n

\* Timers are prompt: a late one finds the clock further down.
Tick ==
    /\ ~draining /\ timer # 0
    /\ ahead > 0 \/ timer > 0 \/ server.debt > 0
    /\ ahead' = PassTime(ahead)
    /\ timer' = PassTime(timer)
    /\ server' = [server EXCEPT !.debt = PassTime(@)]
    /\ UNCHANGED <<lanes, draining, refused, link, quitting, paced, items, heard,
                   rekeys, gone, sockets>>

TimerFires ==
    /\ ~draining /\ timer = 0
    /\ timer' = NoTimer
    /\ draining' = TRUE
    /\ UNCHANGED <<lanes, ahead, refused, link, quitting, paced, items, heard,
                   rekeys, gone, server, sockets>>

-----------------------------------------------------------------------------
(* drain(), one turn of the loop at a time.                                *)

HeadMayGo == Pending > 0 /\ Ready /\ ~Holding(HeadEntry)

DrainEnds ==
    /\ draining /\ ~HeadMayGo
    /\ draining' = FALSE
    /\ UNCHANGED <<lanes, ahead, timer, refused, link, quitting, paced, items,
                   heard, rekeys, gone, server, sockets>>

Turn == draining /\ HeadMayGo

DrainWaits ==
    /\ Turn
    /\ Over(HeadEntry) > 0
    /\ timer' = Over(HeadEntry)
    /\ draining' = FALSE
    /\ UNCHANGED <<lanes, ahead, refused, link, quitting, paced, items, heard,
                   rekeys, gone, server, sockets>>

\* The head leaves its lane, and `made' takes its place.
Shift(made) == lanes' = [lanes EXCEPT ![HeadLane] = made \o Tail(@)]

\* live() says no: nothing goes and nobody is told.
Withdrawn ==
    /\ Turn
    /\ Over(HeadEntry) <= 0
    /\ KindOf(HeadEntry) = "offer"
    /\ Shift(<<>>)
    /\ TellNobody
    /\ UNCHANGED <<ahead, timer, draining, refused, link, quitting, paced, items,
                   gone, server, sockets>>

\* fault: what a thunk makes goes to the back of the lane
ExpandsAtBack(made) ==
    lanes' = [lanes EXCEPT ![HeadLane] = Tail(@) \o made]

Expands(made) == Shift(made)

\* expand() of the item itself: a handshake reply, or an E2E message, which
\* takes the REKEYs its rotation, or one before it, left with the manager.
\* Nothing may come of it: no key, encryption off.
BuildWhole(e) ==
    /\ e.stage = "whole"
    /\ \/ Expands(<<>>) /\ TellNobody
       \/ Expands(<<>>) /\ TellThrown(e)
       \/ Keyed(KindOf(e)) /\ Expands(<<Part(e.item, "last")>>) /\ TellNobody
       \/ /\ KindOf(e) = "secret"
          /\ \E rotates \in {0, 1} :
                LET due == rekeys.queued + rotates IN
                /\ rekeys.made + rotates <= 1
                /\ Expands([n \in 1 .. due |-> Part(e.item, "rekey")]
                             \o <<Part(e.item, "encrypt")>>)
                /\ rekeys' = [rekeys EXCEPT !.made = @ + rotates, !.queued = 0]
          /\ UNCHANGED heard

\* The REKEY to the nick its peer has now; a peer who left gets nothing.
BuildRekey(e) ==
    /\ e.stage = "rekey"
    /\ \/ Expands(<<Part(e.item, "notice")>>) /\ TellNobody
       \/ /\ Expands(<<>>)
          /\ rekeys' = [rekeys EXCEPT !.void = @ + 1]
          /\ UNCHANGED heard

BuildChunks(e) ==
    /\ e.stage = "encrypt"
    /\ \/ Expands(<<Part(e.item, "chunk"), Part(e.item, "last")>>) /\ TellNobody
       \/ Expands(<<>>) /\ TellNobody
       \/ Expands(<<>>) /\ TellThrown(e)

Build ==
    /\ Turn
    /\ Over(HeadEntry) <= 0
    /\ IsThunk(HeadEntry)
    /\ \/ BuildWhole(HeadEntry) \/ BuildRekey(HeadEntry) \/ BuildChunks(HeadEntry)
    /\ UNCHANGED <<ahead, timer, draining, refused, link, quitting, paced, items,
                   gone, server, sockets>>

\* sendNow, sendUnit
LineGoes ==
    /\ Turn
    /\ Over(HeadEntry) <= 0
    /\ ~IsThunk(HeadEntry)
    /\ ~quitting
    /\ Shift(<<>>)
    /\ TellSent(HeadEntry)
    /\ Charge(KindOf(HeadEntry), WholeCost(HeadEntry))
    /\ gone' = Append(gone, HeadEntry)
    /\ UNCHANGED <<timer, draining, refused, link, quitting, paced, items, sockets>>

\* The socket is on its way out: the drain stops there.
LineRefused ==
    /\ Turn
    /\ Over(HeadEntry) <= 0
    /\ ~IsThunk(HeadEntry)
    /\ quitting
    /\ Shift(<<>>)
    /\ Refuse(HeadEntry)
    /\ draining' = FALSE
    /\ UNCHANGED <<ahead, timer, link, quitting, paced, items, gone, server, sockets>>

-----------------------------------------------------------------------------
(* write() and unit().                                                     *)

\* redrain: outside a drain, the wait for the old head is over.
Redrain ==
    /\ timer' = IF draining THEN timer ELSE NoTimer
    /\ draining' = TRUE

\* What its writer may write now: the user's lines and the walk's while the
\* connection is registered; before that the registration and PONGs.
MayWrite(kind) ==
    /\ Len(items) < mix.most
    /\ kind \in mix.kinds
    /\ Ready \/ kind \in {"nick", "ping"}

New == Len(items) + 1
Arrives(kind) == items' = Append(items, [kind |-> kind, order |-> New])

WriteGone(kind) ==
    /\ link = "gone" /\ Len(items) < mix.most
    /\ Arrives(kind)
    /\ TellDropped({Hook("item", New)})
    /\ UNCHANGED <<lanes, ahead, timer, draining, refused, link, quitting, paced,
                   gone, server, sockets>>

\* Before registration: past the queue, uncharged.
WriteAtOnce(kind) ==
    /\ MayWrite(kind) /\ ~Ready /\ link # "gone"
    /\ Arrives(kind)
    /\ IF quitting THEN Refuse(Part(New, "whole"))
       ELSE TellSent(Part(New, "whole")) /\ UNCHANGED refused
    /\ UNCHANGED <<lanes, ahead, timer, draining, link, quitting, paced, gone,
                   server, sockets>>

\* PING, PONG
WriteImmediate ==
    /\ MayWrite("ping") /\ Ready
    /\ Arrives("ping")
    /\ IF quitting
       THEN Refuse(Part(New, "whole")) /\ UNCHANGED <<ahead, server>>
       ELSE /\ TellSent(Part(New, "whole"))
            /\ Charge("ping", 1)
            /\ UNCHANGED refused
    /\ UNCHANGED <<lanes, timer, draining, link, quitting, paced, gone, sockets>>

WriteQueued(kind) ==
    /\ MayWrite(kind) /\ Ready /\ kind # "ping" /\ ~Keyed(kind)
    /\ Arrives(kind)
    /\ lanes' = [lanes EXCEPT ![LaneOf(kind)] = Append(@, Part(New, "whole"))]
    /\ Redrain
    /\ TellNobody
    /\ UNCHANGED <<ahead, refused, link, quitting, paced, gone, server, sockets>>

\* Where keyed items wait, oldest first; where the one under a key does.
KeyedWaiting == {n \in DOMAIN lanes["normal"] :
                    LET e == lanes["normal"][n] IN e.stage = "whole" /\ Keyed(KindOf(e))}
Predecessors(kind) == {n \in KeyedWaiting : KindOf(lanes["normal"][n]) = kind}

\* It stands where its predecessor stood, as old as it was.
WriteReplacing(kind) ==
    /\ MayWrite(kind) /\ Ready /\ Keyed(kind)
    /\ \E at \in Predecessors(kind) :
          /\ items' = Append(items, [kind |-> kind,
                                     order |-> items[lanes["normal"][at].item].order])
          /\ lanes' = [lanes EXCEPT !["normal"][at] = Part(New, "whole")]
    /\ TellNobody
    /\ UNCHANGED <<ahead, timer, draining, refused, link, quitting, paced, gone,
                   server, sockets>>

\* The oldest keyed items go to make room.
WriteKeyed(kind) ==
    LET out == {n \in KeyedWaiting :
                   Cardinality({m \in KeyedWaiting : m >= n}) >= MaxKeyed} IN
    /\ MayWrite(kind) /\ Ready /\ Keyed(kind) /\ Predecessors(kind) = {}
    /\ Arrives(kind)
    /\ lanes' = [lanes EXCEPT !["normal"] =
                   Append(Without(@, out), Part(New, "whole"))]
    /\ TellDropped(UNION {HooksOf(lanes["normal"][n]) : n \in out})
    /\ Redrain
    /\ UNCHANGED <<ahead, refused, link, quitting, paced, gone, server, sockets>>

Write(kind) ==
    \/ WriteGone(kind) \/ WriteAtOnce(kind) \/ WriteQueued(kind)
    \/ WriteReplacing(kind) \/ WriteKeyed(kind)

\* SendHandle.cancel: the item and what it expanded to, untold.
Cancel(i) ==
    /\ ~draining
    /\ i \in DOMAIN items /\ items[i].kind \in {"poll", "offer"}
    /\ \E e \in Waiting : e.item = i
    /\ lanes' = [l \in LaneNames |->
                    Without(lanes[l], {n \in DOMAIN lanes[l] : lanes[l][n].item = i})]
    /\ UNCHANGED <<ahead, timer, draining, refused, link, quitting, paced, items,
                   heard, rekeys, gone, server, sockets>>

-----------------------------------------------------------------------------
(* The connection.                                                         *)

\* fault: what a refusal told is told again
DropTellingAll ==
    /\ TellDropped(UNION {HooksOf(e) : e \in Waiting})
    /\ lanes' = NoLines /\ ahead' = 0 /\ timer' = NoTimer /\ refused' = {}

\* drop(): the new socket is charged from nothing.
Drop ==
    /\ TellDropped((UNION {HooksOf(e) : e \in Waiting}) \ refused)
    /\ lanes' = NoLines /\ ahead' = 0 /\ timer' = NoTimer /\ refused' = {}

\* resume(): a drain, unless one is scheduled.
Resume == draining' = (timer = NoTimer)

NewSocket == server' = [debt |-> 0, pongs |-> 0, asks |-> 0, exempt |-> ~paced]

\* onEnginePhase('dialing'), or a socket of our own.
DialsAgain ==
    /\ ~draining
    /\ link \in {"down", "cut"} /\ sockets < MaxSockets
    /\ link' = "dialing" /\ sockets' = sockets + 1
    /\ quitting' = FALSE
    /\ Drop
    /\ NewSocket
    /\ UNCHANGED <<draining, paced, items, gone>>

\* connection.registeredSuccessfully
Registered001 ==
    /\ ~draining /\ link = "dialing"
    /\ link' = "up"
    /\ Resume
    /\ UNCHANGED <<lanes, ahead, timer, refused, quitting, paced, items, heard,
                   rekeys, gone, server, sockets>>

\* 'close' with engineSocketAlive: the lines wait for the re-attach.
LinkCut ==
    /\ ~draining /\ Ready
    /\ link' = "cut"
    /\ UNCHANGED <<lanes, ahead, timer, draining, refused, quitting, paced, items,
                   heard, rekeys, gone, server, sockets>>

\* The replayed 001: ready, and no resume until the restore is over.
Reattached ==
    /\ ~draining /\ link = "cut" /\ ~quitting
    /\ link' = "restoring"
    /\ UNCHANGED <<lanes, ahead, timer, draining, refused, quitting, paced, items,
                   heard, rekeys, gone, server, sockets>>

\* fault: the end of the restore wakes nobody
RestoredQuietly == UNCHANGED draining

RestoreEnds == Resume

\* onEnginePhase('restored')
RestoreIsOver ==
    /\ ~draining /\ link = "restoring"
    /\ link' = "up"
    /\ RestoreEnds
    /\ UNCHANGED <<lanes, ahead, timer, refused, quitting, paced, items, heard,
                   rekeys, gone, server, sockets>>

\* 'close': the socket is gone, and what waited was meant for it.
SocketCloses ==
    /\ ~draining /\ link \in {"up", "restoring", "dialing", "cut"}
    /\ link' = "down"
    /\ Drop
    /\ UNCHANGED <<draining, quitting, paced, items, gone, server, sockets>>

\* disconnect(): intentionalDisconnect first.
QuitAsked ==
    /\ ~draining /\ link \in {"up", "restoring", "dialing"} /\ ~quitting
    /\ quitting' = TRUE
    /\ UNCHANGED <<lanes, ahead, timer, draining, refused, link, paced, items,
                   heard, rekeys, gone, server, sockets>>

\* detach(): the process hands its sockets over.
Detached ==
    /\ ~draining /\ link \in {"up", "restoring"} /\ ~quitting
    /\ quitting' = TRUE
    /\ Drop
    /\ UNCHANGED <<draining, link, paced, items, gone, server, sockets>>

Disposed ==
    /\ ~draining /\ link # "gone"
    /\ link' = "gone"
    /\ Drop
    /\ UNCHANGED <<draining, quitting, paced, items, gone, server, sockets>>

\* networkEdited
PacingFlips ==
    /\ ~draining /\ link # "gone" /\ mix.edit
    /\ paced' = ~paced
    /\ Redrain
    /\ server' = [server EXCEPT !.exempt = @ \/ paced]
    /\ UNCHANGED <<lanes, ahead, refused, link, quitting, items, heard, rekeys,
                   gone, sockets>>

-----------------------------------------------------------------------------
DrainStep == DrainEnds \/ DrainWaits \/ Withdrawn \/ Build \/ LineGoes \/ LineRefused

PacerNext ==
  /\ UNCHANGED mix
  /\ \/ Tick \/ TimerFires \/ DrainStep
     \/ \E kind \in mix.kinds : Write(kind)
     \/ WriteImmediate
     \/ \E i \in DOMAIN items : Cancel(i)
     \/ DialsAgain \/ Registered001 \/ LinkCut \/ Reattached \/ RestoreIsOver
     \/ SocketCloses \/ QuitAsked \/ Detached \/ Disposed
     \/ PacingFlips

PacerSpec == PacerInit /\ [][PacerNext]_pacerVars

-----------------------------------------------------------------------------
(* Properties.                                                             *)

\* Types; and no drain is scheduled while one runs (drain's first line).
PacerTypeOK ==
    /\ lanes \in [LaneNames -> Seq(PacerEntry)]
    /\ ahead \in Nat /\ timer \in Nat \union {NoTimer}
    /\ draining \in BOOLEAN /\ quitting \in BOOLEAN /\ paced \in BOOLEAN
    /\ refused \subseteq [of : {"item", "rekey"}, item : 1 .. MaxItems]
    /\ link \in {"dialing", "up", "cut", "restoring", "down", "gone"}
    /\ items \in Seq([kind : AllKinds, order : 1 .. MaxItems])
    /\ heard \in [1 .. MaxItems -> [sent : Nat, dropped : Nat, threw : BOOLEAN]]
    /\ rekeys \in [made : Nat, queued : Nat, void : Nat]
    /\ gone \in Seq(PacerEntry)
    /\ server \in [debt : Nat, pongs : Nat, asks : Nat, exempt : BOOLEAN]
    /\ sockets \in 0 .. MaxSockets /\ mix \in Mixes
    /\ draining => timer = NoTimer

\* A writer hears at most once, sent or not sent, through thunks, refusals,
\* drops and evictions (tellDropped, refuse): a line reported as sent is never
\* reported as lost, nor lost twice; but for the message whose encryption
\* throws after its REKEY was refused, which expand tells again.
HeardOnce ==
    \A i \in 1 .. MaxItems :
        /\ heard[i].sent + heard[i].dropped <= IF heard[i].threw THEN 2 ELSE 1
        /\ heard[i].threw => heard[i].sent = 0

\* Every REKEY is in one place: with the E2E manager, in a lane, on the wire,
\* or void for want of its peer.  A session whose REKEY is lost cannot be read
\* any more, by a peer who cannot know (e2eRekeyLines).
RekeyIsSomewhere ==
    LET InLane(l) == Cardinality({n \in DOMAIN lanes[l] :
                                    lanes[l][n].stage \in {"rekey", "notice"}})
        OnWire == Cardinality({n \in DOMAIN gone : gone[n].stage = "notice"})
    IN  rekeys.made = rekeys.queued + rekeys.void + OnWire
                        + InLane("high") + InLane("normal") + InLane("low")

\* Within a lane lines go in the order they were written, a thunk's parts in
\* its place and the REKEY before what needs it; a keyed item in its
\* predecessor's place (drain, expand, write).
StageRank(e) == CHOOSE n \in DOMAIN Stages : Stages[n] = e.stage
GoesBefore(e, f) ==
    \/ items[e.item].order < items[f.item].order
    \/ items[e.item].order = items[f.item].order /\ StageRank(e) <= StageRank(f)
InOrder ==
    \A m, n \in DOMAIN gone :
        m < n /\ LaneOf(KindOf(gone[m])) = LaneOf(KindOf(gone[n]))
            => GoesBefore(gone[m], gone[n])

\* A line that could go is never left waiting: outside a drain, whatever waits
\* on a live connection has a timer, set for its head; after a cancel, which
\* does not reconsider it, for no more than the longest line would wait
\* (redrain, resume, the restore's end).
Taken(i) ==
    /\ items[i].kind \in {"poll", "offer"} /\ heard[i].sent + heard[i].dropped = 0
    /\ Part(i, "whole") \notin Waiting
QueueIsCarried ==
    ~draining /\ link = "up" /\ Pending > 0 /\ ~quitting =>
        /\ timer # NoTimer
        /\ timer <= Most(ahead + LongCost - Budget, 0)
        /\ timer <= Most(Over(HeadEntry), 0) \/ \E i \in DOMAIN items : Taken(i)

\* The server reads us: its clock passes the budget by no more than a unit's
\* tail, the PONGs that go at once, and the walk's lines, which its answers
\* pace (the header's claims about `since').
ServerReadsUs ==
    ~server.exempt =>
        server.debt <= Budget + (UnitLines - 1) + server.pongs + server.asks

=============================================================================
