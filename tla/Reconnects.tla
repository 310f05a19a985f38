----------------------------- MODULE Reconnects -----------------------------
(***************************************************************************)
(* Which connections of an account are dialled, dropped and dialled again  *)
(* (no engine): the manager's map from networks to connection objects      *)
(* (services/ircManager.ts), the retry ladder of each object               *)
(* (services/ircConnection.ts), the process-wide launch queue              *)
(* (services/connectScheduler.ts) and the policies that end and refuse     *)
(* connections (routes/admin.ts, services/networkPolicy.ts).               *)
(*                                                                         *)
(* Every handler is synchronous; a helper maps the state p it finds to the *)
(* state it leaves, and Becomes(p) is the end of the event.  Time is in    *)
(* ticks, and only the scheduler's gates tell them apart.                  *)
(*                                                                         *)
(* A definition marked `fault' is a plausible mistake in the one that      *)
(* follows it; it breaks a property below when put in its place.           *)
(***************************************************************************)
EXTENDS Integers, Sequences, FiniteSets, SequencesExt

CONSTANTS
    NumNets,    \* the account's networks 1 .. NumNets, all of them autoconnect
    HostOf,     \* per network, its host
    Proxied,    \* networks that go through a proxy of the account's own
    Presets,    \* hosts the instance lists, for when it is closed to others
    Lists,      \* bound: host lists an account may be held to, Unlisted if to none
    MaxStreak,  \* MAX_CONSECUTIVE_SASL_FAILURES
    PerHost,    \* perHostMs
    Jitter,     \* jitterMs
    Floor,      \* globalMs
    MaxObjs,    \* bound: connection objects alive at one time
    MaxUnread,  \* bound: times the policy cannot be read
    MaxAsked    \* bound: times a person or a policy intervenes

Nets == 1 .. NumNets
Objs == 1 .. MaxObjs
Hosts == {HostOf[n] : n \in Nets}
Unlisted == [held |-> FALSE, hosts |-> Hosts]

ASSUME ReconnectConstants ==
    /\ {NumNets, MaxObjs, MaxStreak} \subseteq Nat \ {0}
    /\ {PerHost, Jitter, Floor, MaxUnread, MaxAsked} \subseteq Nat
    /\ DOMAIN HostOf = Nets /\ Proxied \subseteq Nets /\ Presets \subseteq Hosts
    /\ \A l \in Lists : l.hosts \subseteq Hosts /\ (~l.held => l = Unlisted)

VARIABLES
    mapped,    \* ircManager.byUser: per network, its object, 0 if none
    objs,      \* the objects something still refers to
    launches,  \* connectScheduler.queue
    gates,     \* ticks until [host: a launch to it, floor: any launch] is allowed
    pump,      \* ticks until the pump's timer fires, NoTimer if none
    policy,    \* [paused, closed: the instance's other hosts, list: the account's]
    shut,      \* the process is shutting down
    told,      \* per network, the last state the clients were told
    thrown,    \* bound
    asked      \* bound

reconnectVars == <<mapped, objs, launches, gates, pump, policy, shut, told, thrown, asked>>

NoTimer == -1

\* intent: intentionalDisconnect; ban: pendingServerBan; sasl:
\* pendingSaslFailure; terminal: terminalDisconnect; timer: reconnectTimer;
\* sock: the object's socket.
NoObj == [net |-> 0, state |-> "disconnected", sock |-> "none", timer |-> FALSE,
          intent |-> FALSE, disposed |-> FALSE, ban |-> FALSE, sasl |-> FALSE,
          streak |-> 0, terminal |-> FALSE]

-----------------------------------------------------------------------------
(* The state as a value.                                                   *)

Now == [mapped |-> mapped, objs |-> objs, launches |-> launches, gates |-> gates,
        pump |-> pump, policy |-> policy, told |-> told]

\* c's places in the launch queue.
Queued(p, c) == {i \in DOMAIN p.launches : p.launches[i].obj = c}
Reachable(p, c) == \/ p.objs[c].sock # "none" \/ p.objs[c].timer
                   \/ \E n \in Nets : p.mapped[n] = c
                   \/ Queued(p, c) # {}

\* Of an object that was told to disconnect, what only a retry would ask is left
\* out; of one that is disposed, everything but its socket.
Kept(k) ==
    IF k.disposed THEN [NoObj EXCEPT !.net = k.net, !.sock = k.sock, !.disposed = TRUE]
    ELSE IF k.intent
    THEN [k EXCEPT !.ban = FALSE, !.sasl = FALSE, !.streak = 0, !.terminal = FALSE]
    ELSE k

\* The end of an event: what nothing refers to is collected.
Becomes(p) ==
    \E q \in {p} :
        /\ mapped' = q.mapped /\ launches' = q.launches /\ gates' = q.gates
        /\ pump' = q.pump /\ policy' = q.policy /\ told' = q.told
        /\ objs' = [c \in Objs |-> IF Reachable(q, c) THEN Kept(q.objs[c]) ELSE NoObj]

Unused(p) == {c \in Objs : p.objs[c] = NoObj}

-----------------------------------------------------------------------------
(* connectScheduler.                                                       *)

MaxOf(a, b) == IF a > b THEN a ELSE b
ReadyIn(p, t) == MaxOf(p.gates.floor, p.gates.host[HostOf[t.net]])
Soonest(p) == Min({ReadyIn(p, p.launches[i]) : i \in DOMAIN p.launches})

\* fault: a timer that is armed is left as it is
SchedulePumpOnce(p) ==
    IF p.launches = <<>> \/ p.pump # NoTimer THEN p ELSE [p EXCEPT !.pump = Soonest(p)]
SchedulePump(p) ==
    [p EXCEPT !.pump = IF p.launches = <<>> THEN NoTimer ELSE Soonest(p)]

\* kind: the task of a deferred start, or of a retry.
Schedule(p, c, kind) ==
    SchedulePump([p EXCEPT !.launches = Append(@, [obj |-> c, kind |-> kind,
                                                   net |-> p.objs[c].net])])

-----------------------------------------------------------------------------
(* IrcConnection.                                                          *)

\* publish() is silent once the object is disposed.
SetState(p, c, s) ==
    LET k == p.objs[c] IN
    [p EXCEPT !.objs[c].state = s,
              !.told = IF k.disposed THEN @ ELSE [@ EXCEPT ![k.net] = s]]

Dispose(p, c) == [p EXCEPT !.objs[c] = [@ EXCEPT !.disposed = TRUE, !.timer = FALSE]]

\* fault: a state that waits for a close that never comes
DisconnectUnsaid(p, c) ==
    [p EXCEPT !.objs[c] = [@ EXCEPT !.intent = TRUE, !.timer = FALSE]]
Disconnect(p, c) ==
    LET k == p.objs[c]
        q == [p EXCEPT !.objs[c] = [@ EXCEPT !.intent = TRUE, !.timer = FALSE]]
    IN  IF k.timer \/ k.state = "reconnecting" THEN SetState(q, c, "disconnected") ELSE q

\* proxyBlockedReason: mayUseProxy is asked at every dial.
Blocked(p, n) == n \in Proxied /\ (p.policy.closed \/ p.policy.list.held)

Unmap(p, n) == [p EXCEPT !.mapped[n] = 0]

\* onNeedsRebuild
NeedsRebuild(p, c) ==
    LET n == p.objs[c].net IN
    IF p.mapped[n] = c THEN Dispose(Unmap(p, n), c) ELSE p

Connect(p, c) ==
    LET q == [p EXCEPT !.objs[c] = [@ EXCEPT !.timer = FALSE, !.intent = FALSE,
                                    !.terminal = FALSE, !.sasl = FALSE, !.ban = FALSE]]
    IN  IF Blocked(p, p.objs[c].net)
        THEN NeedsRebuild(SetState(q, c, "disconnected"), c)
        ELSE SetState([q EXCEPT !.objs[c].sock = "dialing"], c, "connecting")

ScheduleReconnectIfWarranted(p, c) ==
    LET k == p.objs[c] IN
    IF k.disposed \/ k.intent \/ k.timer THEN p
    ELSE IF k.terminal THEN SetState(p, c, "disconnected")
    ELSE SetState([p EXCEPT !.objs[c].timer = TRUE], c, "reconnecting")

\* maybePromoteSaslFailure, maybePromoteServerBan
Promoted(k) ==
    [k EXCEPT !.terminal = @ \/ k.ban \/ (k.sasl /\ k.streak >= MaxStreak),
              !.sasl = FALSE, !.ban = FALSE]

StopReconnecting(p, c) ==
    SetState([p EXCEPT !.objs[c].timer = FALSE], c, "disconnected")

-----------------------------------------------------------------------------
(* ircManager.                                                             *)

InstanceAllows(p, h) == ~p.policy.closed \/ h \in Presets
AccountAllows(p, h) == h \in p.policy.list.hosts

\* connectGate
GateOpen(p, n) ==
    /\ ~p.policy.paused
    /\ InstanceAllows(p, HostOf[n]) /\ AccountAllows(p, HostOf[n])

\* fault: a refused object keeps its place in the map
GateReconnectKeeping(p, n) == p
GateReconnect(p, n) == IF GateOpen(p, n) THEN p ELSE Unmap(p, n)

\* fault: what the policy throws leaves the task
RetryEscapes(p, c, throws) ==
    LET k == p.objs[c]
        q == GateReconnect(p, k.net)
    IN  IF k.disposed \/ k.intent \/ throws THEN p
        ELSE IF GateOpen(p, k.net) THEN Connect(q, c)
        ELSE StopReconnecting(q, c)
\* The task of a retry; `throws': the policy cannot be read.
Retry(p, c, throws) ==
    LET k == p.objs[c]
        q == GateReconnect(p, k.net)
    IN  IF k.disposed \/ k.intent THEN p
        ELSE IF throws THEN ScheduleReconnectIfWarranted(p, c)
        ELSE IF GateOpen(p, k.net) THEN Connect(q, c)
        ELSE StopReconnecting(q, c)

\* fault: the object may have been dropped while its launch waited
LaunchUnchecked(p, c) == Connect(p, c)
\* The launch of a start.
Launch(p, c) ==
    LET k == p.objs[c] IN
    IF p.mapped[k.net] # c \/ k.disposed THEN p ELSE Connect(p, c)

\* An object that has given up stays mapped, and is what startNetwork finds.
StartNetwork(p, n, deferrable) ==
    LET c == Min(Unused(p))
        q == [p EXCEPT !.objs[c] = [NoObj EXCEPT !.net = n], !.mapped[n] = c]
    IN  IF ~GateOpen(p, n) \/ p.mapped[n] # 0 THEN p
        ELSE IF deferrable THEN Schedule(q, c, "start") ELSE Launch(q, c)

\* The events below have room for the objects they make.
RoomFor(p, N) == Cardinality(Unused(p)) >= Cardinality({n \in N : p.mapped[n] = 0})

StopNetwork(p, n) ==
    IF p.mapped[n] = 0 THEN p ELSE Unmap(Disconnect(p, p.mapped[n]), n)

DisposeNetwork(p, n) ==
    IF p.mapped[n] = 0 THEN p ELSE Unmap(Dispose(p, p.mapped[n]), n)

RestartNetwork(p, n) == StartNetwork(DisposeNetwork(p, n), n, FALSE)

\* In the order of the rows.
OfEach(Op(_, _), p, N) ==
    LET each[n \in 0 .. NumNets] ==
            IF n = 0 THEN p ELSE IF n \in N THEN Op(each[n - 1], n) ELSE each[n - 1]
    IN  each[NumNets]

StartDeferred(p, n) == StartNetwork(p, n, TRUE)
InitForUser(p) == OfEach(StartDeferred, p, Nets)

SuspendUser(p) == OfEach(StopNetwork, p, Nets)

\* From the list in p to `next': what next refuses is dropped, and what the old
\* list refused and next allows is started.
Drops(p, next) ==
    {n \in Nets : next.held /\ (n \in Proxied \/ HostOf[n] \notin next.hosts)}
Starts(p, next) ==
    {n \in Nets : /\ p.policy.list.held
                  /\ IF n \in Proxied THEN ~next.held
                     ELSE HostOf[n] \in next.hosts \ p.policy.list.hosts}

RestrictUser(p, next) ==
    OfEach(StartDeferred,
           OfEach(StopNetwork, [p EXCEPT !.policy.list = next], Drops(p, next)),
           Starts(p, next))

-----------------------------------------------------------------------------
(* A process whose account is paused; AccountResumes is also what a boot   *)
(* does of an account that is not.                                         *)

ReconnectInit ==
    /\ mapped = [n \in Nets |-> 0]
    /\ objs = [c \in Objs |-> NoObj]
    /\ launches = <<>>
    /\ gates = [host |-> [h \in Hosts |-> 0], floor |-> 0]
    /\ pump = NoTimer
    /\ policy = [paused |-> TRUE, closed |-> FALSE, list |-> Unlisted]
    /\ shut = FALSE
    /\ told = [n \in Nets |-> "disconnected"]
    /\ thrown = 0 /\ asked = 0

-----------------------------------------------------------------------------
(* What people ask.  A paused account's requests are refused before.       *)

\* networkRowRefusal
RowRefused(n) ==
    ~InstanceAllows(Now, HostOf[n]) \/ ~AccountAllows(Now, HostOf[n]) \/ Blocked(Now, n)

Intervenes == ~shut /\ asked < MaxAsked /\ asked' = asked + 1 /\ UNCHANGED thrown
PersonAsks == Intervenes /\ ~policy.paused /\ UNCHANGED shut

\* POST /:id/connect, which changes nothing of a mapped connection.
UserConnects(n) ==
    /\ PersonAsks /\ ~RowRefused(n) /\ mapped[n] = 0 /\ RoomFor(Now, {n})
    /\ Becomes(StartNetwork(Now, n, FALSE))

\* POST /:id/disconnect
UserDisconnects(n) == PersonAsks /\ mapped[n] # 0 /\ Becomes(StopNetwork(Now, n))

\* POST /:id/reconnect
UserReconnects(n) ==
    /\ PersonAsks /\ ~RowRefused(n) /\ Unused(Now) # {}
    /\ Becomes(RestartNetwork(Now, n))

\* bindNetwork: a bouncer client attaches.
BouncerBinds(n) ==
    /\ PersonAsks /\ Unused(Now) # {}
    /\ mapped[n] # 0 => objs[mapped[n]].state = "disconnected"
    /\ Becomes(RestartNetwork(Now, n))

AccountPauses ==
    /\ PersonAsks
    /\ Becomes(SuspendUser([Now EXCEPT !.policy.paused = TRUE]))

AccountResumes ==
    /\ Intervenes /\ UNCHANGED shut
    /\ policy.paused /\ RoomFor(Now, Nets)
    /\ Becomes(InitForUser([Now EXCEPT !.policy.paused = FALSE]))

\* The switch closes the gates and ends no connection.
InstanceSwitches ==
    /\ Intervenes /\ UNCHANGED shut
    /\ Becomes([Now EXCEPT !.policy.closed = ~@])

AccountRestricted(next) ==
    /\ Intervenes /\ UNCHANGED shut
    /\ next # policy.list /\ RoomFor(Now, Starts(Now, next))
    /\ Becomes(RestrictUser(Now, next))

\* ircManager.shutdown: the scheduler is reset, and every connection ended.
Shutdown ==
    /\ Intervenes /\ shut' = TRUE
    /\ Becomes(SuspendUser([Now EXCEPT !.launches = <<>>, !.pump = NoTimer,
                                       !.gates = [host |-> [h \in Hosts |-> 0],
                                                  floor |-> 0]]))

-----------------------------------------------------------------------------
(* What a socket brings; a disposed object reads nothing but its close.    *)

Reads(c) == objs[c].sock # "none" /\ ~objs[c].disposed
Changes(p) == Becomes(p) /\ UNCHANGED <<shut, thrown, asked>>

\* 001, which resets the ladder.
Registers(c) ==
    /\ Reads(c) /\ objs[c].sock = "dialing"
    /\ Changes(SetState([Now EXCEPT !.objs[c] =
                            [@ EXCEPT !.sock = "open", !.terminal = FALSE, !.sasl = FALSE,
                                      !.ban = FALSE, !.streak = 0]], c, "connected"))

\* What only the close asks of, an object that was told to disconnect does not.
Judges(c) == Reads(c) /\ ~objs[c].intent

\* Any line takes the last one's place, the ones below included.
SaslRejected(c) ==
    LET so == objs[c].streak IN
    /\ Judges(c) /\ objs[c].sock = "dialing"
    /\ Changes([Now EXCEPT !.objs[c] =
                   [@ EXCEPT !.ban = FALSE, !.sasl = TRUE,
                             !.streak = IF so < MaxStreak THEN so + 1 ELSE so]])

ServerBans(c) == Judges(c) /\ Changes([Now EXCEPT !.objs[c].ban = TRUE])
ServerSpeaks(c) == Judges(c) /\ Changes([Now EXCEPT !.objs[c].ban = FALSE])

\* 'socket close' and 'close'
SocketCloses(c) ==
    LET q == SetState([Now EXCEPT !.objs[c].sock = "none"], c, "disconnected") IN
    /\ objs[c].sock # "none"
    /\ Changes(ScheduleReconnectIfWarranted([q EXCEPT !.objs[c] = Promoted(@)], c))

-----------------------------------------------------------------------------
(* Timers.                                                                 *)

BackoffEnds(c) ==
    LET q == [Now EXCEPT !.objs[c].timer = FALSE] IN
    /\ objs[c].timer
    /\ Changes(IF objs[c].disposed \/ objs[c].intent THEN q ELSE Schedule(q, c, "retry"))

Ready == {i \in DOMAIN launches : ReadyIn(Now, launches[i]) = 0}

\* launch: the gates, then the task; what it throws is logged.
RunsTask(t, p, throws) ==
    IF t.kind = "retry" THEN Retry(p, t.obj, throws) ELSE Launch(p, t.obj)

Launched(i, jitter, throws) ==
    LET t == launches[i]
        q == [Now EXCEPT
                 !.launches = RemoveAt(@, i),
                 !.gates = [host |-> [@.host EXCEPT ![HostOf[t.net]] = PerHost + jitter],
                            floor |-> Floor]]
    IN  RunsTask(t, q, throws)

\* A timer may fire late; that none is ready when it fires is possible too.
Pump ==
    /\ pump = 0 /\ UNCHANGED <<shut, asked>>
    /\ IF Ready = {} THEN Becomes(SchedulePump([Now EXCEPT !.pump = NoTimer]))
                          /\ UNCHANGED thrown
       ELSE \E jitter \in 0 .. Jitter, throws \in BOOLEAN :
            /\ throws => thrown < MaxUnread /\ launches[Min(Ready)].kind = "retry"
            /\ Becomes(SchedulePump([Launched(Min(Ready), jitter, throws)
                                     EXCEPT !.pump = NoTimer]))
            /\ thrown' = IF throws THEN thrown + 1 ELSE thrown

\* fault: a wait below nothing
LessUnclamped(t) == t - 1
Less(t) == IF t > 0 THEN t - 1 ELSE t

Tick ==
    /\ pump > 0 \/ gates.floor > 0 \/ \E h \in Hosts : gates.host[h] > 0
    /\ pump' = Less(pump)
    /\ gates' = [host |-> [h \in Hosts |-> Less(gates.host[h])], floor |-> Less(gates.floor)]
    /\ UNCHANGED <<mapped, objs, launches, policy, shut, told, thrown, asked>>

-----------------------------------------------------------------------------
SocketStep(c) ==
    \/ Registers(c) \/ SaslRejected(c) \/ ServerBans(c) \/ ServerSpeaks(c) \/ SocketCloses(c)

PersonStep(n) ==
    UserConnects(n) \/ UserDisconnects(n) \/ UserReconnects(n) \/ BouncerBinds(n)

PolicyStep ==
    \/ AccountPauses \/ AccountResumes \/ InstanceSwitches \/ Shutdown
    \/ \E next \in Lists : AccountRestricted(next)

ReconnectNext ==
    \/ \E n \in Nets : PersonStep(n)
    \/ \E c \in Objs : SocketStep(c) \/ BackoffEnds(c)
    \/ PolicyStep \/ Pump \/ Tick

\* Time passes and timers fire; no peer is obliged to anything.  A timer that is
\* due stays so until BackoffEnds or Pump takes it or an event clears it, so that
\* the last two are their weak fairness (Floor > 0: one pump, one launch).
ReconnectFairness ==
    /\ WF_reconnectVars(Tick)
    /\ \A c \in Objs : []<>~objs[c].timer
    /\ []<>(pump # 0)

ReconnectSpec == ReconnectInit /\ [][ReconnectNext]_reconnectVars /\ ReconnectFairness

-----------------------------------------------------------------------------
(* Properties.                                                             *)

NetStates == {"disconnected", "connecting", "connected", "reconnecting"}

\* Every variable keeps its type.
ReconnectTypeOK ==
    /\ mapped \in [Nets -> 0 .. MaxObjs]
    /\ objs \in [Objs -> [net : 0 .. NumNets, state : NetStates,
                          sock : {"none", "dialing", "open"}, timer : BOOLEAN,
                          intent : BOOLEAN, disposed : BOOLEAN, ban : BOOLEAN,
                          sasl : BOOLEAN, streak : 0 .. MaxStreak, terminal : BOOLEAN]]
    /\ launches \in Seq([obj : Objs, kind : {"start", "retry"}, net : Nets])
    /\ gates \in [host : [Hosts -> 0 .. PerHost + Jitter], floor : 0 .. Floor]
    /\ pump \in -1 .. MaxOf(PerHost + Jitter, Floor)
    /\ policy \in [paused : BOOLEAN, closed : BOOLEAN, list : Lists \union {Unlisted}]
    /\ shut \in BOOLEAN /\ told \in [Nets -> NetStates]
    /\ thrown \in 0 .. MaxUnread /\ asked \in 0 .. MaxAsked

\* What may bring c's socket up or hold it up.
Ways(c) == (IF objs[c].sock # "none" THEN 1 ELSE 0) + (IF objs[c].timer THEN 1 ELSE 0)
           + Cardinality(Queued(Now, c))

\* A mapped connection that has not given up has exactly one thing that carries
\* it on: its socket, the backoff timer or a place in the launch queue
\* (ircConnection.ts, scheduleReconnectIfWarranted).  With none it would never
\* come back, startNetwork finding it in the map; with two it would dial twice.
OneWayBack ==
    \A n \in Nets : mapped[n] # 0 =>
        Ways(mapped[n]) = IF objs[mapped[n]].terminal THEN 0 ELSE 1

Retries(c) == objs[c].timer \/ \E i \in Queued(Now, c) : launches[i].kind = "retry"
Wanted(c) == ~objs[c].intent /\ ~objs[c].disposed
             /\ (objs[c].sock # "none" \/ Retries(c))

\* A socket nobody has ended, and a retry that nobody has cancelled, belong to
\* the connection the map holds, of an account that is not paused and may talk
\* to that host, in a process that is not going down: no launch, timer or retry
\* that was waiting brings a connection up behind the map's back (#616).
NoOrphan ==
    \A c \in Objs : Wanted(c) =>
        LET n == objs[c].net IN
        /\ mapped[n] = c /\ ~shut /\ ~policy.paused
        /\ AccountAllows(Now, HostOf[n]) /\ ~(policy.list.held /\ n \in Proxied)

\* While a launch waits the pump's timer is armed, and for no later than the
\* first of them may go: a launch to a fresh host is not held up by another
\* host's gate (connectScheduler.ts, schedulePump).
PumpIsArmed == launches # <<>> => pump \in 0 .. Soonest(Now)

\* What the clients were last told of a network is still going to change when it
\* says that something is under way: `reconnecting' has a retry behind it, and
\* `connecting' and `connected' a socket whose close is told (stopReconnecting,
\* disconnect: never pinned on "Reconnecting...").
NeverPinned ==
    \A n \in Nets :
        /\ told[n] = "reconnecting" =>
            mapped[n] # 0 /\ ~objs[mapped[n]].disposed /\ Retries(mapped[n])
        /\ told[n] \in {"connecting", "connected"} =>
            \E c \in Objs : /\ objs[c].net = n /\ ~objs[c].disposed
                            /\ objs[c].sock # "none"

Down(n) == mapped[n] # 0 /\ objs[mapped[n]].sock = "none" /\ ~objs[mapped[n]].terminal

\* A mapped connection that is down is dialled again, or is let go: none is down
\* for ever, overtaken in the launch queue or left with a timer that has gone
\* (scheduleReconnectIfWarranted, pump).
DownIsDialled == \A n \in Nets : []<>~Down(n)

=============================================================================
