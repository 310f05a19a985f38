# Lurker: a TLA+ verification project

Lurker is a self-hosted IRC client that stays online. Its server keeps a user's
IRC connections, stores what arrives in SQLite, and serves browsers and attached
IRC clients. Since 2.0 the IRC sockets can live in a process of their own, the
*engine*, so that the app process can be redeployed without anybody leaving IRC.
The hardest logic of the program is around that split: which process drives a
socket, how the lines that arrived meanwhile reach the message table once and in
order, and how hundreds of connections refresh their channels after a restart.
This project models that core, checks it with TLC and proves part of it with
TLAPS. Paths below are relative to `src/server/` unless they start with `src/`.

`PROJECT.json` is the index: the components, the runs with their properties, the
mutants that show each property can fail, the source lines every definition
stands for, the findings, the hazards and the theorems.

## 1. Inventory

| Part | State | Operations | Hard behaviour | Modelled in |
|---|---|---|---|---|
| Engine backlog, `engine/lineBuffer.ts` | unacked lines with their seqs, byte counts, the gap, the shared `ByteBudget` | push, ack, dropOldest, takeGap, dispose, reclaim | a counter shared by all buffers; acks for lines already shed | `LineBuffer`, `Backlog` |
| Engine upstream, `engine/upstream.ts` | the socket, the backlog, `sentSeq`, `liveAfter`, the sink, burst and channel state | dial, onOpen, onLine, attach, detach, flush, sendLive, close | a sink that is full or gone half way; attach while lines arrive | `EngineRelay`, `EngineClaims` |
| Engine server, `engine/server.ts` | `upstreams`, links, each link's claims, `releasedBy` | hello, connect, write, ack, detach, close, contest, offer, onLinkClose, reapOrphans | two claimants; a link and its own dead predecessor | `EngineClaims`, `EngineRelay` |
| Engine link, `services/engineLink.ts` | link state, handlers, `heldSet`, `closedHere`, `pendingCloses` | connectOnce, send, requestClose, route, stop | closes asked while there is no link; held crossing a close | `EngineClaims` |
| Engine transport, `services/engineTransport.ts` | the phase of one connection's dial, the restore buffer, the line being delivered | connect, onFrame, onLost, deliver, end | an answer after the timeout; ack against row | both |
| Marks, `db/engineMarks.ts` | per socket, the seq stored up to | storeUnderMark, pruneEngineMarks | two processes storing one socket's lines | `EngineRelay` |
| IRC manager, `services/ircManager.ts` | connections by user and network | start, stop, restart, reconcileEngine, suspend, resume, shutdown | deciding on a held session from what is known at that moment | `EngineClaims`, `RestoreWalk`, `Reconnects` |
| IRC connection, `services/ircConnection.ts` | phase, reconnect ladder, catch-up window, walk, channels and much more | onEnginePhase, publish, alreadyPersisted, drainRestoreQueue, sendRestoreStep, close handling | callbacks re-entering the gate; timers against replies; a retry ladder whose gate may delete its own connection | all but `LineBuffer` and `Uploads` |
| Restore gate, `services/restoreGate.ts` | waiting line, active turns, `pumping` | reserve, start, release, pump, reset | re-entrant pump, throwing grants | `RestoreWalk` |
| Send pacer, `services/sendPacer.ts` | three lanes, units, thunks, the send budget, a timer | write, unit, drain, redrain, reset, resume, carry over a link loss | budget, half-sent units, drop hooks that write again, who drains after a hold | `SendPacer`; its queue only in `RestoreWalk` |
| Connect scheduler, `services/connectScheduler.ts` | launch queue, a gate per host, the pump's timer | schedule, pump, reset | a launch run long after it was asked for; a timer set for the wrong head | `Reconnects`; the phase `queued` in `EngineClaims` |
| Reply router, `services/replyRouter.ts` | queries on the wire and in line | ask, route, timeout | replies carry no id | the chathistory form, in `Chathistory` |
| Chathistory backfill, `services/chathistoryBackfill.ts` | queue of walks, the one on the wire, whether the network answers at all | window, targets, next, ended, suspend, resume, reset | the page on the wire at a link loss; millisecond cursor | `Chathistory` |
| Upload sessions, `services/uploadSessions.ts` | rows, chunk files, the busy set | create, append, finish, sweep | restart during processing; sweep across awaits; a write still on its way | `Uploads` |
| Export jobs, `services/exportJobs.ts` | job rows, files | enqueue, build, recover | restart during a build | not modelled |
| DCC, `services/dcc*.ts` | transfers, port pool, XDCC queue | offer, accept, resume, close | ports given back on every path | not modelled |
| E2E, preview cache, websocket hub, bouncer, presence, push, identd, retention | see `PROJECT.json` | | | not modelled |
| Routes, settings, MCP, OAuth, web client, docs, deployment | | request handlers, user interface | | not modelled |

How the core parts interact. The app process keeps one *link* (a TCP
socket) to the engine. For each connection it sends `connect`; the engine either
dials a socket or attaches the link to the one it holds under the connection's
id, replays what the app needs to rebuild its state (burst, channels), then the
backlog from the oldest unacked line, then `live`. The app delivers each line to
irc-framework, whose handlers store rows synchronously under the socket's mark,
and answers with `ack`. When a link ends the engine keeps the sockets and offers
them to the next `hello` as *held*; the manager adopts or closes each. After a
re-attach each connection walks its channels and asks NAMES, TOPIC and MODE for
each, one channel at a time, with at most a fixed number of steps in progress
over all connections: that is the restore gate.

Beside the engine, each connection has a retry ladder: a socket that ends arms a
backoff timer, the timer asks the manager's gate (which may drop the connection
from the map), and the dial goes through one launch queue for the whole process.
Users, administrators and the instance's policy start, stop, suspend and delete
connections at any moment of it. What a connection sends goes through its pacer,
which shares a budget between three lanes and tells each sender once what became
of its line. A line with end-to-end encryption is a *thunk*: it is made when its
turn comes, and may make a REKEY first. Lines missed while nobody was connected
are asked of the network in pages (CHATHISTORY), one request at a time. Files
come over HTTP in chunks, each chunk a request of its own.

What makes them correct:

* backlog: nothing received disappears without being acked or reported as a gap;
  the budget counts exactly what is held; the largest backlog pays;
* relay: no line is forgotten by the engine before its row is stored; a line is
  stored once and in order though two processes may have it in hand; every line
  that was not shed is stored in the end;
* claims: one driver per socket, the newest process wins, what a process
  believes of its connections is so, a Disconnect ends the session and is not
  undone, a session nobody wants does not stay;
* restore: the cap holds, no turn is lost, no wake-up is missed, every walk ends;
* ladders: a connection has exactly one way back up, no launch or timer brings up
  what was let go, clients are not left with a state that nothing will change;
* pacer: the sender hears once, order within a lane, no line waits for nobody, no
  REKEY is lost, the server's own flood clock is respected;
* history: no line of a window is skipped, a walk that waits is started by
  somebody;
* uploads: what is handed on is the file as sent, once; an open session keeps its
  bytes.

The hazards behind these are listed one by one, at the line where each bites,
in `PROJECT.json`.

## 2. Modules

```
BacklogOps ---- Backlog ---- PromisesProofs         one backlog, abstract; proved
     |             ^
     |             | every buffer implements
     |         LineBuffer ---- QueuesProofs         many buffers, one budget; proved
     |
     +------ EngineRelay ---- MCEngineRelay,        engine, links, processes, rows;
                 |            EngineRelayProofs,     what is said on a link proved,
                 |            EngineRelayAckProofs,  what the acks release,
                 |            EngineRelayOnceProofs  what is stored, and when
                 |  implements
                 v
             MessageLog ---- PromisesProofs         the promise to the table; proved

EngineClaims ---- MCEngineClaims, EngineClaimsProofs who drives a socket; proved
RestoreWalk  ---- MCRestoreWalk, ConnectionsProofs  gate and walk; proved
Reconnects   ---- MCReconnects, ConnectionsProofs   retry ladders, launch queue, policy; proved
SendPacer    ---- SendPacerProofs                   one connection's outbound queue; proved
Chathistory  ---- QueuesProofs                      a network's history; its walks proved
Uploads      ---- QueuesProofs                      files that come in chunks; proved

MCConnections = MCRestoreWalk, MCReconnects                          suites: one run
MCQueues      = LineBuffer, SendPacer, Chathistory, Uploads, MCRestoreWalk
```

**BacklogOps** has the operators on one backlog's record (`first`, `next`,
`gap`): `Pushed`, `Shed`, `Acked`, `GapTaken`. Lines are their numbers only.

**Backlog** is what one buffer promises by itself, whatever presses on it from
the shared budget: `Receive`, `Squeeze`, `Ack`, `TakeGap`, `Dispose`, with the
history variables `acked` and `told`.

**LineBuffer** is the code of `lineBuffer.ts`: lines with sizes, each buffer's
ceiling, the shared `used`, and `reclaim`'s loop over the registered buffers. An
operation of the code is one action, reclaim included, since JavaScript runs it
to the end. A loop is its turn (`TrimOnce`, `ReclaimOnce`) taken as often as there
are lines (`Iterate`), after which it has ended and a turn changes nothing. Bytes are
abstracted to `Sizes`.

**EngineRelay** follows one connection id through sockets, links and processes.
`up` is the `EngineUpstream` under the id, `links` the frames in both directions,
`apps` each process's transport and catch-up state, `marks` and `log` the two
tables. Delivery is cut where the code can stop: a frame is read (`AppReads`),
rows are stored one transaction at a time (`StoreRow`), the ack is sent
(`SendAck`); a crash may come between any two. `flush` may stop after any line,
as a full or dead sink makes it do. A line's content is the number of rows it
stands for (`RowsAt`) and the batch it closes (`BatchStart`). What IRC text does
to channels and members is not in the model; `AlreadyPersisted` is by row, as
the probe in `ircConnection.ts` finds the row it would have stored.

**MessageLog** is the promise of the relay to the message table: `Store` takes
the next line of a socket, past all that are stored or shed; `Repeat` is
possible only when the socket's mark was pruned.

**EngineClaims** follows one connection id through the frames that decide who
drives its socket. The engine's handlers are operators from engine state to
engine state (`Connect`, `CloseAsked`, `DetachAsked`, `HelloAsked`, with
`Refused`/`Superseded` for `contest` and `Offered` for `offer`), so that a frame
is one action, `EngineReads`, with all its consequences. A process is a record
with a phase (`none`, `queued`, `waiting`, `asked`, `dialing`, `connected`,
`relink`, `backoff`), its `heldSet`, `closedHere` and `pendingCloses` entries for
the id. Users connect, disconnect, reconnect and are paused; processes start,
stop and crash; links break, with or without (`Lossy`) losing what was written;
with `Reordered` the engine reads a new link before it has read all of the dead
one.

**RestoreWalk** is `restoreGate.ts` whole and the walk that uses it. Its one
subtlety is re-entrancy: `pump` calls `grant`, which runs a connection's step,
which may end at once, give its turn back and reserve the next. The model has
`pumping` and the set `after` of connections whose call returns into the loop,
so an event is `Quiet`, then a chain of `PumpStep`s; a release during a pump
returns early exactly as the code does. The pacer is a queue of requests (`out`),
the server a queue that may skip (`wire`); a step's two timers are one field,
since the code arms them in turn.

**Reconnects** follows the networks of one account without an engine: the
manager's map (`mapped`), every connection object something still refers to
(`objs`, with the socket it holds), the scheduler's queue, gates and pump, the
policy (account paused, instance closed to other hosts, the account's host list),
and what the clients were last told (`told`). A handler is a chain of operators
from state to state, ended by `Becomes`, which also drops the objects that
nothing refers to any more. Time is in ticks for the scheduler's gates alone; a
backoff ends whenever it likes. The policy may fail to be read, so that the gate
throws inside the timer's callback.

**SendPacer** is `sendPacer.ts` with the phases of its connection that hold,
resume, reset and carry it, and the clock an IRC server keeps of a client. One
turn of `drain`'s loop is a step, because hooks called in it may write; while
`draining` holds nothing else happens. Kinds of items stand for what goes
different ways: a held NICK, plain lines, an offer that can be withdrawn, a
multiline unit, an encrypted message (a thunk that makes the REKEY, a notice, and
a thunk for its chunks), keyed handshake replies, long lines, the walk's unpaced
polls, PONGs past the lanes.

**Chathistory** is `chathistoryBackfill.ts` whole, with the reply router's rule
for whose a batch or a FAIL is and the events of `ircConnection.ts` that feed it.
The server has, for each target, a sequence of lines with times in milliseconds;
requests wait at the server, answers wait to be read, and over a link loss the
engine keeps the answers and replays them. A walk remembers what wanted it (`id`),
so that the model can say when an answer was to another walk's request.

**Uploads** is `uploadSessions.ts` from the session's first row to the sweep. A
byte is its position, so "as sent" is `<<1, 2, 3>>`. A chunk is cut where the code
waits: the stream opens, a byte is taken, a byte reaches the disk, the file
closes. Unlinks are not awaited by the code, so they are a set of their own
(`doomed`). The sweep waits for the directory and for each file. The process may
end anywhere, the database may refuse either write of a finish, the account may
be deleted.

**MCQueues** and **MCConnections** check components that share no state in one
run each: `part` is chosen at the start, one component moves and the others stay
in their initial state. A property of one component is then checked over exactly
that component's behaviours, plus the initial states of the others. Nothing fair
is enabled in a component that stays, so its fairness holds trivially.

## 3. Runs

Every run is listed with its properties in `PROJECT.json`. `CHECK_DEADLOCK
FALSE` everywhere: lines, processes, links and walks are bounded, and a system
with no more lines to receive and no process to start is done, not stuck.
Progress is stated by the liveness properties instead.

| Run | Instance | States | What it shows |
|---|---|---|---|
| `queues` | five parts, below | 0.99 million | the bounded queues and what comes in pieces |
| `engine_relay` | 1 socket, 2 overlapping processes, 2 links, 3 lines, 1 shed, 1 break | 505 thousand | acked is persisted, what comes after `live` is new, the relay implements `MessageLog` |
| `engine_relay_redial` | 2 sockets, 2 processes, 3 links, 2 lines, 1 break | 2.2 million | a row is stored twice only on a socket whose mark was pruned |
| `engine_relay_live` | 1 socket, 2 processes, 3 links, 3 lines, 1 shed, 1 break | 85 thousand | every line the backlog does not shed is stored in the end |
| `connections` | two parts, below | 350 thousand | turns, walks, launches and ladders |
| `engine_claims` | 2 processes, 2 settings, 1 fault, 1 command, 2 sockets, lossy | 1.1 million | one driver per socket, newest wins, beliefs are so |
| `engine_claims_live` | 1 process, 1 fault, 1 command, 3 sockets, links read out of order that lose nothing | 19 thousand | a held session is settled; a Disconnect ends its socket and stays one |

The parts of `queues`:

| Part | Instance | States |
|---|---|---|
| buffers | 2 buffers, sizes 1 and 2, ceiling 4, budget 5, 4 lines each | 49 thousand |
| pacer | seven mixes of two or three kinds, 2 to 4 items, budget 2, 2 sockets | 330 thousand |
| history | 1 channel, 2 conversations, three histories, pages of 2, 2 windows, 1 link or socket loss, 2 requests unheard | 448 thousand |
| uploads | 1 session of 3 bytes in chunks of 2, 2 restarts, 2 database failures | 17 thousand |
| walk | 1 connection, the 3 requests of a step, 2 walks, 1 throw | 142 thousand |

The parts of `connections`: two connections with two channels at a cap of one,
one walk each and one throw, with shutdown; and two networks on two hosts, one of
them proxied and alone in the list, three objects, one unreadable policy, three
interventions.

Why the bounds are enough for the questions asked. The relay's cases are: a line
before, at and after the point where a process is replaced, so three lines with
the registration burst as the first; two processes overlap and never three,
since the engine hands a socket from one to the next; a break and a shed each
happen once, at any point. `MaxLinks` leaves a link for the re-attach after the
break. The gate's cases need one connection in line behind one that holds the
only turn, with a second channel so that the walk goes on, and a throw. Claims
need two processes, a fault and a command at any point; a second socket is the
redial after the first. The two settings are alike in every definition, so they
are a symmetry set (safety only: the run has no liveness property); the
constraint `EditOrFault` keeps an edit of the settings and a fault out of the same
behaviour, which together make 1.8 million states and were checked once. `LinkLeft`
bounds the links, for `Boot` and `Relink` alike. In `engine_relay_live` the bound
`ShedOrHandOver` allows a shed, and the line it needs, only while the first process
is there and alone; both together are 4.3 million states. No fair action is kept
back by it. Size 2 against a budget of 5 and a ceiling of 4 makes
both limits bite, at exact fit and at one over.

A ladder's hazards need an object that is let go and another in its place, with
the first one's socket still to close: three objects and three interventions
give a stop, a start and one more at any point; two networks give the queue a
head and a second. `PerHost` above `Floor` makes a host's gate outlast the
global one, which is when the pump's timer matters. The pacer's mixes put each
hazard with the kinds it needs: held against free, thunk against plain, two keys
under a keyed limit of one, a unit against the budget, a withdrawn offer. A
history has two lines in a millisecond under a page of two, one has three, one
has more conversations than a page of TARGETS: the three ways the cursor may
fail to move. An upload of three bytes is a full chunk and a short one; sessions
share nothing but the sweep's loop, which takes one file at a time, so one
session is enough.

The runs are also chosen so that they do not get in each other's way: with two
sockets the stale ack (below) breaks `ImplementsMessageLog`, so that refinement
is checked on one socket and the redial run checks duplicates only.

### Disagreements between code and comments

Five runs are expected to find a violation, each of a sentence in the code.

* `engine_relay_stale_ack`: an ack names the connection id, not the socket. Sent
  by a slow process for the old socket's line *n*, it lets the engine forget the
  new socket's lines up to *n*, which nobody has stored (`engine/server.ts:420`,
  against `engine/protocol.ts:154-155`).
* `engine_relay_batch_ack`: lines inside an open BATCH are acked as they are
  delivered, while irc-framework publishes their rows when the batch closes
  (`services/engineTransport.ts:427`, against `:424-426`).
* `engine_claims_stale_error`: the `error` that answers a `close` of a socket
  already gone fails the `connect` sent right behind it
  (`services/engineTransport.ts:366`, against `:362-363`).
* `engine_claims_left_over`: a network is queued in the connect scheduler when
  the hello names its session as held, so reconciliation leaves it to that
  connection; a Disconnect before the launch finds no transport to close, and
  the session stays on IRC until the orphan reaper
  (`services/ircManager.ts:405`, against `:377-382`).
* `engine_relay_lost_gap`: the gap is taken from the backlog as its frame is
  written, and a frame lost with the link is not made again. Lines that were cut
  off are unacked and come again; the hole is never told of
  (`engine/upstream.ts:703`, against `engine/lineBuffer.ts:8-9`). With no break
  `ShedIsTold` holds.

**Observations.** Other behaviours were met while modelling. No run states them: the
code's comments accept them or claim less, or a property here excepts them by
name. Of the engine, seen by changing constants:

* a line of two rows (`TwoRows`), with a process ending between them: the mark
  refuses the second row at the catch-up (`db/engineMarks.ts:35-41`);
* a slow predecessor that prunes marks lets a row be stored twice; this is the
  `Repeat` of `MessageLog` and the `forgot` in `SecondCopyNeedsPrune`
  (`db/engineMarks.ts:25-29`);
* a second way to a left-over session: a `held` that comes after the process's
  own close but speaks of a later socket is dropped by `closedHere`
  (`services/engineLink.ts:149-155`);
* a connect with changed settings strips every claim and closes the socket before
  `contest` is asked (`engine/server.ts:523-545`). So an older process takes the
  id too, which "Newer wins a contested connection; an older process is refused
  rather than allowed to steal" (`:62-63`) does not foresee, and the process that
  lost it is sent no `detached` and goes on believing it is connected. `NewestWins`
  excepts this as `AsksElsewhere`, `ConnectedIsReal` as `Undisputed`;
* `NeverResumed` with `Lossy`, or with two faults out of order; and
  `NothingForgotten` out of order: a close, or the frame that precedes it, is
  lost or overtaken.

Of the pacer:

* an encrypted message whose encryption throws after its REKEY was refused calls
  its drop hook twice: `expand`'s catch starts a new set of told hooks. The
  caller's own guard hides it; `HeardOnce` excepts it as `threw`;
* `SendHandle.cancel` does not drain again, so what stood behind the withdrawn
  line waits for the timer set for it (`QueueIsCarried`, `Taken`);
* unpaced walk lines beyond the budget are not charged; the bound of
  `ServerReadsUs` counts them.

Of the ladders: a deferred first launch is not held against the instance's switch
again when its turn comes, nor is the dial of `reattachSoon`; `/connect` does
nothing for a mapped connection that gave up; closing the instance ends no live
connection. `NoOrphan` therefore speaks of the account's list and pause. A stopped
connection leaves the map at once and its socket closes when the server pleases; the
close handler then publishes `disconnected` for the network, over the state of the
connection that may have taken its place by then (`services/ircConnection.ts:2734`).

Of the history walks:

* a late answer is taken for the next request of its kind naming its target, which
  a link loss or a timeout makes possible (`services/replyRouter.ts:780-783` argues
  that no stray batch exists). Within one walk it does harm only where a page is
  all one millisecond (`shifted`, `GivenUp`). With two walks on one target the
  second ends on the first one's page, and its own further pages are never asked
  for (`foreign`, which `NothingSkipped` excepts);
* a socket loss drops the walks; the next window starts at the newest line stored,
  which may be a live one above the unfinished hole;
* a FAIL that names a nick ends whatever BETWEEN walk is on the wire, its nick not
  being compared;
* `unanswered` is reset by a batch and not by a FAIL, while the comment on
  `UNANSWERED_STRIKES` counts requests in a row "that drew nothing, not even a
  FAIL";
* a link loss between our JOIN and the end of its NAMES forgets the window
  (`pendingBackfill.clear`).

Of the uploads: when the database refuses both writes of a finish, the session
stays open and its file is being unlinked; a chunk sent at once recreates the file,
and truncating an overlong one then fills it with zeros. Both properties of
`Uploads` except this by name (`BothWritesFailed`). An answer `session_busy` names
an offset in the middle of a write.

## 4. Fairness

Each `Fairness` is weak and per actor: a process reads what has arrived, finishes
the callback it is in, and its timers fire; the engine reads its links and sees
them end; a closing socket closes (its destroy timer); the pacer sends; the call
stack unwinds. Node's event loop guarantees the first and the last, the timers
the rest. In `engine_relay_live` a process is started when none is left, as the
service manager does. Nothing is assumed of IRC servers: they need not answer,
accept or send. Processes need not stop or crash, links need not break, users
need not ask. No strong fairness is used.

`Reconnects` assumes that time passes (`WF(Tick)`) and that timers fire: no backoff
timer stays armed for ever (`[]<>~timer`) and a due pump runs (`[]<>(pump # 0)`).
These are timers of Node's event loop; sockets, users and policies owe nothing.
`Floor` is above zero, so that launches cannot go on for ever within one tick.
`SendPacer`, `Chathistory` and `Uploads` state progress as safety, which needs no
fairness: whatever waits has a timer, a request or an answer that will bring it on
(`QueueIsCarried`, `WalkGoesOn`). That this something comes is the event loop's and
the server's affair.

## 5. Proofs

All proofs are for every value of the constants that satisfies the named
assumption of the module, and are checked by TLAPS with Z3, Zenon and LS4.

**ConnectionsProofs** has two parts, which share nothing but the lemmas of the library.

*The walk* (`RestoreCapHolds`, `RestoreTypeOK`, `RestoreTurnsOwned`,
`NoLostWakeUp`, `NothingAskedOnTheWayDown`, `EveryWalkIsCarried`,
`OneStepAtATime`): every safety property of the walk. From `WalkConstants`: any finite sets of connections and of channels, any cap
(0 is no cap: a connection has at most one turn, so the limit is then their
number), any bounds, any non-empty sequence of requests.

* The cap is inductive nearly as it stands: with `active` finite and within the
  limit, only `Grant` adds a turn, and only when there is room; the lemmas
  `FewerTurns` and `OneMoreTurn` carry the cardinalities.
* Ownership of turns is not inductive as `EveryTurnIsOwned` states it, for quiet
  moments of a process that is not going down: it says nothing of the steps of a
  pump, nor of a reservation that stands in the line twice, which `release`
  would take out once. The invariant is `IInv == TypeOK /\ Owned`. `Owned` holds
  at every moment: places in the line are distinct and nobody in line has a
  turn (`Once`); a connection's reservation is at the gate, and what is at the
  gate is its connection's reservation, while a connection whose call is still
  on the stack (`after`) has none (`Core`); and going down the gate is empty and
  only connections still to be detached are up (`Stopped`). One lemma per action
  shows that it is kept; `StepEnds`, `Releasing` and `AdvancedType` are the
  parts several actions share. `EveryTurnIsOwned` is `Owned` at a quiet moment.
* No wake-up is lost: `Woken`, that outside a pump nobody is in line or no turn
  is to be had, is kept because whatever gives a turn back pumps, and the pump
  ends only when it can grant no more. It rests on `Owned` (a reservation given
  back is really at the gate).
* Nothing is asked going down: an action property. From `Owned`'s `Stopped`, no
  step is begun once the shutdown has, so that no action lets a pacer's queue
  grow (`Keeps`).
* Walks are carried, one step at a time: `Walks` says of each connection that it
  is `Paced` and `Carried`. The pacer may still hold requests of a step that was
  cut short, so `OneStepInThePacer` is not inductive:
  what waits must be told apart (`Told`: by the step in flight, by a step in `cut`,
  or of an earlier walk) and only a cut step's requests may stand before those of
  another (`Overtakes`). `Carried` names what brings a walk with channels left on,
  and needs in turn that who stands in line, or is about to, has no step.

*The ladders* (`LaddersHold`, `LaddersKeepTypes`, `OneWayUp`, `NobodyIsOrphaned`,
`PumpStaysArmed`, `NothingIsPinned`): every safety property of `Reconnects`. From
`ReconnectConstants`: any number of networks and of objects, any hosts, lists, limit
of rejections, gates and jitter, any number of interventions and of failures to read
the policy. None of the four is inductive: that a mapped connection has one way back
does not say which, and so not what the close, the timer or the launch that comes
next finds. The invariant is `LaddersInv`, a predicate on the state as a value (`Now`),
so that what a handler's operators keep can be said of each of them:

* `Mapped`: what the map holds is of that network and was neither told to disconnect
  nor disposed. `stopNetwork` and `disposeNetwork` end an object and unmap it in one
  event; the launch and the retry count on that;
* `CarriedOn`: the state of a mapped object says which one thing carries it on: a
  socket that is dialling (`connecting`), one that is open (`connected`), a timer or a
  waiting retry (`reconnecting`), a waiting start or, given up, nothing (`disconnected`);
* `Belongs`, `Idle`: an object nobody has ended that has a socket, a timer or a
  place in the queue is the one in the map, and one that was ended has no timer
  and is still of a network, which the close of its socket may name;
* `Tasks`: a waiting launch is the only one of its object, of its object's
  network, and a retry just when that is `reconnecting`. The pump would otherwise dial
  twice, or not dial at all;
* `Allowed`: nothing is mapped of a paused account, of a host off the account's list, or
  through a proxy the account may not use unless it is `disconnected`: `connect` asks
  `mayUseProxy` at the dial, after the start has taken its place in the queue;
* `Stands`: what the clients were told is still so of an object whose next change
  will be told. Objects that were let go keep their sockets, so this is of any object
  of the network, not of the mapped one (section 3, Observations);
* `Armed`: the timer and the gates run down together, so that it is never set for later
  than the first launch that may go, which `SoonestIs` and `ReadyInFalls` say.

One lemma says what each helper returns (`SetStateIs`, `DisconnectIs`, `ConnectIs`,
`DisposeIs`, `ScheduleIs`, `StartedIs`, `RestartIs`, ...), one that collecting what
nothing refers to keeps the invariant (`CollectedIsGood`), and one per action puts them
together. What stops or starts all networks in turn is a recursive function: `StopEach`
and `StartEach` follow it by `Climb` (see QueuesProofs), with the objects that are
still unused against the networks that are still to start (`Rest`), which is what
`RoomFor` is for. TLC checked `LaddersInv` on an instance of two networks first.

The run `connections` composes the two. A step of the composition is one of either
that leaves the other's variables alone (`SuiteRunsBoth`), so that all of the above is
so of it; `SuiteKeepsTypes` is the two types together.

**EngineClaimsProofs** (`TypesHold`, `ClaimsAreExclusive`, `OnlyNewerTakes`,
`InductiveInvariant`), from `ClaimConstants`: any number of processes, links,
sockets, settings, faults and commands, lossy or reordered or not. A claim is kept
twice, in the socket's `sink` and in the link's `claims`, and the two are changed
at different lines of the code; that they agree is inductive only with what the
handlers count on. `IInv` is

* `EngineSound`: one claim per socket, which is its sink (`OneClaim`); only a link
  that is there and said hello has claims, and is written to (`Linkage`); sockets
  are used in order, an unused one is blank, and the current one lives (`Life`),
  so that a fresh socket starts with no claim on it;
* `LinksSound`: links are opened in order, and what the engine reads first from a
  link is its hello. Without it a frame could claim for a link that is not
  authenticated;
* `AppSound`: only a process that heard its link's hello waits for frames or writes,
  and its link is its own. This keeps `LinksSound`: nobody writes before the hello.

The engine's handlers are operators, so each has a lemma that says what its answer
keeps (`Answered`), composed from what its parts keep (`Moves`, `MovesSound`); a
process's step is one of `Takable` form. One lemma per action then puts the two
together. `OnlyNewerTakes` looks at who may make a claim pass: only the frame at
the head of the new holder's link, by `Refused` or by the changed settings. Types
are part of `IInv`; `TypesHold` states them.

**EngineRelayProofs** (`SaidInTurn`, `RelayTypes`), from `RelayConstants`: any
processes, links, sockets, lines, rows and batches, and any bounds. That the numbers
in use are of lines there are is not inductive: a frame that came too late would give
a process a line of no session, and a prompt that came twice would open two. What
must be known is what is under way on every link, `InTurn`. With `Talk` it says, of
the two queues of a link, the process that has its end and whether the engine's
session reports to it:

* at most one CONNECT is under way, and only of a process that is asking; until it
  is read, nothing but offers is on the way back, and the session is not the link's;
* a line on its way reaches a process that is up by then (`InSession`): the answer
  that makes it so is ahead of it, with no end of a session between;
* after `detached` or `closed` there is nothing but offers;
* on the session's own link neither is under way, and once the socket is open the
  next line would find the process up.

`Placed` says that a process and its link have each other, `UpSound` that the
engine's cursor is within the lines it has, `Sane` what belongs to each state of a
process. Each way a queue changes has its lemma on `Talk` (`TalkGrows`,
`TalkStarts`, `TalkReads`, `TalkCut`, `TalkHeard`, ...), a flush has one on what it
sends (`FlushFlows`: lines in order, each once), and one lemma per action puts them
together. It is this invariant that makes `AppReads` sound where the code drops a
frame nobody handles: a line is never the frame that is dropped.

**EngineRelayAckProofs** (`AcksAreStored`): `AckedIsPersisted`, from
`RelayConstants` and the scenario `OneSocketPlain`, which is where the code keeps it:
one socket, lines of at most one row outside batches, and a registration burst that
stores nothing. Each part is needed: an ack names only a number, which the next
socket also has (run `engine_relay_stale_ack`), a batch is stored when it ends
(run `engine_relay_batch_ack`), and a line of several rows is marked with the first
of them (`db/engineMarks.ts:35`). Within it everything is open: any number of lines,
processes and links, any loss, takeover, crash and shutdown, any delay of an ack.
The run `engine_relay` is an instance of the scenario. On top of `SaidInTurn` the
invariant is `AckInv`. A line is `Done` when its row is there or the engine has let
go of it. Then

* every ack on its way, every ack a process has queued, and the mark, is of a line
  up to which everything is done (`Settled`);
* a process that stores the row of a line has everything before it done (`Honest`);
* of the lines up to the last received, what is on its way on a link leaves none out
  (`Whole`): what comes before a line there is done, in its reader's hand, or earlier
  on the same link; and so it is with what the engine will send next (`Reaches`).

The last is what makes the first inductive: the code acks with the number of the
line just handled, as an ack of all before it, and looks at no other. A line the
backlog sheds counts as done, since the property is about acks only; that a shed
line is reported is `BacklogNoSilentHole`. The engine's steps are shown by what
they bring a link (`EngineCarries`, `WholeBrings`), a process's by what it takes
from one (`WholeRead`, `TakesAck`).

**EngineRelayOnceProofs**, what is stored, on top of `SaidInTurn`, in three parts.

*Rows are stored once* (`LinesRise`, `RowsAreStoredOnce`): `SecondCopyNeedsPrune`
from `RelayConstants` alone: several sockets, lines of any number of rows, batches,
and any number of processes, takeovers, losses and crashes. The mark of a socket is a
single number, and `storeUnderMark` compares: past the mark is stored, up to it is
refused, but for a process whose own last row is of that line. Why no row passes
twice has two parts, both inductive:

* `OrderInv`: between two frames on which a process starts over (`attached`,
  `dialing`, `detached`, `closed`) what it is brought comes in order, and after the
  line it last stored and the one in its hand (`Rising`); what has been sent on the
  session's link is not past the engine's cursor (`Below`), so that what the engine
  sends next keeps the order. A frame of such a kind lets a process forget what is
  behind it, which is why a replay, whose numbers start again, does not break it;
* `MarkInv`: while the mark of a socket stands no row of it is past the mark; what is
  left of a line in part stored is not stored yet; and of the processes with such a
  line in hand no two have the same one. With `LinesRise` the mark may not come to a
  line a process has finished and takes up again.

A pruned mark is left out by the property itself: `Stands` is asked of every part.

*What comes past `live` is new* (`LiveIsNew`): `LiveLinesAreNew`, from `RelayConstants`
alone. It speaks of rows that are there, and is not inductive: a row may still be on
its way to the table with another process, which was delivered the line before it was
superseded. The invariant is `FreshInv`, with `OrderInv` beside it. It looks at
everything that is `Known` of a socket, the lines stored, in some process's hand or in
a frame on some link, and says

* `UpFresh`: all that is known is of lines the engine has received, and once a sink
  is attached, before the first line it will be sent live (`Edge`): `liveAfter` is set
  to the last line there is, so a replay that is interrupted by the sink's high-water
  mark, and resumed, is still not live;
* `SinkNew`: what the session's own process reads past `live`, or has in hand so, is
  past all that is known elsewhere; while `live` is still owed nothing makes it live;
* `OneVoice`: a link carries one session's lines at a time, and of one socket, so that
  a process's idea of where it is (`sock`, `catching`) fits what it reads next;
* `Dialed`: nothing is of a socket that is still to be dialed, so that a fresh socket,
  whose numbers start again, starts with nothing known.

Storing a row takes the line out of a hand, and what is shed or lost only makes less
known (`KnownCalm`, `KnownLess`); a line is added to what is known where the engine
writes it, by `NewsGrows`, and `FlushNews` says what a flush sends live. TLC checked
`FreshInv` on small instances with one socket and with two first.

*The refinement* (`RelayKeepsItsPromise`): `ImplementsMessageLog` in the scenario
`OneSocketPlain`, of which the run `engine_relay` is an instance; its reasons are those
of `AcksAreStored`, as a line lost to a false ack is one the table passes over. A step of
the relay is one of the abstract log (`PromisedStep`): a shed is `ShedLines`, a prune
`Forget`, a row stored `Store` or, after its mark was pruned, `Repeat`, and everything
else is a stutter. `Store` must be the next line, past all that are stored or shed. That
it is past them is `MarkInv`, by the refusal under the mark; that none is passed over
needs all the invariants and `PromiseInv` besides: what is before the line in hand is
done (`Honest`), and what the engine has let go of was acked, and then is stored
(`AckInv`), or was shed (`Trimmed`).

**SendPacerProofs** (`LinesKeepTheirOrder`, `WritersHearOnce`, `NoRekeyIsLost`,
`QueueIsNeverLeft`, `PacerKeepsPace`, `PacerTypes`): `InOrder`, `HeardOnce`,
`RekeyIsSomewhere`, `QueueIsCarried`, `ServerReadsUs` and `PacerTypeOK`, all that is
checked of the pacer, from `PacerConstants`: any budget, cost of a long line, lines of
a unit, keyed items, mix of items and number of sockets. The invariant is `PacerInv`:

* `Queue`: each lane holds entries of its own kinds, each before the next
  (`Precedes`: older, or an earlier part of the same item), what is gone went in that
  order and before what waits in its lane. That what went is in order is the last of
  these only: a line sent now may not come after one that is not written yet, so the
  lanes and the ages of items are part of it. It follows that no entry stands in two
  places (`OnePlace`), which the next two need;
* `Told`: what waits was not told sent, nor dropped but by a refusal, which is
  remembered and happens only to a socket on its way out; what is whole was not
  refused. An item written in its thunk's parts is told by the last of them;
* `Rekeyed`: at most one entry bears the REKEY, never while one is on the wire, and
  nothing that bears it was refused;
* `Timed`: while no drain runs, a timer is within both bounds of `QueueIsCarried`,
  also while the link is cut or restoring, where the property asks for none: a timer
  that is kept through a restore is the one it has afterwards. Without a socket
  nothing waits. A cancel keeps the bound of the longest line only, and leaves the item
  that explains it (`Taken`), which nothing takes back;
* `Clocked`: while the socket still takes lines (`Taking`) whatever the server was sent
  is on our clock too, but for the walk's lines, and pacing was on all the time. That
  the server's clock stays within the budget is not inductive, since a line is let
  through by ours. A reset sets ours to nothing, and it is kept because nothing more
  goes to that socket (`DroppedClocked`); the next one starts both.

What a step does to the lanes is proved once for any lane (`LaneShifts`, `LaneAppend`,
`LaneReplaces`, `LaneWithout`, which rests on `WithoutKeeps`: what `remove()` leaves
stands in the order it stood in), then for all of them (`FillShifts` and the others),
then for each kind of step.

**PromisesProofs**, what the two abstract specifications mean for their readers.

*One backlog* (`BacklogTypeOK`, `BacklogGapBeforePending`,
`BacklogNoSilentHole`): whatever is received, shed, acked and taken, and in any
number, a line is pending, acked, in the gap to be told, or in one that was told.
The invariant adds that the gap lies before the pending lines and that what lies
before the first pending line is accounted for, which an ack across a shed
range needs. `EveryBufferKeepsItsPromise` below carries all three over to every
buffer of the engine.

*The log* (`LogInOrder`, `LogStoredOnce`, `LogNoneSkipped`): what the
abstract log means for a reader of the table, for any sockets and lines
(`LogStoredOnce` takes the lines to be natural numbers). `StoredOnce` follows from the
order, which is the inductive part. By `RelayKeepsItsPromise` they hold of the
relay's rows, on one socket and for lines of one row.

**QueuesProofs**, three parts that share nothing.

*The engine's buffers* (`BuffersKeepTypes`, `NoBytesLeak`, `BacklogsStayBounded`,
`EveryBufferKeepsItsPromise`), from `BufferConstants`: any number of buffers, any
sizes, any ceilings as long as the budget's is no less than a buffer's. Neither
property is inductive by itself, since `reclaim` picks its victims by the counters it
changes. The invariant is `BuffersInv`:

* `Counted`: `bytes` is what a buffer's lines add up to, `used` what the buffers do;
* `Numbered`: a buffer's lines bear the numbers up to `nextSeq` without a break, so
  that the oldest line is the one the hole grows by, and an ack releases a front;
* `Holed`: a hole ends below `nextSeq` and does not start at 0;
* `Capped` and `Settled`: the two ceilings, as `BudgetBound` states them; and a
  buffer that is not registered holds no line, so that registering one breaks
  neither.

The sums and the loops are recursive functions. What a sum does is proved from the
sequence of its partial sums (`SumsAreTotal`, `TotalConcat`, `TotalAt`), what a loop does
from the sequence of its turns (`Runs`): each turn keeps the accounts and sheds the
oldest line of one buffer (`Dropped`) or finds the loop ended, and as each line is shed
at most once, it has ended when the turns are over (`Trimmed`, `ReclaimedAll`). Both
rest on `Climb`, which is induction over a set that is given, from the library's
theorem that < is well-founded, and needs no operator for a parameter. For a single
buffer the whole of `push` is then a `Receive` of `Backlog`, and what the shared budget
makes another buffer shed is a `Squeeze` (`Received`, `Squeezed`).

*Uploads* (`UploadsInvariant`, `FilesAreHandedOnOnceAsSent`,
`OpenSessionsKeepTheirBytes`), from `UploadsConstants`: any sessions, any size of
a file and of a chunk, any number of restarts and of failures. Neither property
is inductive: that a file is as sent when it is handed on says nothing of the
byte on its way to the disk, nor of the unlink or the sweep that is still to
come. The invariant is `UploadsInv`: the types, and of every session `Sound`, which is

* `NoTrace`: an id not yet drawn has no row, no file, and is in no set, so that
  what is created starts from nothing;
* `OneRequest`: a body being read and a file being used are of a busy session,
  never both, and what is on its way to the disk belongs to the body;
* `Whole`: the file of an open session is there and is as sent as far as it goes,
  was handed on to nobody, and neither an unlink nor the sweep is after it (the
  sweep may have its name until it has looked at the rows, not longer);
* `GoesOn`: the body being read goes on where the file ends, counting the byte
  on its way;
* `HandedWhole`: what was handed on.

An action of one session leaves the others as they are or takes them out of a
set (`Untouched`, lemma `Elsewhere`); the session itself has one lemma per
action. The sweep's start and listing and the end of the process touch every
session and are proved for each. As in the run, nothing is claimed once the
database failed twice, which lasts (`FailuresStay`).

*History walks* (`NoWalkIsLeftOver`): `WalkGoesOn`, for any histories, page limits,
windows, link losses and refusals. It is inductive with two facts (`HistoryInv`):
after the verdict that the network answers nothing, no walk waits and none is on the
wire, else the next `live` would find one that `next()` may not take; and what is on
the wire is a walk, so that a batch that opens does not make it nobody's.

Only model-checked: liveness under fairness, which is out of the prover's reach;
`NothingSkipped` of `Chathistory`, whose invariant would have to say of every window
still to be walked which of its lines the anchors leave to it; of `EngineClaims` what processes believe (`ConnectedIsReal`,
`NothingForgotten`, `NeverResumed`), which needs an invariant over every frame in
flight; and the types of the composed queues (`QueuesTypeOK`), which for the buffers and the
pacer are in the theorems above.

## 6. Not modelled, and why

* IRC text: parsing, numerics, CTCP, modes, members, casemapping. The models
  need which lines make rows and which answer a request, and have that.
* The engine's burst recording and its replay of channels: abstracted to the
  registered socket and the attach; a module of its own is planned.
* Authentication of links, several instances on one engine, frame encoding,
  proxies, TLS: no state the properties here are about. Every process in the
  model belongs to one instance, and one user and network are followed, since
  the engine treats ids independently except for the byte budget, which
  `LineBuffer` models over several buffers.
* Clocks: a timer is an action that may fire whenever it is armed, and a
  deadline may pass at any time. This covers every timing the code can meet,
  and some it will not.
* In `EngineClaims`: the errors that answer a CONNECT with an unusable host,
  port, certificate or proxy (`engine/server.ts:451-512`) or one whose replay is too
  large (`:571-581`), and the close a transport asks for when its restore fails
  (`services/engineTransport.ts:399-406`). To the process and the engine they are
  what a time-out, a close and a `close` are, which are modelled.
* In `Reconnects`: the engine mode (that is `EngineClaims`), the scheduler's
  `disabled` option, deletion of a network's row, waiting for identd.
* In `SendPacer`: the reports of the queue's depth to the client, the REKEYs that
  a handshake queued and the next plain message sends (`flushE2eRekeys`,
  `services/ircConnection.ts:11272`; here a REKEY goes with an encrypted message),
  and one whose making throws.
* In `Chathistory`: live lines that arrive during a walk (they can only move the
  anchor of a later window up), and which rows are marked as asked for. In the
  reply router: every form but CHATHISTORY's.
* In `Uploads`: refusals, which change nothing, what the file is used for, and a
  `create` whose insert fails. Of the sweep a file's age and its unlink are one
  step.
* Export jobs and DCC: modules of their own, not written. Their hazards are
  listed without a property.
* The web client, the HTTP routes, the wire formats of push services and
  storage, and SQL beyond the marks table.

## 7. Plan

Done, in this order: the backlog; the relay with its refinement to the log; the
restore walk; the claims; proofs of backlog, log and gate; the send pacer; the
ladders with the connect scheduler; the history walks; the uploads and their
proof.

Next, by the weight of what can go wrong:

1. **ReplyRouter**: the other forms, one query of a kind on the wire, queries that
   wait for others; then `Chathistory` over it in place of its rule.
2. **UpstreamSession**: burst, channels and capabilities of a held socket
   against what the replay tells a new process.
3. **ExportJobs**: restarts between steps, partial files.
4. **DCC**: port pool, transfer states.
5. The pacer under `RestoreWalk` in place of its queue, and the engine under
   `Reconnects`.

Theorems worth proving next: `ConnectedIsReal` for any processes and links;
`NothingSkipped` of `Chathistory` for any histories and pages.
