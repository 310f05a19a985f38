---------------------------- MODULE RestoreWalk ----------------------------
(***************************************************************************)
(* The channel-state refresh after an engine re-attach: every connection   *)
(* walks its channels one step at a time (services/ircConnection.ts,       *)
(* drainRestoreQueue), and each step takes a turn at a process-wide cap    *)
(* (services/restoreGate.ts).                                              *)
(*                                                                         *)
(* The gate grants synchronously and is re-entered from inside its own     *)
(* grants.  One event of the loop is therefore several steps here: while   *)
(* `pumping' or `after' say that the call stack is not empty, no other     *)
(* event happens.                                                          *)
(*                                                                         *)
(* A definition marked `fault' is a plausible mistake in the one that      *)
(* follows it; it breaks a property below when put in its place.           *)
(***************************************************************************)
EXTENDS Integers, Sequences, FiniteSets, SequencesExt

CONSTANTS
    Conns,      \* connections of the process
    Chans,      \* channels a connection may be in
    Requests,   \* what a step asks, in order: NAMES, TOPIC, MODE
    Cap,        \* LURKER_RESTORE_CONCURRENCY, 0 for no cap
    MaxWalks,   \* bound: re-attaches of one connection
    MaxThrows   \* bound: steps that throw

ASSUME WalkConstants ==
    /\ IsFiniteSet(Conns) /\ IsFiniteSet(Chans)
    /\ Requests \in Seq(STRING) /\ Requests # <<>>
    /\ {Cap, MaxWalks, MaxThrows} \subseteq Nat

VARIABLES
    waiting,   \* RestoreGate.waiting: entries, in order
    active,    \* RestoreGate.active: entries that hold a turn
    pumping,   \* RestoreGate.pumping
    after,     \* the connections whose drainRestoreQueue goes on after the pump
    conns,     \* per connection
    closing,   \* connections a shutdown has still to detach
    down,      \* the process is shutting down
    throws     \* bound

vars == <<waiting, active, pumping, after, conns, closing, down, throws>>

-----------------------------------------------------------------------------
(* Values.                                                                 *)

\* A reservation: one channel of one walk of one connection.
Entry == [conn : Conns, walk : 1 .. MaxWalks, chan : Chans]
None == [none |-> TRUE]

\* joined: channels we are in; queue: channels still to ask; slot: the
\* reservation held or waited for; step: the entry in flight, and what it is
\* owed; timer: "slot" gives the turn back, "deadline" moves the walk on;
\* out: requests waiting in the pacer; wire: requests sent and unanswered;
\* cut: history, the steps a refusal or a throw has cut short.
NoConn == [up |-> FALSE, walk |-> 0, joined |-> {}, queue |-> <<>>, slot |-> None,
           step |-> None, owed |-> {}, timer |-> "none", out |-> <<>>, wire |-> <<>>,
           cut |-> {}]

Limit == IF Cap = 0 THEN Cardinality(Conns) ELSE Cap

\* The event loop is between two events.
Quiet == ~pumping /\ after = {} /\ closing = {}

AsksOf(e) == [i \in 1 .. Len(Requests) |-> [entry |-> e, ask |-> Requests[i]]]
Unsent(k) == k.step # None /\ \E i \in DOMAIN k.out : k.out[i].entry = k.step

-----------------------------------------------------------------------------
Init ==
    /\ waiting = <<>>
    /\ active = {}
    /\ pumping = FALSE
    /\ after = {}
    /\ conns = [c \in Conns |-> NoConn]
    /\ closing = {}
    /\ down = FALSE
    /\ throws = 0

-----------------------------------------------------------------------------
(* RestoreGate.release of the connection's slot, if it has one, and what   *)
(* endRestoreStep clears; the pump that follows is left to run.  Inside a  *)
(* pump the nested one returns at once.                                    *)

Place(e) == CHOOSE i \in DOMAIN waiting : waiting[i] = e

Released(e) == [waiting |-> IF e \in ToSet(waiting) THEN RemoveAt(waiting, Place(e))
                            ELSE waiting,
                active  |-> active \ {e}]

InGate(e) == e \in active \union ToSet(waiting)

StepEnded(k) == [k EXCEPT !.slot = None, !.step = None, !.owed = {}, !.timer = "none"]

\* drainRestoreQueue past its endRestoreStep: the next channel we are still in
\* gets a reservation at the back of the line.  k is c as its step ended.
Advanced(c, k, line) ==
    LET i == SelectInSeq(k.queue, LAMBDA ch : ch \in k.joined)
        e == [conn |-> c, walk |-> k.walk, chan |-> k.queue[i]]
    IN  IF i = 0 THEN [k |-> [k EXCEPT !.queue = <<>>], line |-> line]
        ELSE [k    |-> [k EXCEPT !.queue = SubSeq(@, i + 1, Len(@)), !.slot = e],
              line |-> Append(line, e)]

\* What an event that ends c's step does at once; with `go' the walk goes on
\* when the pump is over.
EndStep(c, k, go) ==
    LET gate == Released(k.slot) IN
    /\ conns' = [conns EXCEPT ![c] = StepEnded(k)]
    /\ waiting' = gate.waiting /\ active' = gate.active
    /\ pumping' = InGate(k.slot)
    /\ after' = IF go THEN {c} ELSE {}

-----------------------------------------------------------------------------
(* The pump.                                                               *)

\* fault: one more than the cap
RoomForOneMore == Cardinality(active) <= Limit
Room == Cardinality(active) < Limit

\* sendRestoreStep asks, and the step keeps its turn.
Asks(e) ==
    LET k == conns[e.conn] IN
    /\ e.chan \in k.joined
    /\ conns' = [conns EXCEPT ![e.conn] =
                   [k EXCEPT !.step = e, !.owed = ToSet(Requests), !.timer = "slot",
                             !.out = @ \o AsksOf(e)]]
    /\ waiting' = Tail(waiting)
    /\ active' = active \union {e}
    /\ UNCHANGED throws

\* The walk goes on from inside the grant.
PassesOver(e, k) ==
    LET a == Advanced(e.conn, StepEnded(k), Tail(waiting)) IN
    /\ conns' = [conns EXCEPT ![e.conn] = a.k]
    /\ waiting' = a.line
    /\ UNCHANGED active

\* We have left the channel since.
NothingToAsk(e) ==
    /\ e.chan \notin conns[e.conn].joined
    /\ PassesOver(e, conns[e.conn])
    /\ UNCHANGED throws

\* Some of the requests are with the pacer when one throws.
Throws(e) ==
    /\ e.chan \in conns[e.conn].joined
    /\ throws < MaxThrows
    /\ throws' = throws + 1
    /\ \E n \in 0 .. Len(Requests) - 1 :
          PassesOver(e, [conns[e.conn] EXCEPT !.out = @ \o SubSeq(AsksOf(e), 1, n),
                                             !.cut = @ \union {e}])

\* One turn of RestoreGate.pump's loop.
Grant ==
    /\ pumping /\ waiting # <<>> /\ Room
    /\ \/ Asks(Head(waiting))
       \/ NothingToAsk(Head(waiting))
       \/ Throws(Head(waiting))
    /\ UNCHANGED <<pumping, after, closing, down>>

PumpEnds ==
    /\ pumping
    /\ waiting = <<>> \/ ~Room
    /\ pumping' = FALSE
    /\ UNCHANGED <<waiting, active, after, conns, closing, down, throws>>

\* drainRestoreQueue after its release returned.
GoOn(c) ==
    LET a == Advanced(c, conns[c], waiting) IN
    /\ ~pumping /\ c \in after
    /\ after' = {}
    /\ conns' = [conns EXCEPT ![c] = a.k]
    /\ waiting' = a.line
    /\ pumping' = (a.k.slot # None)
    /\ UNCHANGED <<active, closing, down, throws>>

-----------------------------------------------------------------------------
(* Events of a connection.                                                 *)

\* onEnginePhase('restored'): the walk covers the channels the replay rebuilt.
Restored(c) ==
    /\ Quiet /\ ~down
    /\ ~conns[c].up /\ conns[c].walk < MaxWalks
    /\ \E q \in {s \in SeqOf(Chans, Cardinality(Chans)) : IsInjective(s)} :
          conns' = [conns EXCEPT ![c].up = TRUE, ![c].walk = @ + 1,
                                 ![c].joined = ToSet(q), ![c].queue = q]
    /\ after' = {c}
    /\ UNCHANGED <<waiting, active, pumping, closing, down, throws>>

\* A KICK or PART, ours included.
Leaves(c, ch) ==
    /\ Quiet
    /\ ch \in conns[c].joined
    /\ conns' = [conns EXCEPT ![c].joined = @ \ {ch}]
    /\ UNCHANGED <<waiting, active, pumping, after, closing, down, throws>>

\* fault: nothing but the replies moves the walk on
DeadlineForgotten(k) == [k EXCEPT !.timer = "none"]

DeadlineArmed(k) == [k EXCEPT !.timer = "deadline"]

\* The pacer sends the next request; the step's last one starts its deadline.
Sends(c) ==
    LET k == conns[c]
        s == [k EXCEPT !.out = Tail(@), !.wire = Append(@, Head(k.out))]
        last == k.step = Head(k.out).entry /\ ~Unsent(s)
    IN  /\ Quiet
        /\ k.up /\ k.out # <<>>
        /\ conns' = [conns EXCEPT ![c] =
                       IF last THEN DeadlineArmed(s) ELSE s]
        /\ UNCHANGED <<waiting, active, pumping, after, closing, down, throws>>

\* noteRestoreReply: the server answers, or refuses (403, 442), the oldest
\* request; a reply for another channel than the step's is not the step's.
Answers(c, refused) ==
    LET k == conns[c]
        q == Head(k.wire)
        r == [k EXCEPT !.wire = Tail(@)]
        mine == k.step # None /\ k.step.chan = q.entry.chan
                  /\ \A i \in DOMAIN k.out : k.out[i] # [entry |-> k.step, ask |-> q.ask]
        owed == IF refused THEN {} ELSE k.owed \ {q.ask}
    IN  /\ Quiet
        /\ k.up /\ k.wire # <<>>
        /\ IF mine /\ owed = {}
           THEN EndStep(c, IF refused THEN [r EXCEPT !.cut = @ \union {k.step}] ELSE r,
                        TRUE)
           ELSE /\ conns' = [conns EXCEPT ![c] =
                               IF mine THEN [r EXCEPT !.owed = owed] ELSE r]
                /\ UNCHANGED <<waiting, active, pumping, after>>
        /\ UNCHANGED <<closing, down, throws>>

\* A server that skips a numeric: the request is done with, unanswered.
Skips(c) ==
    /\ Quiet
    /\ conns[c].up /\ conns[c].wire # <<>>
    /\ conns' = [conns EXCEPT ![c].wire = Tail(@)]
    /\ UNCHANGED <<waiting, active, pumping, after, closing, down, throws>>

\* faults: the walk goes on although its requests have not gone; the step is
\* given up with the turn; the turn goes back and nobody is told
SlotTimerMovesOn(c, k) == EndStep(c, k, TRUE)
SlotTimerGivesUp(c, k) == EndStep(c, k, FALSE)
SlotTimerTellsNobody(c, k) ==
    /\ conns' = [conns EXCEPT ![c].slot = None, ![c].timer = "none"]
    /\ waiting' = Released(k.slot).waiting /\ active' = Released(k.slot).active
    /\ UNCHANGED <<pumping, after>>

\* RESTORE_STEP_SLOT_CAP_MS: the turn goes back, the step stays.
SlotTimerFires(c, k) ==
    LET gate == Released(k.slot) IN
    /\ conns' = [conns EXCEPT ![c].slot = None, ![c].timer = "none"]
    /\ waiting' = gate.waiting /\ active' = gate.active
    /\ pumping' = InGate(k.slot)
    /\ UNCHANGED after

SlotCapPasses(c) ==
    /\ Quiet
    /\ conns[c].timer = "slot"
    /\ SlotTimerFires(c, conns[c])
    /\ UNCHANGED <<closing, down, throws>>

\* RESTORE_STEP_DEADLINE_MS
DeadlinePasses(c) ==
    /\ Quiet
    /\ conns[c].timer = "deadline"
    /\ EndStep(c, conns[c], TRUE)
    /\ UNCHANGED <<closing, down, throws>>

\* faults: the reservation is left behind; the step's timer is
ClosedKeepingSlot(c) ==
    /\ conns' = [conns EXCEPT ![c] = [NoConn EXCEPT !.walk = conns[c].walk]]
    /\ UNCHANGED <<waiting, active, pumping, after>>
ClosedKeepingTimer(c) ==
    /\ conns' = [conns EXCEPT ![c] =
                   [NoConn EXCEPT !.walk = conns[c].walk, !.timer = conns[c].timer]]
    /\ UNCHANGED <<waiting, active, pumping, after>>

\* resetRestoreState on `close', and the router's reset, which takes what it has
\* in the pacer out again.  With the socket still in the engine, what the server
\* owes us outlives it.
Closed(c) ==
    LET k == conns[c] IN
    \E kept \in {[NoConn EXCEPT !.walk = k.walk],
                 [NoConn EXCEPT !.walk = k.walk, !.wire = k.wire]} :
        EndStep(c, [kept EXCEPT !.slot = k.slot], FALSE)

Closes(c) ==
    /\ Quiet
    /\ conns[c].up
    /\ Closed(c)
    /\ UNCHANGED <<closing, down, throws>>

-----------------------------------------------------------------------------
(* IrcManager.shutdown: the gate is reset before the connections go, one   *)
(* after another.                                                          *)

\* fault: the gate is left as it is
GateKept == UNCHANGED <<waiting, active>>
GateReset == waiting' = <<>> /\ active' = {}

ShutdownBegins ==
    /\ Quiet /\ ~down
    /\ down' = TRUE
    /\ closing' = {c \in Conns : conns[c].up}
    /\ GateReset
    /\ UNCHANGED <<pumping, after, conns, throws>>

ShutdownDetaches(c) ==
    /\ ~pumping /\ after = {} /\ c \in closing
    /\ closing' = closing \ {c}
    /\ Closed(c)
    /\ UNCHANGED <<down, throws>>

-----------------------------------------------------------------------------
PumpStep == Grant \/ PumpEnds \/ \E c \in Conns : GoOn(c)

Next ==
    \/ PumpStep
    \/ ShutdownBegins
    \/ \E c \in Conns :
          \/ Restored(c) \/ Sends(c) \/ Skips(c)
          \/ SlotCapPasses(c) \/ DeadlinePasses(c)
          \/ Closes(c) \/ ShutdownDetaches(c)
          \/ \E ch \in Chans : Leaves(c, ch)
          \/ \E refused \in BOOLEAN : Answers(c, refused)

Spec == Init /\ [][Next]_vars

-----------------------------------------------------------------------------
(* Properties.                                                             *)

Request == [entry : Entry, ask : ToSet(Requests)]

Connection ==
    [up : BOOLEAN, walk : 0 .. MaxWalks, joined : SUBSET Chans, queue : Seq(Chans),
     slot : Entry \union {None}, step : Entry \union {None},
     owed : SUBSET ToSet(Requests), timer : {"none", "slot", "deadline"},
     out : Seq(Request), wire : Seq(Request), cut : SUBSET Entry]

\* Types; and a timer of the walk runs only for a live connection's step
\* (endRestoreStep and resetRestoreState clear it).
TypeOK ==
    /\ waiting \in Seq(Entry) /\ active \in SUBSET Entry
    /\ pumping \in BOOLEAN /\ down \in BOOLEAN
    /\ after \in SUBSET Conns /\ closing \in SUBSET Conns
    /\ throws \in 0 .. MaxThrows
    /\ conns \in [Conns -> Connection]
    /\ \A c \in Conns : conns[c].timer # "none" => conns[c].up /\ conns[c].step # None

\* Never more turns out than the cap, however grants and releases nest
\* (RestoreGate.pump).
CapHolds == Cardinality(active) <= Limit

\* Between events every turn held or waited for belongs to a live
\* connection's current step: a turn nobody will give back would, cap times
\* over, end every refresh for the life of the process.
EveryTurnIsOwned ==
    Quiet /\ ~down =>
        /\ \A c \in Conns : conns[c].slot # None => InGate(conns[c].slot)
        /\ \A e \in Entry : InGate(e) => conns[e.conn].up /\ conns[e.conn].slot = e

\* Between events nobody waits while there is room (no lost wake-up).
NobodyWaitsForNothing == Quiet /\ waiting # <<>> => ~Room

\* A walk with channels left has something that will bring it on: a place in
\* the line, requests the pacer still has, or a deadline.
WalkIsCarried ==
    \A c \in Conns :
        Quiet /\ conns[c].up /\ conns[c].queue # <<>> =>
            \/ conns[c].slot \in ToSet(waiting)
            \/ Unsent(conns[c])
            \/ conns[c].timer = "deadline"

\* A connection asks the next channel only once all it asked before has gone
\* out, unless the step before was cut short: "a walk that queued channel after
\* channel behind one paste would send them all in one burst"
\* (ircConnection.ts:350-353).
OneStepInThePacer ==
    \A c \in Conns : \A i, j \in DOMAIN conns[c].out :
        LET e == conns[c].out[i].entry
            f == conns[c].out[j].entry
        IN  i < j /\ e.walk = f.walk /\ e # f => e \in conns[c].cut

\* Once the process is going down no step is asked: its replies would be
\* replayed to the next process (RestoreGate.reset, restoreGate.ts:157-161).
NothingAskedGoingDown ==
    [][down => \A c \in Conns : Len(conns'[c].out) <= Len(conns[c].out)]_vars

-----------------------------------------------------------------------------
(* Fairness: the call stack unwinds, timers fire, the pacer sends.  The    *)
(* server need not answer.                                                 *)

Fairness ==
    /\ WF_vars(PumpStep)
    /\ \A c \in Conns :
          /\ WF_vars(Sends(c)) /\ WF_vars(SlotCapPasses(c))
          /\ WF_vars(DeadlinePasses(c)) /\ WF_vars(ShutdownDetaches(c))

FairSpec == Spec /\ Fairness

\* Every walk comes to its end, or its connection does (a connection is never
\* for ever up with something left): whatever the server leaves unanswered, and
\* whoever else is at the cap.
WalkEnds ==
    \A c \in Conns :
        []<>(\/ ~conns[c].up
             \/ /\ conns[c].queue = <<>>
                /\ conns[c].step = None /\ conns[c].slot = None)

=============================================================================
