------------------------- MODULE ConnectionsProofs -------------------------
(***************************************************************************)
(* What brings connections up, and what they do once they are up.          *)
(*                                                                         *)
(* The refresh after a re-attach, for any connections, channels, requests  *)
(* and cap: never more turns out than the cap, every turn has an owner     *)
(* that will give it back, nobody waits while there is room, and every     *)
(* walk has something that will bring it on, one step at a time.           *)
(*                                                                         *)
(* The launch queue and the retry ladders, for any networks, hosts, lists, *)
(* gates and objects: one thing carries a mapped connection on, nothing    *)
(* goes on behind the map, the timer is armed while a launch waits, and    *)
(* the clients are never left with a state that nothing will change.       *)
(***************************************************************************)
EXTENDS MCConnections, FiniteSetTheorems, SequenceTheorems,
        WellFoundedInduction, TLAPS

-----------------------------------------------------------------------------
(* The cap.                                                                *)

WithinCap == IsFiniteSet(active) /\ Cardinality(active) <= Limit

\* The cap is a number: of turns, or of connections when it is off.
LEMMA LimitType == Limit \in Nat
<1>1. Cardinality(Conns) \in Nat
  BY WalkConstants, FS_CardinalityType
<1> QED BY <1>1, WalkConstants DEF Limit

\* Whatever gives a turn back leaves no more of them out.
LEMMA FewerTurns ==
    ASSUME WithinCap, active' \subseteq active
    PROVE  WithinCap'
<1>1. IsFiniteSet(active') /\ Cardinality(active') <= Cardinality(active)
  BY FS_Subset DEF WithinCap
<1>2. Cardinality(active) \in Nat /\ Cardinality(active') \in Nat
  BY <1>1, FS_CardinalityType DEF WithinCap
<1>3. Limit' = Limit
  BY DEF Limit
<1> QED BY <1>1, <1>2, <1>3, LimitType DEF WithinCap

\* RestoreGate.pump looks for room before each turn it hands out.
LEMMA OneMoreTurn ==
    ASSUME WithinCap, Room, NEW e, active' = active \union {e}
    PROVE  WithinCap'
<1>1. Cardinality(active) \in Nat
  BY FS_CardinalityType DEF WithinCap
<1>2. IsFiniteSet(active') /\ Cardinality(active') <= Cardinality(active) + 1
  BY <1>1, FS_AddElement DEF WithinCap
<1>3. Cardinality(active') \in Nat
  BY <1>2, FS_CardinalityType
<1>4. Cardinality(active) < Limit /\ Limit' = Limit
  BY DEF Room, Limit
<1> QED BY <1>1, <1>2, <1>3, <1>4, LimitType DEF WithinCap

\* Only Grant takes a turn.
LEMMA OnlyGrantsTake ==
    ASSUME [Next]_vars, active' \subseteq active => WithinCap',
           Grant => WithinCap'
    PROVE  WithinCap'
<1>1. ASSUME NEW c, NEW k, NEW go, EndStep(c, k, go) PROVE active' \subseteq active
  BY <1>1 DEF EndStep, Released
<1>2. ASSUME NEW c, Closed(c) PROVE active' \subseteq active
  BY <1>1, <1>2 DEF Closed
<1>3. CASE PumpStep
  BY <1>3 DEF PumpStep, PumpEnds, GoOn
<1>4. CASE ShutdownBegins
  BY <1>4 DEF ShutdownBegins, GateReset
<1>5. ASSUME NEW c \in Conns,
             \/ Restored(c) \/ Sends(c) \/ Skips(c)
             \/ SlotCapPasses(c) \/ DeadlinePasses(c)
             \/ Closes(c) \/ ShutdownDetaches(c)
             \/ \E ch \in Chans : Leaves(c, ch)
      PROVE  active' \subseteq active
  BY <1>1, <1>2, <1>5 DEF Restored, Sends, Skips, SlotCapPasses, SlotTimerFires, Released,
     DeadlinePasses, Closes, ShutdownDetaches, Leaves
<1>6. ASSUME NEW c \in Conns, NEW refused \in BOOLEAN, Answers(c, refused)
      PROVE  active' \subseteq active
  BY <1>1, <1>6 DEF Answers
<1>7. CASE UNCHANGED vars
  BY <1>7 DEF vars
<1> QED BY <1>3, <1>4, <1>5, <1>6, <1>7 DEF Next

\* No step takes the gate past the cap.
LEMMA NextWithinCap == WithinCap /\ [Next]_vars => WithinCap'
<1> SUFFICES ASSUME WithinCap, [Next]_vars PROVE WithinCap'
  OBVIOUS
<1>1. ASSUME Grant PROVE WithinCap'
  <2>1. ASSUME NEW e, Asks(e) PROVE active' = active \union {e}
    BY <2>1 DEF Asks
  <2>2. ASSUME NEW e, NothingToAsk(e) \/ Throws(e) PROVE active' = active
    BY <2>2 DEF NothingToAsk, Throws, PassesOver
  <2>3. Room
    BY <1>1 DEF Grant
  <2> QED BY <1>1, <2>1, <2>2, <2>3, OneMoreTurn, FewerTurns DEF Grant
<1> QED BY <1>1, FewerTurns, OnlyGrantsTake

\* Never more turns out than LURKER_RESTORE_CONCURRENCY, however grants and
\* releases nest (RestoreGate.pump).
THEOREM RestoreCapHolds == Spec => []CapHolds
<1>1. Init => WithinCap
  BY FS_EmptySet, LimitType DEF Init, WithinCap
<1>2. WithinCap => CapHolds
  BY DEF WithinCap, CapHolds
<1> QED BY <1>1, <1>2, NextWithinCap, PTL DEF Spec

-----------------------------------------------------------------------------
(* Values.                                                                 *)

\* To have no reservation is not to have one.
LEMMA NoneIsNoEntry == None \notin Entry
<1> SUFFICES ASSUME None \in Entry PROVE FALSE
  OBVIOUS
<1>1. DOMAIN None = {"conn", "walk", "chan"}
  BY DEF Entry
<1>2. DOMAIN None = {"none"}
  BY DEF None
<1> QED BY <1>1, <1>2

\* endRestoreStep clears the step and leaves the rest of the walk alone.
LEMMA StepEndedType ==
    ASSUME NEW k \in Connection
    PROVE  /\ StepEnded(k) \in Connection
           /\ StepEnded(k).slot = None /\ StepEnded(k).timer = "none"
           /\ StepEnded(k).up = k.up /\ StepEnded(k).walk = k.walk
           /\ StepEnded(k).joined = k.joined
  BY DEF StepEnded, Connection

\* A step asks one request for each of the list, in its order.
LEMMA AsksType ==
    ASSUME NEW e \in Entry
    PROVE  AsksOf(e) \in Seq(Request) /\ Len(AsksOf(e)) = Len(Requests)
<1>1. Requests \in Seq(STRING)
  BY WalkConstants
<1>2. \A i \in 1 .. Len(Requests) : Requests[i] \in ToSet(Requests)
  BY <1>1 DEF ToSet
<1>3. \A i \in 1 .. Len(Requests) : [entry |-> e, ask |-> Requests[i]] \in Request
  BY <1>2 DEF Request
<1> QED BY <1>1, <1>3 DEF AsksOf

\* The record of a connection that is not up has nothing at the gate.
LEMMA NoConnType == NoConn \in Connection /\ ~NoConn.up /\ NoConn.slot = None
                      /\ NoConn.timer = "none" /\ NoConn.joined = {}
  BY WalkConstants DEF NoConn, Connection

\* drainRestoreQueue reserves for the first channel left we are still in, or
\* ends the walk.
GoesOn(c, k, line, a) ==
    /\ a.k \in Connection
    /\ a.k.up = k.up /\ a.k.walk = k.walk
    /\ a.k.timer = k.timer /\ a.k.step = k.step /\ a.k.joined = k.joined
    /\ a.k.owed = k.owed /\ a.k.out = k.out /\ a.k.cut = k.cut
    /\ \/ a.k.slot = None /\ a.line = line /\ a.k.queue = <<>>
       \/ \E e \in Entry : /\ e.conn = c /\ e.walk = k.walk
                           /\ a.k.slot = e /\ a.line = Append(line, e)

\* drainRestoreQueue reserves for the first channel left that we are still in.
LEMMA AdvancedType ==
    ASSUME NEW c \in Conns, NEW k \in Connection, NEW line \in Seq(Entry),
           k.walk \in 1 .. MaxWalks, k.slot = None
    PROVE  GoesOn(c, k, line, Advanced(c, k, line))
<1> DEFINE a == Advanced(c, k, line)
           left == {j \in 1 .. Len(k.queue) : k.queue[j] \in k.joined}
           i == SelectInSeq(k.queue, LAMBDA ch : ch \in k.joined)
           e == [conn |-> c, walk |-> k.walk, chan |-> k.queue[i]]
<1>q. k.queue \in Seq(Chans)
  BY DEF Connection
<1>1. CASE left = {}
  <2>1. i = 0
    BY <1>1 DEF SelectInSeq
  <2>2. a = [k |-> [k EXCEPT !.queue = <<>>], line |-> line]
    BY <2>1 DEF Advanced
  <2> DEFINE nil == <<>>
             kk  == [k EXCEPT !.queue = nil]
  <2>e. nil \in Seq(Chans)
    BY EmptySeq
  <2>3. /\ kk \in Connection
        /\ kk.up = k.up /\ kk.walk = k.walk /\ kk.timer = k.timer /\ kk.step = k.step
        /\ kk.joined = k.joined /\ kk.owed = k.owed /\ kk.out = k.out /\ kk.cut = k.cut
        /\ kk.slot = None /\ kk.queue = nil
    <3> HIDE DEF nil
    <3> QED BY <2>e DEF Connection
  <2>4. a.k = kk /\ a.line = line
    BY <2>2
  <2> HIDE DEF kk, a
  <2>5. GoesOn(c, k, line, a)
    BY <2>3, <2>4 DEF GoesOn
  <2> QED BY <2>5 DEF a
<1>2. CASE left # {}
  <2>1. i = Min(left)
    BY <1>2 DEF SelectInSeq
  <2>2. \E m \in left : \A j \in left : m <= j
    <3>1. left \subseteq Nat
      OBVIOUS
    <3>2. PICK m \in left : \A j \in left : ~ (<<j, m>> \in OpToRel(<, Nat))
      BY <1>2, <3>1, NatLessThanWellFounded, WFMin
    <3>3. OpToRel(<, Nat) = {r \in Nat \X Nat : r[1] < r[2]}
      BY Zenon DEF OpToRel
    <3>4. \A j \in left : ~ (<<j, m>> \in {r \in Nat \X Nat : r[1] < r[2]})
      BY <3>2, <3>3, Zenon
    <3>5. \A j \in left : <<j, m>> \in Nat \X Nat
      BY <3>1
    <3>6. \A j \in left : ~ (j < m)
      BY <3>4, <3>5
    <3>7. \A j \in left : m <= j
      BY <3>1, <3>6
    <3> QED BY <3>7
  <2>3. i \in left
    BY <2>1, <2>2 DEF Min
  <2>4. i \in 1 .. Len(k.queue) /\ i # 0 /\ k.queue[i] \in Chans
    BY <1>q, <2>3
  <2>5. e \in Entry /\ e.conn = c /\ e.walk = k.walk
    BY <2>4 DEF Entry
  <2>6. a = [k    |-> [k EXCEPT !.queue = SubSeq(k.queue, i + 1, Len(k.queue)), !.slot = e],
             line |-> Append(line, e)]
    BY <2>4 DEF Advanced
  <2> HIDE DEF i, left
  <2>7. SubSeq(k.queue, i + 1, Len(k.queue)) \in Seq(Chans)
    BY <1>q, <2>4, SubSeqProperties
  <2> DEFINE kk == [k EXCEPT !.queue = SubSeq(k.queue, i + 1, Len(k.queue)), !.slot = e]
  <2>8. /\ kk \in Connection
        /\ kk.up = k.up /\ kk.walk = k.walk /\ kk.timer = k.timer /\ kk.step = k.step
        /\ kk.joined = k.joined /\ kk.owed = k.owed /\ kk.out = k.out /\ kk.cut = k.cut
        /\ kk.slot = e
    <3> HIDE DEF e
    <3> QED BY <2>5, <2>7 DEF Connection
  <2>9. a.k = kk /\ a.line = Append(line, e)
    BY <2>6
  <2> HIDE DEF kk, e, a
  <2>10. GoesOn(c, k, line, a)
    BY <2>5, <2>8, <2>9 DEF GoesOn
  <2> QED BY <2>10 DEF a
<1> QED BY <1>1, <1>2

-----------------------------------------------------------------------------
(* The line of RestoreGate.waiting.                                        *)

\* No reservation stands in line twice.
Once(line) == \A i, j \in 1 .. Len(line) : line[i] = line[j] => i = j

\* The pump takes the reservation at the head, and only that one.
LEMMA HeadLeaves ==
    ASSUME NEW line \in Seq(Entry), line # <<>>, Once(line)
    PROVE  /\ Head(line) \in Entry /\ Head(line) \in ToSet(line)
           /\ Tail(line) \in Seq(Entry) /\ Once(Tail(line))
           /\ ToSet(Tail(line)) = ToSet(line) \ {Head(line)}
<1>1. /\ Len(line) \in Nat /\ Len(line) >= 1
      /\ DOMAIN line = 1 .. Len(line)
      /\ Head(line) = line[1] /\ Head(line) \in Entry
      /\ Tail(line) \in Seq(Entry) /\ Len(Tail(line)) = Len(line) - 1
      /\ DOMAIN Tail(line) = 1 .. Len(line) - 1
      /\ \A i \in 1 .. Len(line) - 1 : Tail(line)[i] = line[i + 1]
  BY HeadTailProperties, LenProperties, EmptySeq
<1>2. Once(Tail(line))
  BY <1>1 DEF Once
<1>3. ASSUME NEW x \in ToSet(line), x # Head(line) PROVE x \in ToSet(Tail(line))
  <2>1. PICK i \in 1 .. Len(line) : line[i] = x
    BY <1>1, <1>3 DEF ToSet
  <2>2. i - 1 \in 1 .. Len(line) - 1 /\ Tail(line)[i - 1] = x
    BY <1>1, <1>3, <2>1
  <2> QED BY <1>1, <2>2 DEF ToSet
<1>4. ASSUME NEW x \in ToSet(Tail(line)) PROVE x \in ToSet(line) /\ x # Head(line)
  <2>1. PICK i \in 1 .. Len(line) - 1 : Tail(line)[i] = x
    BY <1>1, <1>4 DEF ToSet
  <2>2. i + 1 \in 1 .. Len(line) /\ line[i + 1] = x
    BY <1>1, <2>1
  <2> QED BY <1>1, <2>2 DEF ToSet, Once
<1>5. Head(line) \in ToSet(line)
  BY <1>1 DEF ToSet
<1> QED BY <1>1, <1>2, <1>3, <1>4, <1>5

\* A new reservation joins at the back.
LEMMA BackOfTheLine ==
    ASSUME NEW line \in Seq(Entry), Once(line), NEW e \in Entry, e \notin ToSet(line)
    PROVE  /\ Append(line, e) \in Seq(Entry) /\ Once(Append(line, e))
           /\ ToSet(Append(line, e)) = ToSet(line) \union {e}
<1>1. /\ Len(line) \in Nat /\ DOMAIN line = 1 .. Len(line)
      /\ Append(line, e) \in Seq(Entry)
      /\ Len(Append(line, e)) = Len(line) + 1
      /\ DOMAIN Append(line, e) = 1 .. Len(line) + 1
      /\ \A i \in 1 .. Len(line) : Append(line, e)[i] = line[i]
      /\ Append(line, e)[Len(line) + 1] = e
  OBVIOUS
<1>2. \A i \in 1 .. Len(line) : line[i] # e
  BY <1>1 DEF ToSet
<1>3. Once(Append(line, e))
  BY <1>1, <1>2 DEF Once
<1>4. ToSet(Append(line, e)) = ToSet(line) \union {e}
  BY <1>1 DEF ToSet
<1> QED BY <1>1, <1>3, <1>4

\* A release takes one reservation out, and the others keep their order.
LEMMA LeavesTheLine ==
    ASSUME NEW line \in Seq(Entry), Once(line), NEW n \in 1 .. Len(line)
    PROVE  /\ RemoveAt(line, n) \in Seq(Entry) /\ Once(RemoveAt(line, n))
           /\ ToSet(RemoveAt(line, n)) = ToSet(line) \ {line[n]}
<1> DEFINE front == SubSeq(line, 1, n - 1)
           back  == SubSeq(line, n + 1, Len(line))
           rest  == RemoveAt(line, n)
           L     == Len(line)
<1>1. L \in Nat /\ n \in 1 .. L /\ DOMAIN line = 1 .. L /\ \A i \in 1 .. L : line[i] \in Entry
  OBVIOUS
<1>2. /\ front \in Seq(Entry) /\ Len(front) = n - 1
      /\ \A i \in 1 .. n - 1 : front[i] = line[i]
  BY <1>1, SubSeqProperties
<1>3. /\ back \in Seq(Entry) /\ Len(back) = L - n
      /\ \A i \in 1 .. L - n : back[i] = line[n + i]
  <2>1. \A i \in (n + 1) .. L : line[i] \in Entry
    BY <1>1
  <2>2. n + 1 \in Int /\ L \in Int
    BY <1>1
  <2>3. /\ back \in Seq(Entry)
        /\ Len(back) = IF n + 1 <= L THEN L - (n + 1) + 1 ELSE 0
        /\ \A i \in 1 .. L - (n + 1) + 1 : back[i] = line[(n + 1) + i - 1]
    BY <2>1, <2>2, SubSeqProperties
  <2>4. ASSUME NEW i \in 1 .. L - n PROVE back[i] = line[n + i]
    <3>1. i \in 1 .. L - (n + 1) + 1 /\ (n + 1) + i - 1 = n + i
      BY <1>1
    <3> QED BY <2>3, <3>1
  <2>5. Len(back) = L - n
    <3> HIDE DEF L, back
    <3> QED BY <1>1, <2>3
  <2> QED BY <2>3, <2>4, <2>5
<1>4. rest = front \o back
  BY DEF RemoveAt
<1> HIDE DEF front, back, rest
<1>5. /\ rest \in Seq(Entry) /\ Len(rest) = L - 1 /\ DOMAIN rest = 1 .. L - 1
      /\ \A i \in 1 .. L - 1 : rest[i] = IF i < n THEN line[i] ELSE line[i + 1]
  <2>1. /\ rest \in Seq(Entry) /\ Len(rest) = Len(front) + Len(back)
        /\ \A i \in 1 .. Len(front) + Len(back) :
              rest[i] = IF i <= Len(front) THEN front[i] ELSE back[i - Len(front)]
    BY <1>2, <1>3, <1>4, ConcatProperties
  <2>2. Len(front) + Len(back) = L - 1
    BY <1>1, <1>2, <1>3
  <2>3. Len(rest) = L - 1 /\ DOMAIN rest = 1 .. L - 1
    BY <2>1, <2>2
  <2>4. ASSUME NEW i \in 1 .. L - 1
        PROVE  rest[i] = IF i < n THEN line[i] ELSE line[i + 1]
    <3>1. CASE i < n
      <4>1. i <= Len(front) /\ i \in 1 .. n - 1
        BY <1>1, <1>2, <3>1
      <4> QED BY <1>2, <2>1, <2>2, <3>1, <4>1
    <3>2. CASE ~ (i < n)
      <4>1. ~ (i <= Len(front)) /\ i - Len(front) \in 1 .. L - n
        BY <1>1, <1>2, <3>2
      <4>2. n + (i - Len(front)) = i + 1
        BY <1>1, <1>2
      <4>3. back[i - Len(front)] = line[i + 1]
        BY <1>3, <4>1, <4>2
      <4> QED BY <2>1, <2>2, <3>2, <4>1, <4>3
    <3> QED BY <3>1, <3>2
  <2> QED BY <2>1, <2>3, <2>4
<1>6. Once(rest)
  BY <1>1, <1>5 DEF Once
<1>7. ASSUME NEW x \in ToSet(rest) PROVE x \in ToSet(line) \ {line[n]}
  <2>1. PICK i \in 1 .. L - 1 : rest[i] = x
    BY <1>5, <1>7 DEF ToSet
  <2>2. PICK j \in 1 .. L : j # n /\ line[j] = x
    BY <1>1, <1>5, <2>1
  <2> QED BY <1>1, <2>2 DEF ToSet, Once
<1>8. ASSUME NEW x \in ToSet(line), x # line[n] PROVE x \in ToSet(rest)
  <2>1. PICK j \in 1 .. L : line[j] = x
    BY <1>1, <1>8 DEF ToSet
  <2>2. j # n
    BY <1>8, <2>1
  <2>3. PICK i \in 1 .. L - 1 : rest[i] = x
    <3>1. CASE j < n
      BY <1>1, <1>5, <2>1, <3>1
    <3>2. CASE j > n
      <4>1. j - 1 \in 1 .. L - 1 /\ ~ (j - 1 < n) /\ (j - 1) + 1 = j
        BY <1>1, <3>2
      <4> QED BY <1>5, <2>1, <4>1
    <3> QED BY <1>1, <2>2, <3>1, <3>2
  <2> QED BY <1>5, <2>3 DEF ToSet
<1> QED BY <1>5, <1>6, <1>7, <1>8 DEF rest

-----------------------------------------------------------------------------
(* Who owns a turn.                                                        *)

\* Every reservation that holds a turn or waits for one.
AtTheGate == active \union ToSet(waiting)

\* A record between two events: only a live connection's step has a timer.
Sound(k) ==
    /\ k \in Connection
    /\ k.timer # "none" => k.up /\ k.step # None
    /\ k.up => k.walk # 0
    /\ k.joined # {} => k.up

\* A connection's reservation is at the gate, and what is at the gate is the
\* reservation of its connection.
Core ==
    /\ \A c \in Conns : conns[c].slot # None =>
          conns[c].slot \in AtTheGate /\ conns[c].slot.conn = c /\ conns[c].up
    /\ \A e \in AtTheGate : conns[e.conn].slot = e
    /\ \A c \in after : conns[c].slot = None /\ conns[c].up

\* On the way down the gate is empty and stays so.
Stopped ==
    /\ waiting = <<>> /\ active = {} /\ ~pumping /\ after = {}
    /\ \A c \in Conns \ closing : ~conns[c].up

Owned ==
    /\ Once(waiting) /\ active \intersect ToSet(waiting) = {}
    /\ \A c \in Conns : Sound(conns[c])
    /\ ~down => closing = {} /\ Core
    /\ down => Stopped

IInv == TypeOK /\ Owned

\* The gate's own part of the invariant.
GateOK ==
    /\ waiting \in Seq(Entry) /\ active \in SUBSET Entry
    /\ Once(waiting) /\ active \intersect ToSet(waiting) = {}

\* One connection moves: its old reservation goes, its new one, if any, comes.
LEMMA OneMoves ==
    ASSUME IInv, GateOK', NEW c \in Conns, NEW k, Sound(k),
           conns' = [conns EXCEPT ![c] = k],
           pumping' \in BOOLEAN, throws' \in 0 .. MaxThrows,
           down' = down, closing' = closing, ~down,
           AtTheGate' = (AtTheGate \ {conns[c].slot}) \union ({k.slot} \ {None}),
           k.slot # None => k.slot.conn = c /\ k.up,
           \/ after' = {}
           \/ after' = after /\ (c \in after => k.slot = None /\ k.up)
           \/ after' = {c} /\ k.slot = None /\ k.up
    PROVE  IInv'
<1>1. conns \in [Conns -> Connection] /\ after \in SUBSET Conns
  BY DEF IInv, TypeOK
<1>2. conns'[c] = k /\ \A d \in Conns \ {c} : conns'[d] = conns[d]
  BY <1>1
<1>3. k \in Connection
  BY DEF Sound
<1>4. conns' \in [Conns -> Connection]
  BY <1>1, <1>3
<1>5. \A d \in Conns : Sound(conns'[d])
  BY <1>2 DEF IInv, Owned
<1>6. AtTheGate \subseteq Entry /\ AtTheGate' \subseteq Entry /\ \A e \in Entry : e.conn \in Conns
  <2>1. \A s \in Seq(Entry) : ToSet(s) \subseteq Entry
    BY DEF ToSet
  <2>2. \A e \in Entry : e.conn \in Conns
    BY DEF Entry
  <2> QED BY <2>1, <2>2 DEF AtTheGate, GateOK, IInv, TypeOK
<1>7. Core
  BY DEF IInv, Owned
<1>8. Core'
  <2>1. ASSUME NEW d \in Conns, conns'[d].slot # None
        PROVE  conns'[d].slot \in AtTheGate' /\ conns'[d].slot.conn = d /\ conns'[d].up
    <3>1. CASE d = c
      BY <1>2, <2>1, <3>1
    <3>2. CASE d # c
      <4>1. conns'[d] = conns[d]
        BY <1>2, <3>2
      <4>2. conns[d].slot \in AtTheGate /\ conns[d].slot.conn = d /\ conns[d].up
        BY <1>7, <2>1, <4>1 DEF Core
      <4>3. conns[d].slot # conns[c].slot
        BY <1>7, <2>1, <3>2, <4>1, <4>2 DEF Core
      <4> QED BY <4>1, <4>2, <4>3
    <3> QED BY <3>1, <3>2
  <2>2. ASSUME NEW e \in AtTheGate' PROVE conns'[e.conn].slot = e
    <3>1. CASE e \in {k.slot} \ {None}
      BY <1>2, <3>1
    <3>2. CASE e \in AtTheGate \ {conns[c].slot}
      <4>1. conns[e.conn].slot = e
        BY <1>7, <3>2 DEF Core
      <4>2. e.conn # c /\ e.conn \in Conns
        BY <1>6, <3>2, <4>1
      <4> QED BY <1>2, <4>1, <4>2
    <3> QED BY <2>2, <3>1, <3>2
  <2>3. ASSUME NEW d \in after' PROVE conns'[d].slot = None /\ conns'[d].up
    <3>1. CASE after' = after /\ (c \in after => k.slot = None /\ k.up)
      BY <1>1, <1>2, <1>7, <2>3, <3>1 DEF Core
    <3>2. CASE after' = {c} /\ k.slot = None /\ k.up
      BY <1>2, <2>3, <3>2
    <3> QED BY <2>3, <3>1, <3>2
  <2> QED BY <2>1, <2>2, <2>3 DEF Core
<1>9. TypeOK'
  <2>1. after' \in SUBSET Conns
    BY <1>1
  <2>2. closing' \in SUBSET Conns /\ down' \in BOOLEAN
    BY DEF IInv, TypeOK
  <2>3. \A d \in Conns : conns'[d].timer # "none" => conns'[d].up /\ conns'[d].step # None
    BY <1>5 DEF Sound
  <2> QED BY <1>4, <2>1, <2>2, <2>3 DEF TypeOK, GateOK
<1>10. closing' = {}
  BY DEF IInv, Owned
<1> QED BY <1>5, <1>8, <1>9, <1>10 DEF IInv, Owned, GateOK

\* What the steps read of the invariant about types.
LEMMA InvTypes ==
    ASSUME IInv
    PROVE  /\ GateOK /\ AtTheGate \subseteq Entry /\ None \notin AtTheGate
           /\ conns \in [Conns -> Connection]
           /\ pumping \in BOOLEAN /\ down \in BOOLEAN /\ throws \in 0 .. MaxThrows
           /\ after \in SUBSET Conns /\ closing \in SUBSET Conns
<1>1. waiting \in Seq(Entry) /\ active \in SUBSET Entry
  BY DEF IInv, TypeOK
<1>2. ToSet(waiting) \subseteq Entry
  BY <1>1 DEF ToSet
<1>3. AtTheGate \subseteq Entry /\ None \notin AtTheGate
  BY <1>1, <1>2, NoneIsNoEntry DEF AtTheGate
<1>4. GateOK
  BY <1>1 DEF GateOK, IInv, Owned
<1> QED BY <1>3, <1>4 DEF IInv, TypeOK

\* While the process is going down, what is up is still to be closed: no
\* other event finds a live connection.
LEMMA NotGoingDown ==
    ASSUME IInv, Quiet, NEW c \in Conns, conns[c].up
    PROVE  ~down
  BY DEF IInv, Owned, Stopped, Quiet

\* A step of a connection that leaves the gate alone.
LEMMA MovesAlone ==
    ASSUME IInv, ~down, NEW c \in Conns, NEW k, Sound(k),
           conns' = [conns EXCEPT ![c] = k],
           UNCHANGED <<waiting, active, pumping, after, closing, down, throws>>,
           k.slot = conns[c].slot, k.up = conns[c].up
    PROVE  IInv'
<1>1. GateOK' /\ AtTheGate' = AtTheGate
  BY InvTypes DEF GateOK, AtTheGate
<1>2. conns[c].slot # None =>
        conns[c].slot \in AtTheGate /\ conns[c].slot.conn = c /\ conns[c].up
  BY DEF IInv, Owned, Core
<1>3. AtTheGate' = (AtTheGate \ {conns[c].slot}) \union ({k.slot} \ {None})
  BY <1>1, <1>2, InvTypes
<1>4. c \in after => k.slot = None /\ k.up
  BY DEF IInv, Owned, Core
<1>5. k.slot # None => k.slot.conn = c /\ k.up
  BY <1>2
<1>6. pumping' \in BOOLEAN /\ throws' \in 0 .. MaxThrows
  BY InvTypes
<1> QED BY <1>1, <1>3, <1>4, <1>5, <1>6, OneMoves

\* RestoreGate.release takes out that one reservation and no other.
LEMMA Releasing ==
    ASSUME IInv, NEW e, waiting' = Released(e).waiting, active' = Released(e).active
    PROVE  /\ GateOK' /\ AtTheGate' = AtTheGate \ {e}
           /\ ToSet(waiting') = ToSet(waiting) \ {e}
<1>0. /\ waiting \in Seq(Entry) /\ active \in SUBSET Entry /\ Once(waiting)
      /\ active \intersect ToSet(waiting) = {}
  BY InvTypes DEF GateOK
<1>1. active' = active \ {e}
  BY DEF Released
<1>2. /\ waiting' \in Seq(Entry) /\ Once(waiting')
      /\ ToSet(waiting') = ToSet(waiting) \ {e}
  <2>1. CASE e \notin ToSet(waiting)
    <3>1. waiting' = waiting
      BY <2>1 DEF Released
    <3> QED BY <1>0, <2>1, <3>1
  <2>2. CASE e \in ToSet(waiting)
    <3>1. waiting' = RemoveAt(waiting, Place(e))
      BY <2>2 DEF Released
    <3>2. DOMAIN waiting = 1 .. Len(waiting)
      BY <1>0
    <3>3. \E i \in DOMAIN waiting : waiting[i] = e
      BY <2>2 DEF ToSet
    <3>4. Place(e) \in 1 .. Len(waiting) /\ waiting[Place(e)] = e
      BY <3>2, <3>3 DEF Place
    <3> QED BY <1>0, <3>1, <3>4, LeavesTheLine
  <2> QED BY <2>1, <2>2
<1> QED BY <1>0, <1>1, <1>2 DEF GateOK, AtTheGate

\* A step ends: its turn goes back, its timers go.
LEMMA StepEnds ==
    ASSUME IInv, ~down, NEW c \in Conns, NEW k \in Connection, NEW go \in BOOLEAN,
           EndStep(c, k, go), UNCHANGED <<closing, down, throws>>,
           k.slot = conns[c].slot, k.up => k.walk # 0, k.joined # {} => k.up,
           go => k.up
    PROVE  IInv'
<1>1. /\ conns' = [conns EXCEPT ![c] = StepEnded(k)]
      /\ waiting' = Released(k.slot).waiting /\ active' = Released(k.slot).active
      /\ pumping' \in BOOLEAN
      /\ after' = IF go THEN {c} ELSE {}
  BY DEF EndStep, InGate
<1>2. GateOK' /\ AtTheGate' = AtTheGate \ {conns[c].slot}
  BY <1>1, Releasing
<1> DEFINE m == StepEnded(k)
<1>3. m \in Connection /\ m.slot = None /\ m.timer = "none" /\ m.up = k.up
        /\ m.walk = k.walk /\ m.joined = k.joined
  BY StepEndedType
<1> HIDE DEF m
<1>4. Sound(m)
  BY <1>3 DEF Sound
<1>5. AtTheGate' = (AtTheGate \ {conns[c].slot}) \union ({m.slot} \ {None})
  BY <1>2, <1>3
<1>6. conns' = [conns EXCEPT ![c] = m]
  BY <1>1 DEF m
<1>7. \/ after' = {}
      \/ after' = {c} /\ m.slot = None /\ m.up
  BY <1>1, <1>3
<1>8. throws' \in 0 .. MaxThrows
  BY InvTypes
<1> QED BY <1>1, <1>2, <1>3, <1>4, <1>5, <1>6, <1>7, <1>8, OneMoves

-----------------------------------------------------------------------------
(* The steps.                                                              *)

\* The process starts with nothing at the gate.
LEMMA InitIInv == Init => IInv
<1> SUFFICES ASSUME Init PROVE IInv
  OBVIOUS
<1> DEFINE nil == <<>>
<1>1. nil \in Seq(Entry) /\ ToSet(nil) = {} /\ Once(nil)
  BY EmptySeq DEF ToSet, Once
<1>2. waiting = nil /\ active = {} /\ conns = [c \in Conns |-> NoConn]
  BY DEF Init
<1> HIDE DEF nil
<1>3. conns \in [Conns -> Connection] /\ \A c \in Conns : conns[c] = NoConn
  BY <1>2, NoConnType
<1>4. \A c \in Conns : Sound(conns[c]) /\ conns[c].slot = None
  BY <1>3, NoConnType DEF Sound
<1>5. 0 \in 0 .. MaxThrows
  BY WalkConstants
<1>6. TypeOK
  BY <1>1, <1>2, <1>3, <1>4, <1>5 DEF TypeOK, Init, Sound
<1>7. Core
  BY <1>1, <1>2, <1>4 DEF Core, Init, AtTheGate
<1> QED BY <1>1, <1>2, <1>4, <1>6, <1>7 DEF IInv, Owned, Init

\* A KICK or PART keeps the invariant.
LEMMA LeavesKeeps ==
    ASSUME IInv, NEW c \in Conns, NEW ch \in Chans, Leaves(c, ch)
    PROVE  IInv'
<1> DEFINE k == conns[c]
           m == [k EXCEPT !.joined = @ \ {ch}]
<1>1. k \in Connection /\ Sound(k)
  BY InvTypes DEF IInv, Owned
<1>2. k.up /\ Quiet /\ ~down
  BY <1>1, NotGoingDown DEF Leaves, Sound
<1>3. /\ m \in Connection /\ m.slot = k.slot /\ m.up = k.up /\ m.walk = k.walk
      /\ m.timer = k.timer /\ m.step = k.step
  <2> HIDE DEF k
  <2> QED BY <1>1 DEF Connection
<1>4. conns' = [conns EXCEPT ![c] = m]
  BY DEF Leaves
<1>5. Sound(m)
  <2> HIDE DEF m, k
  <2> QED BY <1>1, <1>2, <1>3 DEF Sound
<1> HIDE DEF m
<1> QED BY <1>2, <1>3, <1>4, <1>5, MovesAlone DEF Leaves

\* A numeric the server skips keeps the invariant.
LEMMA SkipsKeeps ==
    ASSUME IInv, NEW c \in Conns, Skips(c)
    PROVE  IInv'
<1> DEFINE k == conns[c]
           w == Tail(k.wire)
           m == [k EXCEPT !.wire = w]
<1>1. k \in Connection /\ Sound(k)
  BY InvTypes DEF IInv, Owned
<1>2. k.up /\ ~down
  BY <1>1, NotGoingDown DEF Skips
<1>3. w \in Seq(Request)
  <2>1. k.wire \in Seq(Request) /\ k.wire # <<>>
    BY <1>1 DEF Connection, Skips
  <2> HIDE DEF k
  <2> QED BY <2>1, HeadTailProperties
<1>4. conns' = [conns EXCEPT ![c] = m]
  BY DEF Skips
<1> HIDE DEF w
<1>5. /\ m \in Connection /\ m.slot = k.slot /\ m.up = k.up /\ m.walk = k.walk
      /\ m.timer = k.timer /\ m.step = k.step /\ m.joined = k.joined
  <2> HIDE DEF k
  <2> QED BY <1>1, <1>3 DEF Connection
<1>6. Sound(m)
  <2> HIDE DEF m, k
  <2> QED BY <1>1, <1>5 DEF Sound
<1> HIDE DEF m
<1> QED BY <1>2, <1>4, <1>5, <1>6, MovesAlone DEF Skips

\* A request the pacer sends keeps the invariant.
LEMMA SendsKeeps ==
    ASSUME IInv, NEW c \in Conns, Sends(c)
    PROVE  IInv'
<1> DEFINE k == conns[c]
           o == Tail(k.out)
           w == Append(k.wire, Head(k.out))
           s == [k EXCEPT !.out = o, !.wire = w]
           last == k.step = Head(k.out).entry /\ ~Unsent(s)
           m == IF last THEN DeadlineArmed(s) ELSE s
<1>1. k \in Connection /\ Sound(k)
  BY InvTypes DEF IInv, Owned
<1>2. k.up /\ ~down
  BY <1>1, NotGoingDown DEF Sends
<1>3. o \in Seq(Request) /\ w \in Seq(Request) /\ Head(k.out).entry \in Entry
  <2>1. k.out \in Seq(Request) /\ k.out # <<>> /\ k.wire \in Seq(Request)
    BY <1>1 DEF Connection, Sends
  <2>2. Head(k.out) \in Request /\ o \in Seq(Request)
    <3> HIDE DEF k
    <3> QED BY <2>1, HeadTailProperties
  <2>3. Head(k.out).entry \in Entry
    BY <2>2 DEF Request
  <2> QED BY <2>1, <2>2, <2>3
<1>4. conns' = [conns EXCEPT ![c] = m]
  BY DEF Sends
<1>5. last => k.step # None
  BY <1>3, NoneIsNoEntry
<1> HIDE DEF o, w, last
<1>6. /\ s \in Connection /\ s.slot = k.slot /\ s.up = k.up /\ s.walk = k.walk
      /\ s.timer = k.timer /\ s.step = k.step /\ s.joined = k.joined
  <2> HIDE DEF k
  <2> QED BY <1>1, <1>3 DEF Connection
<1> HIDE DEF s
<1>7. /\ m \in Connection /\ m.slot = k.slot /\ m.up = k.up /\ m.walk = k.walk
      /\ m.step = k.step /\ m.joined = k.joined
      /\ m.timer = IF last THEN "deadline" ELSE k.timer
  <2> HIDE DEF k
  <2> QED BY <1>6 DEF Connection, DeadlineArmed
<1>8. Sound(m)
  <2> HIDE DEF m, k
  <2>1. k.up
    BY <1>2
  <2> QED BY <1>1, <1>5, <1>7, <2>1 DEF Sound
<1> HIDE DEF m
<1> QED BY <1>2, <1>4, <1>7, <1>8, MovesAlone DEF Sends

\* A step that ends at its deadline keeps the invariant.
LEMMA DeadlineKeeps ==
    ASSUME IInv, NEW c \in Conns, DeadlinePasses(c)
    PROVE  IInv'
<1>1. conns[c] \in Connection /\ Sound(conns[c])
  BY InvTypes DEF IInv, Owned
<1>2. conns[c].up /\ conns[c].walk # 0 /\ ~down
  BY <1>1, NotGoingDown DEF DeadlinePasses, Sound
<1>3. EndStep(c, conns[c], TRUE) /\ UNCHANGED <<closing, down, throws>>
  BY DEF DeadlinePasses
<1> QED BY <1>1, <1>2, <1>3, StepEnds

\* A turn given back at its cap keeps the invariant.
LEMMA SlotCapKeeps ==
    ASSUME IInv, NEW c \in Conns, SlotCapPasses(c)
    PROVE  IInv'
<1> DEFINE k == conns[c]
           m == [k EXCEPT !.slot = None, !.timer = "none"]
<1>1. k \in Connection /\ Sound(k)
  BY InvTypes DEF IInv, Owned
<1>2. k.up /\ k.walk # 0 /\ ~down
  BY <1>1, NotGoingDown DEF SlotCapPasses, Sound
<1>3. /\ conns' = [conns EXCEPT ![c] = m]
      /\ waiting' = Released(conns[c].slot).waiting
      /\ active' = Released(conns[c].slot).active
      /\ pumping' \in BOOLEAN /\ after' = after
      /\ UNCHANGED <<closing, down, throws>>
  <2>1. conns' = [conns EXCEPT ![c].slot = None, ![c].timer = "none"]
    BY DEF SlotCapPasses, SlotTimerFires
  <2>2. conns' = [conns EXCEPT ![c] = m]
    BY <2>1, InvTypes
  <2>3. SlotTimerFires(c, conns[c]) /\ UNCHANGED <<closing, down, throws>>
    BY DEF SlotCapPasses
  <2> HIDE DEF m
  <2> QED BY <2>2, <2>3 DEF SlotTimerFires, InGate
<1>4. GateOK' /\ AtTheGate' = AtTheGate \ {conns[c].slot}
  BY <1>3, Releasing
<1>5. /\ m \in Connection /\ m.slot = None /\ m.timer = "none" /\ m.up = k.up
      /\ m.walk = k.walk /\ m.joined = k.joined
  <2> HIDE DEF k
  <2> QED BY <1>1 DEF Connection
<1>6. Sound(m)
  <2> HIDE DEF m, k
  <2> QED BY <1>1, <1>5 DEF Sound
<1>7. m.slot = None /\ m.up
  BY <1>2, <1>5
<1> HIDE DEF m, k
<1>8. AtTheGate' = (AtTheGate \ {conns[c].slot}) \union ({m.slot} \ {None})
  BY <1>4, <1>5
<1>9. throws' \in 0 .. MaxThrows
  BY <1>3, InvTypes
<1> QED BY <1>2, <1>3, <1>4, <1>6, <1>7, <1>8, <1>9, OneMoves

\* noteRestoreReply moves the walk on, or only takes the answer.
LEMMA AnswersKeeps ==
    ASSUME IInv, NEW c \in Conns, NEW refused \in BOOLEAN, Answers(c, refused)
    PROVE  IInv'
<1> DEFINE k == conns[c]
           q == Head(k.wire)
           w == Tail(k.wire)
           r == [k EXCEPT !.wire = w]
           mine == k.step # None /\ k.step.chan = q.entry.chan
                     /\ \A i \in DOMAIN k.out : k.out[i] # [entry |-> k.step, ask |-> q.ask]
           owed == IF refused THEN {} ELSE k.owed \ {q.ask}
           cut == k.cut \union {k.step}
           s == IF refused THEN [r EXCEPT !.cut = cut] ELSE r
           m == IF mine THEN [r EXCEPT !.owed = owed] ELSE r
<1>1. k \in Connection /\ Sound(k)
  BY InvTypes DEF IInv, Owned
<1>2. k.up /\ ~down
  BY <1>1, NotGoingDown DEF Answers
<1>3. w \in Seq(Request)
  <2>1. k.wire \in Seq(Request) /\ k.wire # <<>>
    BY <1>1 DEF Connection, Answers
  <2> HIDE DEF k
  <2> QED BY <2>1, HeadTailProperties
<1>4. owed \in SUBSET ToSet(Requests)
  BY <1>1 DEF Connection
<1>5. mine => cut \in SUBSET Entry
  BY <1>1 DEF Connection
<1>6. UNCHANGED <<closing, down, throws>>
      /\ IF mine /\ owed = {}
         THEN EndStep(c, s, TRUE)
         ELSE conns' = [conns EXCEPT ![c] = m] /\ UNCHANGED <<waiting, active, pumping, after>>
  <2>1. s = IF refused THEN [r EXCEPT !.cut = @ \union {k.step}] ELSE r
    OBVIOUS
  <2> HIDE DEF s
  <2> QED BY <2>1, Zenon DEF Answers
<1> HIDE DEF w, owed, cut, mine
<1>7. /\ r \in Connection /\ r.slot = k.slot /\ r.up = k.up /\ r.walk = k.walk
      /\ r.timer = k.timer /\ r.step = k.step /\ r.joined = k.joined
  <2> HIDE DEF k
  <2> QED BY <1>1, <1>3 DEF Connection
<1> HIDE DEF r
<1>8. CASE mine /\ owed = {}
  <2>1. /\ s \in Connection /\ s.slot = k.slot /\ s.up = k.up /\ s.walk = k.walk
        /\ s.joined = k.joined
    <3> HIDE DEF k
    <3> QED BY <1>5, <1>7, <1>8 DEF Connection
  <2> HIDE DEF s
  <2>2. s.up /\ s.walk # 0
    BY <1>1, <1>2, <2>1 DEF Sound
  <2>3. EndStep(c, s, TRUE)
    BY <1>6, <1>8
  <2> QED BY <1>2, <1>6, <2>1, <2>2, <2>3, StepEnds
<1>9. CASE ~ (mine /\ owed = {})
  <2>1. /\ m \in Connection /\ m.slot = k.slot /\ m.up = k.up /\ m.walk = k.walk
        /\ m.timer = k.timer /\ m.step = k.step /\ m.joined = k.joined
    <3> HIDE DEF k
    <3> QED BY <1>4, <1>7 DEF Connection
  <2>2. Sound(m)
    <3> HIDE DEF m, k
    <3> QED BY <1>1, <2>1 DEF Sound
  <2>3. conns' = [conns EXCEPT ![c] = m]
        /\ UNCHANGED <<waiting, active, pumping, after, closing, down, throws>>
    BY <1>6, <1>9
  <2> HIDE DEF m
  <2> QED BY <1>2, <2>1, <2>2, <2>3, MovesAlone
<1> QED BY <1>8, <1>9

\* The record resetRestoreState leaves.
LEMMA ClosedType ==
    ASSUME IInv, NEW c \in Conns, Closed(c)
    PROVE  \E k \in Connection :
              /\ EndStep(c, k, FALSE)
              /\ k.slot = conns[c].slot /\ ~k.up /\ k.joined = {}
              /\ k.walk = conns[c].walk /\ k.step = None /\ k.timer = "none"
              /\ k.out = <<>>
<1> DEFINE k == conns[c]
           a == [NoConn EXCEPT !.walk = k.walk]
           b == [NoConn EXCEPT !.walk = k.walk, !.wire = k.wire]
<1>1. k \in Connection
  BY InvTypes
<1>2. PICK kept \in {a, b} : EndStep(c, [kept EXCEPT !.slot = k.slot], FALSE)
  BY DEF Closed
<1> DEFINE Bare(x) == /\ x \in Connection /\ ~x.up /\ x.joined = {} /\ x.walk = k.walk
                      /\ x.step = None /\ x.timer = "none" /\ x.out = <<>>
<1>3. Bare(kept)
  <2>1. /\ NoConn \in Connection /\ ~NoConn.up /\ NoConn.joined = {} /\ NoConn.out = <<>>
        /\ NoConn.step = None /\ NoConn.timer = "none"
    BY NoConnType DEF NoConn
  <2>2. Bare(a)
    <3> HIDE DEF k
    <3> QED BY <1>1, <2>1 DEF Connection
  <2>3. Bare(b)
    <3> HIDE DEF k
    <3> QED BY <1>1, <2>1 DEF Connection
  <2> HIDE DEF a, b, Bare
  <2> QED BY <2>2, <2>3
<1> HIDE DEF a, b
<1> DEFINE m == [kept EXCEPT !.slot = k.slot]
<1>4. Bare(m) /\ m.slot = k.slot
  <2> HIDE DEF k
  <2> QED BY <1>1, <1>3 DEF Connection
<1>5. EndStep(c, m, FALSE)
  BY <1>2
<1> HIDE DEF m
<1> QED BY <1>4, <1>5

\* A close keeps the invariant: the turn goes back with the connection.
LEMMA ClosesKeeps ==
    ASSUME IInv, NEW c \in Conns, Closes(c)
    PROVE  IInv'
<1>1. ~down
  BY NotGoingDown DEF Closes
<1>2. PICK k \in Connection : /\ EndStep(c, k, FALSE)
                              /\ k.slot = conns[c].slot /\ ~k.up /\ k.joined = {}
  BY ClosedType DEF Closes
<1>3. UNCHANGED <<closing, down, throws>>
  BY DEF Closes
<1> QED BY <1>1, <1>2, <1>3, StepEnds

\* A new walk keeps the invariant: it holds no turn yet.
LEMMA RestoredKeeps ==
    ASSUME IInv, NEW c \in Conns, Restored(c)
    PROVE  IInv'
<1> DEFINE k == conns[c]
<1>1. k \in Connection /\ Sound(k) /\ ~k.up /\ k.walk < MaxWalks
  BY InvTypes DEF IInv, Owned, Restored
<1>2. PICK q \in SeqOf(Chans, Cardinality(Chans)) :
         conns' = [conns EXCEPT ![c].up = TRUE, ![c].walk = @ + 1,
                                ![c].joined = ToSet(q), ![c].queue = q]
  BY DEF Restored
<1>3. q \in Seq(Chans) /\ ToSet(q) \in SUBSET Chans
  <2>1. PICK n \in 0 .. Cardinality(Chans) : q \in [1 .. n -> Chans]
    BY <1>2 DEF SeqOf
  <2>2. n \in Nat
    BY <2>1, WalkConstants, FS_CardinalityType
  <2> QED BY <2>1, <2>2 DEF ToSet
<1> DEFINE w == k.walk + 1
           j == ToSet(q)
           m == [k EXCEPT !.up = TRUE, !.walk = w, !.joined = j, !.queue = q]
<1>4. conns' = [conns EXCEPT ![c] = m]
  BY <1>2, InvTypes
<1>5. w \in 0 .. MaxWalks /\ w # 0
  BY <1>1, WalkConstants DEF Connection
<1>6. k.slot = None /\ k.timer = "none" /\ j \in SUBSET Chans
  BY <1>1, <1>3 DEF IInv, Owned, Core, Restored, Sound
<1>7. m \in Connection /\ m.up /\ m.slot = None /\ m.walk = w /\ m.timer = "none"
  <2> HIDE DEF k, w, j
  <2> QED BY <1>1, <1>3, <1>5, <1>6 DEF Connection
<1> HIDE DEF m
<1>8. Sound(m)
  BY <1>5, <1>7 DEF Sound
<1>9. GateOK' /\ AtTheGate' = AtTheGate
  BY InvTypes DEF GateOK, AtTheGate, Restored
<1>10. AtTheGate' = (AtTheGate \ {conns[c].slot}) \union ({m.slot} \ {None})
  BY <1>6, <1>7, <1>9, InvTypes
<1>11. /\ pumping' \in BOOLEAN /\ throws' \in 0 .. MaxThrows
       /\ down' = down /\ closing' = closing /\ ~down /\ after' = {c}
  BY InvTypes DEF Restored
<1> QED BY <1>4, <1>7, <1>8, <1>9, <1>10, <1>11, OneMoves

-----------------------------------------------------------------------------
(* The steps of the pump.                                                  *)

\* At the head of the line is the reservation its connection waits for.
LEMMA HeadIsOwned ==
    ASSUME IInv, pumping, waiting # <<>>, NEW e, e = Head(waiting)
    PROVE  /\ ~down /\ e \in Entry /\ e.conn \in Conns
           /\ e \in ToSet(waiting) /\ e \notin active
           /\ conns[e.conn].slot = e /\ conns[e.conn].up /\ e # None
           /\ Sound(conns[e.conn])
           /\ e.conn \notin after
           /\ Tail(waiting) \in Seq(Entry) /\ Once(Tail(waiting))
           /\ ToSet(Tail(waiting)) = ToSet(waiting) \ {e}
<1>1. ~down
  BY DEF IInv, Owned, Stopped
<1>2. GateOK
  BY InvTypes
<1>3. /\ e \in Entry /\ e \in ToSet(waiting)
      /\ Tail(waiting) \in Seq(Entry) /\ Once(Tail(waiting))
      /\ ToSet(Tail(waiting)) = ToSet(waiting) \ {e}
  BY <1>2, HeadLeaves DEF GateOK
<1>4. e \notin active /\ e.conn \in Conns /\ e # None
  BY <1>2, <1>3, NoneIsNoEntry DEF GateOK, Entry
<1>5. Core
  BY <1>1 DEF IInv, Owned
<1>6. conns[e.conn].slot = e
  BY <1>3, <1>5 DEF Core, AtTheGate
<1>7. conns[e.conn].up /\ e.conn \notin after
  BY <1>4, <1>5, <1>6 DEF Core
<1> QED BY <1>1, <1>3, <1>4, <1>6, <1>7 DEF IInv, Owned

\* A turn that asks keeps the invariant: it moves from the line to the turns out.
LEMMA AsksKeeps ==
    ASSUME IInv, Grant, NEW e, e = Head(waiting), Asks(e)
    PROVE  IInv'
<1> DEFINE c == e.conn
           k == conns[c]
           o == k.out \o AsksOf(e)
           m == [k EXCEPT !.step = e, !.owed = ToSet(Requests), !.timer = "slot", !.out = o]
<1>1. pumping /\ waiting # <<>> /\ UNCHANGED <<pumping, after, closing, down>>
  BY DEF Grant
<1>2. /\ ~down /\ e \in Entry /\ c \in Conns /\ e \in ToSet(waiting) /\ e \notin active
      /\ k.slot = e /\ k.up /\ e # None /\ Sound(k) /\ c \notin after
      /\ Tail(waiting) \in Seq(Entry) /\ Once(Tail(waiting))
      /\ ToSet(Tail(waiting)) = ToSet(waiting) \ {e}
  BY <1>1, HeadIsOwned
<1>3. o \in Seq(Request)
  <2>1. k.out \in Seq(Request)
    BY <1>2 DEF Sound, Connection
  <2> HIDE DEF k
  <2> QED BY <1>2, <2>1, AsksType, ConcatProperties
<1>4. conns' = [conns EXCEPT ![c] = m]
  BY DEF Asks
<1> HIDE DEF o
<1>5. /\ m \in Connection /\ m.slot = k.slot /\ m.up = k.up /\ m.walk = k.walk
      /\ m.step = e /\ m.joined = k.joined
  <2> HIDE DEF k
  <2> QED BY <1>2, <1>3 DEF Connection, Sound
<1>6. Sound(m)
  <2> HIDE DEF m, k
  <2> QED BY <1>2, <1>5 DEF Sound
<1> HIDE DEF m, k, c
<1>7. waiting' = Tail(waiting) /\ active' = active \union {e}
  BY DEF Asks
<1>8. GateOK' /\ AtTheGate' = AtTheGate
  BY <1>2, <1>7, InvTypes DEF GateOK, AtTheGate
<1>9. AtTheGate' = (AtTheGate \ {conns[c].slot}) \union ({m.slot} \ {None})
  BY <1>2, <1>5, <1>8 DEF AtTheGate, k
<1>10. m.slot # None => m.slot.conn = c /\ m.up
  BY <1>2, <1>5 DEF c
<1>11. pumping' \in BOOLEAN /\ throws' \in 0 .. MaxThrows
  BY <1>1, InvTypes DEF Asks
<1> QED BY <1>1, <1>2, <1>4, <1>6, <1>8, <1>9, <1>10, <1>11, OneMoves

\* A turn that asks nothing: the connection is back in line, or has no
\* channel left.
LEMMA PassesOverKeeps ==
    ASSUME IInv, Grant, NEW e, e = Head(waiting), throws' \in 0 .. MaxThrows,
           NEW k \in Connection, k.up = conns[e.conn].up, k.walk = conns[e.conn].walk,
           k.joined = conns[e.conn].joined,
           PassesOver(e, k)
    PROVE  IInv'
<1> DEFINE c == e.conn
           s == StepEnded(k)
           a == Advanced(c, s, Tail(waiting))
           m == a.k
<1>1. pumping /\ waiting # <<>> /\ UNCHANGED <<pumping, after, closing, down>>
  BY DEF Grant
<1>2. /\ ~down /\ e \in Entry /\ c \in Conns /\ e \in ToSet(waiting) /\ e \notin active
      /\ conns[c].slot = e /\ conns[c].up /\ e # None /\ Sound(conns[c]) /\ c \notin after
      /\ Tail(waiting) \in Seq(Entry) /\ Once(Tail(waiting))
      /\ ToSet(Tail(waiting)) = ToSet(waiting) \ {e}
  BY <1>1, HeadIsOwned
<1>3. /\ s \in Connection /\ s.slot = None /\ s.timer = "none"
      /\ s.up = k.up /\ s.walk = k.walk /\ s.joined = k.joined
  BY StepEndedType
<1>4. conns' = [conns EXCEPT ![c] = m] /\ waiting' = a.line /\ active' = active
  BY DEF PassesOver
<1> HIDE DEF s, c
<1>5. s.walk \in 1 .. MaxWalks
  BY <1>2, <1>3 DEF Connection, Sound, c
<1>6. /\ m \in Connection /\ m.up /\ m.walk = s.walk /\ m.timer = "none"
      /\ \/ m.slot = None /\ waiting' = Tail(waiting)
         \/ \E f \in Entry : f.conn = c /\ m.slot = f /\ waiting' = Append(Tail(waiting), f)
  <2> HIDE DEF a
  <2>1. /\ a.k \in Connection /\ a.k.up = s.up /\ a.k.walk = s.walk /\ a.k.timer = s.timer
        /\ \/ a.k.slot = None /\ a.line = Tail(waiting)
           \/ \E f \in Entry : f.conn = c /\ a.k.slot = f /\ a.line = Append(Tail(waiting), f)
    <3>1. GoesOn(c, s, Tail(waiting), a)
      BY <1>2, <1>3, <1>5, AdvancedType DEF a
    <3> QED BY <3>1 DEF GoesOn
  <2>2. s.up
    BY <1>2, <1>3 DEF c
  <2> QED BY <1>3, <1>4, <2>1, <2>2
<1> HIDE DEF m, a
<1>7. Sound(m)
  BY <1>5, <1>6 DEF Sound
<1>8. /\ AtTheGate \subseteq Entry /\ active \in SUBSET Entry
      /\ active \intersect ToSet(waiting) = {}
  BY InvTypes DEF GateOK
<1>9. \A f \in AtTheGate : f.conn = c => f = e
  BY <1>2, <1>8 DEF IInv, Owned, Core
<1>10. /\ GateOK'
       /\ AtTheGate' = (AtTheGate \ {conns[c].slot}) \union ({m.slot} \ {None})
       /\ m.slot # None => m.slot.conn = c
  <2>1. CASE m.slot = None /\ waiting' = Tail(waiting)
    BY <1>2, <1>4, <1>8, <2>1 DEF GateOK, AtTheGate
  <2>2. ASSUME NEW f \in Entry, f.conn = c, m.slot = f, waiting' = Append(Tail(waiting), f)
        PROVE  <1>10!:
    <3>1. f \notin ToSet(Tail(waiting)) /\ f \notin active
      BY <1>2, <1>9, <2>2 DEF AtTheGate
    <3>2. waiting' \in Seq(Entry) /\ Once(waiting')
          /\ ToSet(waiting') = ToSet(Tail(waiting)) \union {f}
      BY <1>2, <2>2, <3>1, BackOfTheLine
    <3>3. f # None
      BY NoneIsNoEntry
    <3> QED BY <1>2, <1>4, <1>8, <2>2, <3>1, <3>2, <3>3 DEF GateOK, AtTheGate
  <2> QED BY <1>6, <2>1, <2>2
<1>11. pumping' \in BOOLEAN
  BY <1>1, InvTypes
<1> QED BY <1>1, <1>2, <1>4, <1>6, <1>7, <1>10, <1>11, OneMoves

\* A turn of the pump keeps the invariant, whatever the step does with it.
LEMMA GrantKeeps ==
    ASSUME IInv, Grant
    PROVE  IInv'
<1> DEFINE e == Head(waiting)
           k == conns[e.conn]
<1>1. pumping /\ waiting # <<>>
  BY DEF Grant
<1>2. e \in Entry /\ e.conn \in Conns /\ k \in Connection
  BY <1>1, HeadIsOwned DEF Sound
<1> HIDE DEF e
<1>3. CASE Asks(e)
  BY <1>3, AsksKeeps DEF e
<1>4. CASE NothingToAsk(e)
  <2>1. PassesOver(e, k) /\ throws' \in 0 .. MaxThrows
    BY <1>4, InvTypes DEF NothingToAsk
  <2> HIDE DEF k
  <2> QED BY <1>2, <2>1, PassesOverKeeps DEF e, k
<1>5. CASE Throws(e)
  <2>1. PICK n \in 0 .. Len(Requests) - 1 :
           PassesOver(e, [k EXCEPT !.out = @ \o SubSeq(AsksOf(e), 1, n),
                                   !.cut = @ \union {e}])
    BY <1>5 DEF Throws
  <2> DEFINE o == k.out \o SubSeq(AsksOf(e), 1, n)
             u == k.cut \union {e}
             m == [k EXCEPT !.out = o, !.cut = u]
  <2>2. o \in Seq(Request) /\ u \in SUBSET Entry
    <3>1. AsksOf(e) \in Seq(Request) /\ Len(AsksOf(e)) = Len(Requests) /\ Len(Requests) \in Nat
      BY <1>2, AsksType, WalkConstants
    <3>2. n \in Int /\ \A i \in 1 .. n : AsksOf(e)[i] \in Request
      BY <3>1
    <3>3. SubSeq(AsksOf(e), 1, n) \in Seq(Request)
      BY <3>2, SubSeqProperties
    <3>4. k.out \in Seq(Request) /\ k.cut \in SUBSET Entry
      BY <1>2 DEF Connection
    <3> HIDE DEF k
    <3> QED BY <1>2, <3>3, <3>4, ConcatProperties
  <2>3. PassesOver(e, m)
    BY <2>1
  <2> HIDE DEF o, u
  <2>4. m \in Connection /\ m.up = k.up /\ m.walk = k.walk /\ m.joined = k.joined
    <3> HIDE DEF k
    <3> QED BY <1>2, <2>2 DEF Connection
  <2>5. throws' \in 0 .. MaxThrows
    BY <1>5, InvTypes, WalkConstants DEF Throws
  <2> HIDE DEF m
  <2> QED BY <2>3, <2>4, <2>5, PassesOverKeeps DEF e
<1> QED BY <1>3, <1>4, <1>5 DEF Grant, e

\* The end of the pump keeps the invariant.
LEMMA PumpEndsKeeps ==
    ASSUME IInv, PumpEnds
    PROVE  IInv'
<1>1. /\ pumping' = FALSE
      /\ UNCHANGED <<waiting, active, after, conns, closing, down, throws>>
  BY DEF PumpEnds
<1>2. TypeOK'
  BY <1>1 DEF IInv, TypeOK
<1>3. Core => Core'
  BY <1>1 DEF Core, AtTheGate
<1> QED BY <1>1, <1>2, <1>3 DEF IInv, Owned, Stopped

\* A walk that goes on keeps the invariant: its new reservation is its only one.
LEMMA GoOnKeeps ==
    ASSUME IInv, NEW c \in Conns, GoOn(c)
    PROVE  IInv'
<1> DEFINE k == conns[c]
           a == Advanced(c, k, waiting)
           m == a.k
<1>1. /\ after' = {} /\ conns' = [conns EXCEPT ![c] = m] /\ waiting' = a.line
      /\ pumping' \in BOOLEAN /\ UNCHANGED <<active, closing, down, throws>>
  BY DEF GoOn
<1>2. ~down /\ k.slot = None /\ k.up /\ Sound(k)
  BY DEF GoOn, IInv, Owned, Core, Stopped
<1>3. GateOK /\ waiting \in Seq(Entry)
  BY InvTypes DEF GateOK
<1>4. k \in Connection /\ k.walk \in 1 .. MaxWalks
  BY <1>2 DEF Sound, Connection
<1> HIDE DEF a, k
<1>5. /\ m \in Connection /\ m.up = k.up /\ m.walk = k.walk
      /\ m.timer = k.timer /\ m.step = k.step
      /\ \/ m.slot = None /\ waiting' = waiting
         \/ \E e \in Entry : e.conn = c /\ m.slot = e /\ waiting' = Append(waiting, e)
  <2>1. GoesOn(c, k, waiting, a)
    BY <1>2, <1>3, <1>4, AdvancedType DEF a
  <2>2. /\ m \in Connection /\ m.up = k.up /\ m.walk = k.walk
        /\ m.timer = k.timer /\ m.step = k.step
        /\ \/ m.slot = None /\ a.line = waiting
           \/ \E e \in Entry : e.conn = c /\ m.slot = e /\ a.line = Append(waiting, e)
    BY <2>1 DEF GoesOn
  <2> HIDE DEF m
  <2> QED BY <1>1, <2>2
<1> HIDE DEF m
<1>6. Sound(m)
  BY <1>2, <1>5 DEF Sound
<1>7. \A e \in AtTheGate : e.conn # c
  <2>1. Core /\ AtTheGate \subseteq Entry /\ None \notin AtTheGate
    BY <1>2, InvTypes DEF IInv, Owned
  <2> QED BY <1>2, <2>1 DEF Core, k
<1>8. /\ GateOK'
      /\ AtTheGate' = (AtTheGate \ {conns[c].slot}) \union ({m.slot} \ {None})
      /\ m.slot # None => m.slot.conn = c
  <2>1. conns[c].slot = None /\ None \notin AtTheGate
    BY <1>2, InvTypes DEF k
  <2>2. CASE m.slot = None /\ waiting' = waiting
    BY <1>1, <1>3, <2>1, <2>2 DEF GateOK, AtTheGate
  <2>3. ASSUME NEW e \in Entry, e.conn = c, m.slot = e, waiting' = Append(waiting, e)
        PROVE  <1>8!:
    <3>1. e \notin ToSet(waiting) /\ e \notin active /\ e # None
      BY <1>7, <2>3, NoneIsNoEntry DEF AtTheGate
    <3>2. waiting' \in Seq(Entry) /\ Once(waiting') /\ ToSet(waiting') = ToSet(waiting) \union {e}
      BY <1>3, <2>3, <3>1, BackOfTheLine DEF GateOK
    <3> QED BY <1>1, <1>3, <2>1, <2>3, <3>1, <3>2 DEF GateOK, AtTheGate
  <2> QED BY <1>5, <2>2, <2>3
<1>9. m.up /\ throws' \in 0 .. MaxThrows
  BY <1>1, <1>2, <1>5, InvTypes
<1> QED BY <1>1, <1>2, <1>6, <1>8, <1>9, OneMoves

-----------------------------------------------------------------------------
(* Going down.                                                             *)

\* The reset of the gate keeps the invariant: no turn has an owner any more.
LEMMA ShutdownBeginsKeeps ==
    ASSUME IInv, ShutdownBegins
    PROVE  IInv'
<1> DEFINE nil == <<>>
<1>1. nil \in Seq(Entry) /\ ToSet(nil) = {} /\ Once(nil)
  BY EmptySeq DEF ToSet, Once
<1>2. /\ waiting' = nil /\ active' = {} /\ ~pumping' /\ after' = {} /\ down' = TRUE
      /\ closing' = {c \in Conns : conns[c].up}
      /\ conns' = conns /\ throws' = throws /\ pumping' = FALSE
  BY DEF ShutdownBegins, GateReset, Quiet
<1>3. waiting' = <<>>
  BY <1>2
<1> HIDE DEF nil
<1>4. TypeOK'
  BY <1>1, <1>2 DEF IInv, TypeOK
<1>5. Stopped'
  BY <1>2, <1>3 DEF Stopped
<1> QED BY <1>1, <1>2, <1>4, <1>5 DEF IInv, Owned

\* With the gate empty a release finds nothing, and hands nothing out.
LEMMA ShutdownDetachesKeeps ==
    ASSUME IInv, NEW c \in Conns, ShutdownDetaches(c)
    PROVE  IInv'
<1>1. /\ c \in closing /\ closing' = closing \ {c} /\ UNCHANGED <<down, throws>>
  BY DEF ShutdownDetaches
<1>2. down /\ Stopped
  BY <1>1 DEF IInv, Owned
<1>3. PICK k \in Connection : /\ EndStep(c, k, FALSE)
                              /\ k.slot = conns[c].slot /\ ~k.up /\ k.joined = {}
  BY ClosedType DEF ShutdownDetaches
<1> DEFINE m == StepEnded(k)
           nil == <<>>
<1>4. m \in Connection /\ m.timer = "none" /\ ~m.up /\ m.joined = {}
  BY <1>3, StepEndedType
<1>5. ToSet(nil) = {} /\ nil \in Seq(Entry) /\ Once(nil)
  BY EmptySeq DEF ToSet, Once
<1>6. waiting = nil /\ active = {} /\ after = {}
  BY <1>2 DEF Stopped
<1>7. /\ conns' = [conns EXCEPT ![c] = m] /\ after' = {}
      /\ waiting' = nil /\ active' = {} /\ pumping' = FALSE
  <2> HIDE DEF nil
  <2>1. k.slot \notin ToSet(waiting) /\ ~InGate(k.slot)
    BY <1>5, <1>6 DEF InGate
  <2>2. Released(k.slot).waiting = waiting /\ Released(k.slot).active = active
    BY <1>6, <2>1 DEF Released
  <2> QED BY <1>3, <1>6, <2>1, <2>2 DEF EndStep
<1>8. waiting' = <<>>
  BY <1>7
<1> HIDE DEF m, nil
<1>9. conns \in [Conns -> Connection] /\ \A d \in Conns : Sound(conns[d])
  BY InvTypes DEF IInv, Owned
<1>10. conns' \in [Conns -> Connection] /\ conns'[c] = m
       /\ \A d \in Conns \ {c} : conns'[d] = conns[d]
  BY <1>4, <1>7, <1>9
<1>11. \A d \in Conns : Sound(conns'[d])
  BY <1>4, <1>9, <1>10 DEF Sound
<1>12. TypeOK'
  <2>1. closing' \in SUBSET Conns /\ down' \in BOOLEAN /\ throws' \in 0 .. MaxThrows
    BY <1>1, InvTypes
  <2>2. \A d \in Conns : conns'[d].timer # "none" => conns'[d].up /\ conns'[d].step # None
    BY <1>11 DEF Sound
  <2> QED BY <1>5, <1>7, <1>10, <2>1, <2>2 DEF TypeOK
<1>13. Stopped'
  <2>1. \A d \in Conns \ closing' : ~conns'[d].up
    BY <1>1, <1>2, <1>4, <1>10 DEF Stopped
  <2> QED BY <1>7, <1>8, <2>1 DEF Stopped
<1> QED BY <1>1, <1>2, <1>5, <1>7, <1>11, <1>12, <1>13 DEF IInv, Owned

-----------------------------------------------------------------------------

\* Every step keeps the invariant.
LEMMA NextKeeps == IInv /\ [Next]_vars => IInv'
<1> SUFFICES ASSUME IInv, [Next]_vars PROVE IInv'
  OBVIOUS
<1>1. CASE PumpStep
  BY <1>1, GrantKeeps, PumpEndsKeeps, GoOnKeeps DEF PumpStep
<1>2. CASE ShutdownBegins
  BY <1>2, ShutdownBeginsKeeps
<1>3. ASSUME NEW c \in Conns,
             \/ Restored(c) \/ Sends(c) \/ Skips(c)
             \/ SlotCapPasses(c) \/ DeadlinePasses(c)
             \/ Closes(c) \/ ShutdownDetaches(c)
      PROVE  IInv'
  BY <1>3, RestoredKeeps, SendsKeeps, SkipsKeeps, SlotCapKeeps, DeadlineKeeps,
     ClosesKeeps, ShutdownDetachesKeeps
<1>4. ASSUME NEW c \in Conns, NEW ch \in Chans, Leaves(c, ch) PROVE IInv'
  BY <1>4, LeavesKeeps
<1>5. ASSUME NEW c \in Conns, NEW refused \in BOOLEAN, Answers(c, refused) PROVE IInv'
  BY <1>5, AnswersKeeps
<1>6. CASE UNCHANGED vars
  <2>1. TypeOK'
    BY <1>6 DEF vars, IInv, TypeOK
  <2>2. Owned'
    BY <1>6 DEF vars, IInv, Owned, Core, Stopped, AtTheGate
  <2> QED BY <2>1, <2>2 DEF IInv
<1> QED BY <1>1, <1>2, <1>3, <1>4, <1>5, <1>6 DEF Next

\* The variables keep their types, and only a live connection's step has a
\* timer (endRestoreStep clears the one it had).
THEOREM RestoreTypeOK == Spec => []TypeOK
<1>1. IInv => TypeOK
  BY DEF IInv
<1> QED BY <1>1, InitIInv, NextKeeps, PTL DEF Spec

\* Between events every turn held or waited for belongs to a live
\* connection's current step (RestoreGate.release, resetRestoreState).
THEOREM RestoreTurnsOwned == Spec => []EveryTurnIsOwned
<1>1. IInv => EveryTurnIsOwned
  <2> SUFFICES ASSUME IInv, ~down
               PROVE  /\ \A c \in Conns : conns[c].slot # None => InGate(conns[c].slot)
                      /\ \A e \in Entry :
                            InGate(e) => conns[e.conn].up /\ conns[e.conn].slot = e
    BY DEF EveryTurnIsOwned
  <2>1. Core
    BY DEF IInv, Owned
  <2>2. \A e : InGate(e) <=> e \in AtTheGate
    BY DEF InGate, AtTheGate
  <2>3. \A e \in Entry : e.conn \in Conns /\ e # None
    BY NoneIsNoEntry DEF Entry
  <2> QED BY <2>1, <2>2, <2>3 DEF Core
<1> QED BY <1>1, InitIInv, NextKeeps, PTL DEF Spec

-----------------------------------------------------------------------------
(* No lost wake-up.                                                        *)

\* Outside of the pump whoever waits is kept out by the cap.
Woken == ~pumping => waiting = <<>> \/ ~Room

\* A release of what is not at the gate changes nothing; of what is, pumps.
LEMMA ReleaseWakes ==
    ASSUME Woken, ~pumping, NEW e, waiting' = Released(e).waiting,
           active' = Released(e).active, pumping' = InGate(e)
    PROVE  Woken'
<1>1. CASE InGate(e)
  BY <1>1 DEF Woken
<1>2. CASE ~InGate(e)
  <2>1. e \notin active /\ e \notin ToSet(waiting)
    BY <1>2 DEF InGate
  <2>2. waiting' = waiting /\ active' = active
    BY <2>1 DEF Released
  <2> QED BY <2>2 DEF Woken, Room, Limit
<1> QED BY <1>1, <1>2

\* Whatever makes room, or joins the line, runs the pump.
LEMMA NextWakes == IInv /\ Woken /\ [Next]_vars => Woken'
<1> SUFFICES ASSUME IInv, Woken, [Next]_vars PROVE Woken'
  OBVIOUS
<1>1. ASSUME NEW c, NEW k, NEW go, ~pumping, EndStep(c, k, go) PROVE Woken'
  <2>1. /\ waiting' = Released(k.slot).waiting /\ active' = Released(k.slot).active
        /\ pumping' = InGate(k.slot)
    BY <1>1 DEF EndStep
  <2> QED BY <1>1, <2>1, ReleaseWakes
<1>2. ASSUME NEW c, ~pumping, Closed(c) PROVE Woken'
  BY <1>1, <1>2 DEF Closed
<1>3. ASSUME UNCHANGED <<waiting, active, pumping>> PROVE Woken'
  BY <1>3 DEF Woken, Room, Limit
<1>4. CASE PumpStep
  <2>1. CASE Grant
    BY <2>1 DEF Grant, Woken
  <2>2. CASE PumpEnds
    BY <2>2 DEF PumpEnds, Woken, Room, Limit
  <2>3. ASSUME NEW c \in Conns, GoOn(c) PROVE Woken'
    <3> DEFINE a == Advanced(c, conns[c], waiting)
    <3>1. /\ ~pumping /\ waiting' = a.line /\ pumping' = (a.k.slot # None)
          /\ active' = active
      BY <2>3 DEF GoOn
    <3>2. a.k.slot # None \/ a.line = waiting
      <4>1. conns[c] \in Connection /\ conns[c].slot = None /\ conns[c].walk \in 1 .. MaxWalks
        BY <2>3, InvTypes DEF GoOn, IInv, Owned, Core, Stopped, Sound, Connection
      <4>2. waiting \in Seq(Entry)
        BY InvTypes DEF GateOK
      <4>3. GoesOn(c, conns[c], waiting, a)
        BY <4>1, <4>2, AdvancedType
      <4> QED BY <4>3, NoneIsNoEntry DEF GoesOn
    <3> HIDE DEF a
    <3> QED BY <3>1, <3>2 DEF Woken, Room, Limit
  <2> QED BY <1>4, <2>1, <2>2, <2>3 DEF PumpStep
<1>5. CASE ShutdownBegins
  BY <1>5 DEF ShutdownBegins, GateReset, Woken
<1>6. ASSUME NEW c \in Conns,
             Restored(c) \/ Sends(c) \/ Skips(c) \/ \E ch \in Chans : Leaves(c, ch)
      PROVE  Woken'
  BY <1>3, <1>6 DEF Restored, Sends, Skips, Leaves
<1>7. ASSUME NEW c \in Conns, SlotCapPasses(c) PROVE Woken'
  <2>1. /\ ~pumping /\ waiting' = Released(conns[c].slot).waiting
        /\ active' = Released(conns[c].slot).active /\ pumping' = InGate(conns[c].slot)
    BY <1>7 DEF SlotCapPasses, SlotTimerFires, Quiet
  <2> QED BY <2>1, ReleaseWakes
<1>8. ASSUME NEW c \in Conns, DeadlinePasses(c) \/ Closes(c) \/ ShutdownDetaches(c)
      PROVE  Woken'
  BY <1>1, <1>2, <1>8 DEF DeadlinePasses, Closes, ShutdownDetaches, Quiet
<1>9. ASSUME NEW c \in Conns, NEW refused \in BOOLEAN, Answers(c, refused) PROVE Woken'
  BY <1>1, <1>3, <1>9 DEF Answers, Quiet
<1>10. CASE UNCHANGED vars
  BY <1>3, <1>10 DEF vars
<1> QED BY <1>4, <1>5, <1>6, <1>7, <1>8, <1>9, <1>10 DEF Next

\* Between events nobody waits while there is room: every way a turn goes back
\* (RestoreGate.release) pumps the line again.
THEOREM NoLostWakeUp == Spec => []NobodyWaitsForNothing
<1>1. Init => Woken
  BY DEF Init, Woken
<1>2. Woken => NobodyWaitsForNothing
  BY DEF Woken, NobodyWaitsForNothing, Quiet
<1> QED BY <1>1, <1>2, InitIInv, NextKeeps, NextWakes, PTL DEF Spec

-----------------------------------------------------------------------------
(* Nothing is asked on the way down.                                       *)

\* Once the process is going down no step is asked (RestoreGate.reset,
\* restoreGate.ts:157-161), whatever was in line when it began to.
THEOREM NothingAskedOnTheWayDown == Spec => NothingAskedGoingDown
<1>1. ASSUME IInv, down, Next, NEW c \in Conns
      PROVE  Len(conns'[c].out) <= Len(conns[c].out)
  <2>1. waiting = <<>> /\ ~pumping /\ after = {} /\ conns \in [Conns -> Connection]
    BY <1>1, InvTypes DEF IInv, Owned, Stopped
  <2>2. conns[c].out \in Seq(Request)
    BY <2>1 DEF Connection
  <2> DEFINE nil == <<>>
             Keeps(o) == o = conns[c].out \/ o = nil
  <2>3. ASSUME NEW o, Keeps(o) PROVE Len(o) <= Len(conns[c].out)
    <3>1. Len(conns[c].out) \in Nat /\ Len(nil) = 0
      BY <2>2
    <3> HIDE DEF nil
    <3> QED BY <2>3, <3>1
  <2>4. ASSUME NEW d \in Conns, NEW k, NEW go, EndStep(d, k, go),
               d = c => Keeps(k.out) /\ k \in Connection
        PROVE  Keeps(conns'[c].out)
    <3>1. conns'[c] = IF d = c THEN StepEnded(k) ELSE conns[c]
      BY <2>1, <2>4 DEF EndStep
    <3>2. d = c => StepEnded(k).out = k.out
      BY <2>4 DEF StepEnded, Connection
    <3> QED BY <2>4, <3>1, <3>2
  <2>5. ASSUME NEW d \in Conns, Closed(d) PROVE Keeps(conns'[c].out)
    <3> DEFINE k == conns[d]
               x == [NoConn EXCEPT !.walk = k.walk]
               y == [NoConn EXCEPT !.walk = k.walk, !.wire = k.wire]
    <3>1. PICK kept \in {x, y} : EndStep(d, [kept EXCEPT !.slot = k.slot], FALSE)
      BY <2>5 DEF Closed
    <3>2. k \in Connection /\ NoConn \in Connection /\ NoConn.out = nil
      BY <2>1, NoConnType DEF NoConn
    <3> HIDE DEF nil
    <3>3. x \in Connection /\ x.out = nil /\ y \in Connection /\ y.out = nil
      <4> HIDE DEF k
      <4> QED BY <3>2 DEF Connection
    <3> HIDE DEF x, y
    <3> DEFINE m == [kept EXCEPT !.slot = k.slot]
    <3>4. m \in Connection /\ m.out = nil
      <4>1. kept \in Connection /\ kept.out = nil
        BY <3>3
      <4> HIDE DEF k
      <4> QED BY <3>2, <4>1 DEF Connection
    <3> HIDE DEF m
    <3>5. EndStep(d, m, FALSE)
      BY <3>1 DEF m
    <3>6. d = c => Keeps(m.out)
      BY <3>4
    <3> QED BY <2>4, <3>4, <3>5, <3>6
  <2>6. ASSUME PumpStep \/ ShutdownBegins PROVE Keeps(conns'[c].out)
    BY <1>1, <2>1, <2>6 DEF PumpStep, Grant, PumpEnds, GoOn, ShutdownBegins
  \* Between two events nobody is up: no other event has a connection to be of.
  <2>7. ASSUME NEW d \in Conns, Quiet PROVE ~conns[d].up /\ Sound(conns[d])
    BY <1>1, <2>7, NotGoingDown DEF IInv, Owned
  <2>8. ASSUME NEW d \in Conns,
               \/ Restored(d) \/ Sends(d) \/ Skips(d) \/ SlotCapPasses(d)
               \/ DeadlinePasses(d) \/ Closes(d)
               \/ \E ch \in Chans : Leaves(d, ch)
               \/ \E refused \in BOOLEAN : Answers(d, refused)
        PROVE  FALSE
    <3>1. CASE Restored(d)
      BY <1>1, <3>1 DEF Restored
    <3>2. CASE Sends(d) \/ Skips(d) \/ Closes(d)
      BY <2>7, <3>2 DEF Sends, Skips, Closes
    <3>3. CASE SlotCapPasses(d) \/ DeadlinePasses(d)
      BY <2>7, <3>3 DEF SlotCapPasses, DeadlinePasses, Sound
    <3>4. CASE \E ch \in Chans : Leaves(d, ch)
      BY <2>7, <3>4 DEF Leaves, Sound
    <3>5. CASE \E refused \in BOOLEAN : Answers(d, refused)
      BY <2>7, <3>5 DEF Answers
    <3> QED BY <2>8, <3>1, <3>2, <3>3, <3>4, <3>5
  <2>9. ASSUME NEW d \in Conns, ShutdownDetaches(d) PROVE Keeps(conns'[c].out)
    BY <2>5, <2>9 DEF ShutdownDetaches
  <2>10. Keeps(conns'[c].out)
    <3>1. PumpStep \/ ShutdownBegins \/ \E d \in Conns : ShutdownDetaches(d)
      BY <1>1, <2>8 DEF Next
    <3> HIDE DEF Keeps
    <3> QED BY <2>6, <2>9, <3>1
  <2> HIDE DEF Keeps
  <2> QED BY <2>3, <2>10
<1>2. IInv /\ [Next]_vars =>
        [down => \A c \in Conns : Len(conns'[c].out) <= Len(conns[c].out)]_vars
  BY <1>1
<1> QED BY <1>2, InitIInv, NextKeeps, PTL DEF Spec, NothingAskedGoingDown

-----------------------------------------------------------------------------
(* What brings a walk on, and what it has with the pacer.                  *)

\* What waits in the pacer is of the step in flight, of a step cut short, or of
\* a walk that is over; and the step is owed what the pacer still has of it.
Told(k, r) ==
    /\ r.entry.walk <= k.walk
    /\ k.up /\ r.entry.walk = k.walk => r.entry \in k.cut \union {k.step}
    /\ r.entry = k.step => r.ask \in k.owed

Overtakes(k, r, s) == r.entry.walk = s.entry.walk /\ r.entry # s.entry => r.entry \in k.cut

Paced(k) ==
    /\ ~k.up => k.step = None
    /\ k.slot # None => k.slot.walk = k.walk
    /\ k.timer = "deadline" => ~Unsent(k)
    /\ \A i \in DOMAIN k.out : Told(k, k.out[i])
    /\ \A i, j \in DOMAIN k.out : i < j => Overtakes(k, k.out[i], k.out[j])

\* Who waits for a turn has no step; who has channels left has something that
\* will bring the walk on.
Carried(c) ==
    LET k == conns[c] IN
    /\ c \in after \/ k.slot \in ToSet(waiting) => k.step = None
    /\ k.up /\ k.queue # <<>> =>
          c \in after \/ k.slot \in ToSet(waiting) \/ Unsent(k) \/ k.timer = "deadline" \/ down

Walks ==
    /\ \A c, d \in after : c = d
    /\ \A c \in Conns : Paced(conns[c]) /\ Carried(c)

\* Every request is of a step and asks one of the list.
LEMMA RequestsAre ==
    ASSUME NEW s \in Seq(Request), NEW i \in DOMAIN s
    PROVE  s[i].entry \in Entry /\ s[i].entry # None /\ s[i].ask \in ToSet(Requests)
<1>1. s[i] \in Request
  OBVIOUS
<1>2. s[i].entry \in Entry /\ s[i].ask \in ToSet(Requests)
  BY <1>1 DEF Request
<1> QED BY <1>2, NoneIsNoEntry

\* What a connection has with the pacer is requests.
LEMMA OutIs ==
    ASSUME NEW k \in Connection
    PROVE  /\ k.out \in Seq(Request) /\ k.walk \in Int
           /\ \A i \in DOMAIN k.out : /\ k.out[i].entry \in Entry /\ k.out[i].entry # None
                                      /\ k.out[i].ask \in ToSet(Requests)
<1>1. k.out \in Seq(Request) /\ k.walk \in Int
  BY WalkConstants DEF Connection
<1> QED BY <1>1, RequestsAre

\* Nothing is added to what the pacer has, and the step goes on or ends.
LEMMA PacedKept ==
    ASSUME NEW k \in Connection, Paced(k), NEW m \in Connection,
           m.out = k.out, k.cut \subseteq m.cut, m.walk = k.walk, m.up => k.up,
           \/ m.step = k.step
           \/ m.step = None /\ (m.up /\ Unsent(k) => k.step \in m.cut),
           m.step # None =>
             \A i \in DOMAIN m.out : m.out[i].entry = m.step => m.out[i].ask \in m.owed,
           m.timer = "deadline" => m.step = k.step /\ k.timer = "deadline",
           m.slot = None \/ m.slot.walk = m.walk, ~m.up => m.step = None
    PROVE  Paced(m)
<1>1. \A i \in DOMAIN m.out : m.out[i].entry \in Entry /\ m.out[i].entry # None
  BY OutIs
<1>3. m.timer = "deadline" => ~Unsent(m)
  <2>1. m.step = k.step => (Unsent(m) <=> Unsent(k))
    BY DEF Unsent
  <2> QED BY <2>1 DEF Paced
<1>4. ASSUME NEW i \in DOMAIN m.out PROVE Told(m, m.out[i])
  <2> DEFINE r == m.out[i]
  <2>1. Told(k, r)
    BY DEF Paced
  <2>2. r.entry = k.step => Unsent(k)
    BY <1>1 DEF Unsent
  <2>3. r.entry = m.step => r.ask \in m.owed
    BY <1>1
  <2> HIDE DEF r
  <2>5. ASSUME m.up, r.entry.walk = m.walk PROVE r.entry \in m.cut \union {m.step}
    <3>1. k.up /\ r.entry \in k.cut \union {k.step}
      BY <2>1, <2>5 DEF Told
    <3>2. CASE r.entry \in k.cut
      BY <3>2
    <3>3. CASE r.entry = k.step
      BY <2>2, <2>5, <3>3
    <3> QED BY <3>1, <3>2, <3>3
  <2>6. r.entry.walk <= m.walk
    BY <2>1 DEF Told
  <2>7. Told(m, r)
    BY <2>3, <2>5, <2>6 DEF Told
  <2> QED BY <2>7 DEF r
<1>5. ASSUME NEW i \in DOMAIN m.out, NEW j \in DOMAIN m.out, i < j
      PROVE  Overtakes(m, m.out[i], m.out[j])
  <2>1. Overtakes(k, m.out[i], m.out[j])
    BY <1>5 DEF Paced
  <2> QED BY <2>1 DEF Overtakes
<1> QED BY <1>3, <1>4, <1>5 DEF Paced

\* endRestoreStep, of a step whose requests have gone or that is cut short.
LEMMA StepEndedPaced ==
    ASSUME NEW k \in Connection, Paced(k), k.up /\ Unsent(k) => k.step \in k.cut
    PROVE  Paced(StepEnded(k)) /\ StepEnded(k).step = None
<1> DEFINE m == StepEnded(k)
<1>1. /\ m \in Connection /\ m.slot = None /\ m.timer = "none" /\ m.up = k.up
      /\ m.walk = k.walk /\ m.step = None /\ m.out = k.out /\ m.cut = k.cut
  BY StepEndedType DEF StepEnded, Connection
<1> HIDE DEF m
<1>2. Paced(m)
  BY <1>1, PacedKept
<1> QED BY <1>1, <1>2 DEF m

\* A step's requests go behind what the pacer has; the step is in flight, or a
\* throw has cut it short.
LEMMA PacedAppend ==
    ASSUME NEW k \in Connection, Paced(k), k.up, k.step = None, NEW e \in Entry,
           e.walk = k.walk, NEW t \in Seq(Request), \A i \in 1 .. Len(t) : t[i].entry = e,
           NEW m \in Connection, m.out = k.out \o t, k.cut \subseteq m.cut,
           m.walk = k.walk, m.up, m.slot = e, m.timer # "deadline",
           \/ m.step = e /\ m.owed = ToSet(Requests)
           \/ m.step = None /\ e \in m.cut
    PROVE  Paced(m)
<1> DEFINE n == Len(k.out)
           N == n + Len(t)
<1>1. k.out \in Seq(Request) /\ n \in Nat /\ DOMAIN k.out = 1 .. n /\ Len(t) \in Nat
  BY OutIs
<1>2. /\ DOMAIN m.out = 1 .. N
      /\ \A i \in 1 .. N : m.out[i] = IF i <= n THEN k.out[i] ELSE t[i - n]
  BY <1>1, ConcatProperties
<1>3. ASSUME NEW i \in 1 .. N, i <= n
      PROVE  m.out[i] = k.out[i] /\ i \in DOMAIN k.out
  BY <1>1, <1>2, <1>3
<1>4. ASSUME NEW i \in 1 .. N, ~(i <= n)
      PROVE  m.out[i].entry = e
  <2>1. i - n \in 1 .. Len(t)
    BY <1>1, <1>4
  <2> QED BY <1>2, <1>4, <2>1
<1>o. \A i \in DOMAIN m.out : m.out[i].entry # None /\ m.out[i].ask \in ToSet(Requests)
  BY OutIs
<1>w. k.walk \in Int
  BY OutIs
<1>5. ASSUME NEW i \in 1 .. N
      PROVE  Told(m, m.out[i])
  <2>1. CASE i <= n
    <3>1. Told(k, m.out[i])
      BY <1>3, <2>1 DEF Paced
    <3> QED BY <1>2, <1>o, <3>1 DEF Told
  <2>2. CASE ~(i <= n)
    <3>1. m.out[i].entry = e /\ m.out[i].ask \in ToSet(Requests) /\ e # None
      BY <1>2, <1>4, <1>o, <2>2
    <3> QED BY <1>w, <3>1 DEF Told
  <2> QED BY <2>1, <2>2
<1>6. ASSUME NEW i \in 1 .. N, NEW j \in 1 .. N, i < j
      PROVE  Overtakes(m, m.out[i], m.out[j])
  <2>1. CASE i <= n /\ j <= n
    <3>1. Overtakes(k, m.out[i], m.out[j])
      BY <1>3, <1>6, <2>1 DEF Paced
    <3> QED BY <3>1 DEF Overtakes
  <2>2. CASE i <= n /\ ~(j <= n)
    <3>1. Told(k, m.out[i])
      BY <1>3, <2>2 DEF Paced
    <3>2. m.out[i].entry # None
      BY <1>2, <1>o
    <3> QED BY <1>4, <2>2, <3>1, <3>2 DEF Told, Overtakes
  <2>3. CASE ~(i <= n)
    <3>1. ~(j <= n)
      BY <1>1, <1>6, <2>3
    <3> QED BY <1>4, <2>3, <3>1 DEF Overtakes
  <2> QED BY <2>1, <2>2, <2>3
<1> HIDE DEF N, n
<1>7. m.slot # None => m.slot.walk = m.walk
  OBVIOUS
<1> QED BY <1>2, <1>5, <1>6, <1>7 DEF Paced

\* One connection moves, and the others keep their places.
LEMMA OneWalks ==
    ASSUME IInv, Walks, NEW c \in Conns, NEW m, Paced(m), conns' = [conns EXCEPT ![c] = m],
           \A d \in Conns \ {c} :
             conns[d].slot \in ToSet(waiting') <=> conns[d].slot \in ToSet(waiting),
           after' = after \/ after \union after' \subseteq {c}, down' = down,
           c \in after' \/ m.slot \in ToSet(waiting') => m.step = None,
           m.up /\ m.queue # <<>> =>
             \/ c \in after' \/ m.slot \in ToSet(waiting')
             \/ Unsent(m) \/ m.timer = "deadline" \/ down
    PROVE  Walks'
<1>1. \A a, b \in after' : a = b
  BY DEF Walks
<1>2. conns'[c] = m /\ \A d \in Conns \ {c} : conns'[d] = conns[d]
  BY InvTypes
<1>3. ASSUME NEW d \in Conns, d # c
      PROVE  /\ Paced(conns'[d])
             /\ d \in after' \/ conns'[d].slot \in ToSet(waiting') => conns'[d].step = None
             /\ conns'[d].up /\ conns'[d].queue # <<>> =>
                  \/ d \in after' \/ conns'[d].slot \in ToSet(waiting')
                  \/ Unsent(conns'[d]) \/ conns'[d].timer = "deadline" \/ down'
  <2> DEFINE k == conns[d]
  <2>1. Paced(k) /\ Carried(d)
    BY DEF Walks
  <2>2. conns'[d] = k /\ (d \in after <=> d \in after')
    BY <1>2, <1>3
  <2>3. k.slot \in ToSet(waiting') <=> k.slot \in ToSet(waiting)
    BY <1>3
  <2> HIDE DEF k
  <2> DEFINE k1 == conns'[d]
  <2>4. k1 = k
    BY <2>2
  <2> HIDE DEF k1
  <2>5. /\ Paced(k1)
        /\ d \in after' \/ k1.slot \in ToSet(waiting') => k1.step = None
        /\ k1.up /\ k1.queue # <<>> =>
             \/ d \in after' \/ k1.slot \in ToSet(waiting')
             \/ Unsent(k1) \/ k1.timer = "deadline" \/ down'
    BY <2>1, <2>2, <2>3, <2>4 DEF Carried, k
  <2> QED BY <2>5 DEF k1
<1>4. /\ Paced(conns'[c])
      /\ c \in after' \/ conns'[c].slot \in ToSet(waiting') => conns'[c].step = None
      /\ conns'[c].up /\ conns'[c].queue # <<>> =>
           \/ c \in after' \/ conns'[c].slot \in ToSet(waiting')
           \/ Unsent(conns'[c]) \/ conns'[c].timer = "deadline" \/ down'
  BY <1>2
<1> QED BY <1>1, <1>3, <1>4 DEF Walks, Carried

\* What leaves or joins the line for one connection's sake is not another's.
LEMMA OthersWait ==
    ASSUME IInv, ~down, NEW c \in Conns, waiting' \in Seq(Entry), NEW D,
           \A e \in D : e = None \/ e.conn = c,
           ToSet(waiting') \ D = ToSet(waiting) \ D
    PROVE  \A d \in Conns \ {c} :
             conns[d].slot \in ToSet(waiting') <=> conns[d].slot \in ToSet(waiting)
<1>1. None \notin ToSet(waiting')
  BY NoneIsNoEntry DEF ToSet
<1>2. None \notin ToSet(waiting)
  BY InvTypes DEF AtTheGate
<1>3. \A d \in Conns : conns[d].slot # None => conns[d].slot.conn = d
  BY DEF IInv, Owned, Core
<1>4. ASSUME NEW d \in Conns, d # c
      PROVE  conns[d].slot \in ToSet(waiting') <=> conns[d].slot \in ToSet(waiting)
  <2> DEFINE x == conns[d].slot
  <2>1. x = None \/ x \notin D
    BY <1>3, <1>4
  <2> QED BY <1>1, <1>2, <2>1
<1> QED BY <1>4

\* A connection's own reservation is no other's.
LEMMA OwnSlot ==
    ASSUME IInv, ~down, NEW c \in Conns
    PROVE  conns[c].slot = None \/ conns[c].slot.conn = c
  BY DEF IInv, Owned, Core

\* A step that leaves the gate and the pacer alone.
LEMMA AloneWalks ==
    ASSUME IInv, Walks, NEW c \in Conns, NEW m \in Connection,
           conns' = [conns EXCEPT ![c] = m], UNCHANGED <<waiting, after, down>>,
           m.up = conns[c].up, m.walk = conns[c].walk, m.slot = conns[c].slot,
           m.step = conns[c].step, m.queue = conns[c].queue, m.out = conns[c].out,
           m.cut = conns[c].cut, m.timer = conns[c].timer,
           \A i \in DOMAIN m.out : m.out[i].entry = m.step => m.out[i].ask \in m.owed
    PROVE  Walks'
<1> DEFINE k == conns[c]
<1>1. k \in Connection /\ Paced(k) /\ Carried(c)
  BY InvTypes DEF Walks
<1>2. /\ m.up = k.up /\ m.walk = k.walk /\ m.slot = k.slot /\ m.step = k.step
      /\ m.queue = k.queue /\ m.out = k.out /\ m.cut = k.cut /\ m.timer = k.timer
  OBVIOUS
<1>3. Unsent(m) <=> Unsent(k)
  BY <1>2 DEF Unsent
<1>4. /\ c \in after' \/ m.slot \in ToSet(waiting') => m.step = None
      /\ m.up /\ m.queue # <<>> =>
           \/ c \in after' \/ m.slot \in ToSet(waiting')
           \/ Unsent(m) \/ m.timer = "deadline" \/ down
  BY <1>1, <1>2, <1>3 DEF Carried
<1>6. /\ ~m.up => m.step = None
      /\ m.slot = None \/ m.slot.walk = m.walk
  BY <1>1, <1>2 DEF Paced
<1> HIDE DEF k
<1>5. Paced(m)
  BY <1>1, <1>2, <1>6, PacedKept
<1>7. \A d \in Conns \ {c} :
        conns[d].slot \in ToSet(waiting') <=> conns[d].slot \in ToSet(waiting)
  OBVIOUS
<1> QED BY <1>4, <1>5, <1>7, OneWalks

\* A step ends, and the walk goes on or the connection is gone.
LEMMA EndStepWalks ==
    ASSUME IInv, IInv', Walks, NEW c \in Conns, NEW k \in Connection, NEW go \in BOOLEAN,
           EndStep(c, k, go), after = {}, down' = down, k.slot = conns[c].slot, Paced(k),
           k.up /\ Unsent(k) => k.step \in k.cut, k.up => go
    PROVE  Walks'
<1> DEFINE m == StepEnded(k)
<1>1. /\ conns' = [conns EXCEPT ![c] = m] /\ after' = IF go THEN {c} ELSE {}
      /\ waiting' = Released(k.slot).waiting /\ active' = Released(k.slot).active
  BY DEF EndStep
<1>2. m.slot = None /\ m.up = k.up /\ Paced(m) /\ m.step = None
  BY StepEndedType, StepEndedPaced
<1> HIDE DEF m
<1>3. \A d \in Conns \ {c} :
        conns[d].slot \in ToSet(waiting') <=> conns[d].slot \in ToSet(waiting)
  <2>1. CASE down
    <3>1. waiting = <<>> /\ waiting' = <<>>
      BY <2>1 DEF IInv, Owned, Stopped
    <3> QED BY <3>1
  <2>2. CASE ~down
    <3>1. waiting' \in Seq(Entry) /\ ToSet(waiting') = ToSet(waiting) \ {conns[c].slot}
      BY <1>1, Releasing DEF GateOK
    <3>2. \A e \in {conns[c].slot} : e = None \/ e.conn = c
      BY <2>2, OwnSlot
    <3>3. ToSet(waiting') \ {conns[c].slot} = ToSet(waiting) \ {conns[c].slot}
      BY <3>1
    <3> QED BY <2>2, <3>1, <3>2, <3>3, OthersWait
  <2> QED BY <2>1, <2>2
<1>4. m.up => c \in after'
  BY <1>1, <1>2
<1>5. after \union after' \subseteq {c}
  BY <1>1
<1> QED BY <1>1, <1>2, <1>3, <1>4, <1>5, OneWalks

\* A KICK or PART leaves the walk where it was.
LEMMA LeavesWalks ==
    ASSUME IInv, Walks, NEW c \in Conns, NEW ch \in Chans, Leaves(c, ch)
    PROVE  Walks'
<1> DEFINE k == conns[c]
           m == [k EXCEPT !.joined = @ \ {ch}]
<1>1. k \in Connection /\ Paced(k)
  BY InvTypes DEF Walks
<1>2. conns' = [conns EXCEPT ![c] = m] /\ UNCHANGED <<waiting, after, down>>
  BY DEF Leaves
<1>3. /\ m \in Connection /\ m.up = k.up /\ m.walk = k.walk /\ m.slot = k.slot
      /\ m.step = k.step /\ m.queue = k.queue /\ m.out = k.out /\ m.cut = k.cut
      /\ m.timer = k.timer /\ m.owed = k.owed
  <2> HIDE DEF k
  <2> QED BY <1>1 DEF Connection
<1> HIDE DEF m
<1>4. \A i \in DOMAIN m.out : m.out[i].entry = m.step => m.out[i].ask \in m.owed
  BY <1>1, <1>3 DEF Paced, Told
<1> QED BY <1>2, <1>3, <1>4, AloneWalks

\* A numeric the server skips leaves the walk where it was.
LEMMA SkipsWalks ==
    ASSUME IInv, Walks, NEW c \in Conns, Skips(c)
    PROVE  Walks'
<1> DEFINE k == conns[c]
           w == Tail(k.wire)
           m == [k EXCEPT !.wire = w]
<1>1. k \in Connection /\ Paced(k)
  BY InvTypes DEF Walks
<1>2. conns' = [conns EXCEPT ![c] = m] /\ UNCHANGED <<waiting, after, down>>
  BY DEF Skips
<1>3. w \in Seq(Request)
  <2>1. k.wire \in Seq(Request) /\ k.wire # <<>>
    BY <1>1 DEF Connection, Skips
  <2> HIDE DEF k
  <2> QED BY <2>1, HeadTailProperties
<1> HIDE DEF w
<1>4. /\ m \in Connection /\ m.up = k.up /\ m.walk = k.walk /\ m.slot = k.slot
      /\ m.step = k.step /\ m.queue = k.queue /\ m.out = k.out /\ m.cut = k.cut
      /\ m.timer = k.timer /\ m.owed = k.owed
  <2> HIDE DEF k
  <2> QED BY <1>1, <1>3 DEF Connection
<1> HIDE DEF m
<1>5. \A i \in DOMAIN m.out : m.out[i].entry = m.step => m.out[i].ask \in m.owed
  BY <1>1, <1>4 DEF Paced, Told
<1> QED BY <1>2, <1>4, <1>5, AloneWalks

\* What is left of the pacer once its oldest request has gone.
LEMMA PacedTail ==
    ASSUME NEW k \in Connection, Paced(k), k.out # <<>>, NEW m \in Connection,
           m.out = Tail(k.out), m.cut = k.cut, m.walk = k.walk, m.up = k.up,
           m.step = k.step, m.owed = k.owed, m.slot = k.slot,
           m.timer = "deadline" => k.timer = "deadline" \/ ~Unsent(m)
    PROVE  /\ Paced(m)
           /\ Unsent(m) => Unsent(k)
           /\ Unsent(k) => Unsent(m) \/ k.step = Head(k.out).entry
<1> DEFINE n == Len(k.out)
<1>1. /\ n \in Nat /\ DOMAIN k.out = 1 .. n
      /\ DOMAIN m.out = 1 .. n - 1 /\ Head(k.out) = k.out[1]
      /\ \A i \in 1 .. n - 1 : m.out[i] = k.out[i + 1]
  BY OutIs, HeadTailProperties, LenProperties
<1>2. \A i \in 1 .. n - 1 : i + 1 \in 1 .. n
  BY <1>1
<1> HIDE DEF n
<1>3. ASSUME NEW i \in DOMAIN m.out PROVE Told(m, m.out[i])
  <2>1. Told(k, m.out[i])
    BY <1>1, <1>2 DEF Paced
  <2> QED BY <2>1 DEF Told
<1>4. ASSUME NEW i \in DOMAIN m.out, NEW j \in DOMAIN m.out, i < j
      PROVE  Overtakes(m, m.out[i], m.out[j])
  <2>1. i + 1 \in 1 .. n /\ j + 1 \in 1 .. n /\ i + 1 < j + 1
    BY <1>1, <1>4
  <2>2. Overtakes(k, m.out[i], m.out[j])
    BY <1>1, <2>1 DEF Paced
  <2> QED BY <2>2 DEF Overtakes
<1>5. Unsent(m) => Unsent(k)
  BY <1>1, <1>2 DEF Unsent
<1>6. Unsent(k) => Unsent(m) \/ k.step = Head(k.out).entry
  <2> SUFFICES ASSUME Unsent(k), k.step # Head(k.out).entry PROVE Unsent(m)
    OBVIOUS
  <2>1. PICK i \in 1 .. n : k.step # None /\ k.out[i].entry = k.step
    BY <1>1 DEF Unsent
  <2>2. i # 1
    BY <1>1, <2>1
  <2>3. i - 1 \in 1 .. n - 1 /\ m.out[i - 1] = k.out[i]
    BY <1>1, <2>2
  <2> QED BY <1>1, <2>1, <2>3 DEF Unsent
<1>7. (~m.up => m.step = None) /\ (m.slot # None => m.slot.walk = m.walk)
  BY DEF Paced
<1>8. m.timer = "deadline" => ~Unsent(m)
  BY <1>5 DEF Paced
<1>9. Paced(m)
  BY <1>3, <1>4, <1>7, <1>8 DEF Paced
<1> QED BY <1>5, <1>6, <1>9

\* The step's last request to go starts the deadline that carries the walk.
LEMMA SendsWalks ==
    ASSUME IInv, Walks, NEW c \in Conns, Sends(c)
    PROVE  Walks'
<1> DEFINE k == conns[c]
           o == Tail(k.out)
           w == Append(k.wire, Head(k.out))
           s == [k EXCEPT !.out = o, !.wire = w]
           last == k.step = Head(k.out).entry /\ ~Unsent(s)
           m == IF last THEN DeadlineArmed(s) ELSE s
<1>1. k \in Connection /\ Paced(k) /\ Carried(c) /\ k.out # <<>>
  BY InvTypes DEF Walks, Sends
<1>2. o \in Seq(Request) /\ w \in Seq(Request)
  <2>1. k.out \in Seq(Request) /\ k.out # <<>> /\ k.wire \in Seq(Request)
    BY <1>1 DEF Connection
  <2> HIDE DEF k
  <2>2. Head(k.out) \in Request /\ o \in Seq(Request)
    BY <2>1, HeadTailProperties
  <2> QED BY <2>1, <2>2
<1>3. conns' = [conns EXCEPT ![c] = m] /\ UNCHANGED <<waiting, after, down>>
  BY DEF Sends
<1> DEFINE Same(x) == /\ x \in Connection /\ x.up = k.up /\ x.walk = k.walk
                      /\ x.slot = k.slot /\ x.step = k.step /\ x.queue = k.queue
                      /\ x.out = o /\ x.cut = k.cut /\ x.owed = k.owed
<1> HIDE DEF o, w
<1>4. Same(s) /\ s.timer = k.timer
  <2> HIDE DEF k
  <2> QED BY <1>1, <1>2 DEF Connection
<1> HIDE DEF s
<1>u. last <=> k.step = Head(k.out).entry /\ ~Unsent(s)
  OBVIOUS
<1> HIDE DEF last
<1>5. Same(m) /\ m.timer = IF last THEN "deadline" ELSE k.timer
  <2> HIDE DEF k
  <2> QED BY <1>4 DEF Connection, DeadlineArmed
<1> HIDE DEF m, k
<1>6. Unsent(m) <=> Unsent(s)
  BY <1>4, <1>5 DEF Unsent
<1>7. /\ Paced(m)
      /\ Unsent(k) => Unsent(m) \/ k.step = Head(k.out).entry
  <2>1. m.timer = "deadline" => k.timer = "deadline" \/ ~Unsent(m)
    BY <1>5, <1>6, <1>u
  <2> QED BY <1>1, <1>5, <2>1, PacedTail DEF o
<1>8. Unsent(k) => Unsent(m) \/ m.timer = "deadline"
  BY <1>5, <1>6, <1>7, <1>u
<1>9. k.timer = "deadline" => m.timer = "deadline"
  BY <1>5
<1>10. /\ c \in after' \/ m.slot \in ToSet(waiting') => m.step = None
       /\ m.up /\ m.queue # <<>> =>
            \/ c \in after' \/ m.slot \in ToSet(waiting')
            \/ Unsent(m) \/ m.timer = "deadline" \/ down
  BY <1>1, <1>3, <1>5, <1>8, <1>9 DEF Carried, k
<1>11. \A d \in Conns \ {c} :
         conns[d].slot \in ToSet(waiting') <=> conns[d].slot \in ToSet(waiting)
  BY <1>3
<1> QED BY <1>3, <1>7, <1>10, <1>11, OneWalks

\* At the deadline nothing of the step is with the pacer, and the walk goes on.
LEMMA DeadlineWalks ==
    ASSUME IInv, IInv', Walks, NEW c \in Conns, DeadlinePasses(c)
    PROVE  Walks'
<1> DEFINE k == conns[c]
<1>1. k \in Connection /\ Paced(k) /\ k.timer = "deadline"
  BY InvTypes DEF Walks, DeadlinePasses
<1>2. EndStep(c, k, TRUE) /\ after = {} /\ down' = down
  BY DEF DeadlinePasses, Quiet
<1>3. ~Unsent(k)
  BY <1>1 DEF Paced
<1> QED BY <1>1, <1>2, <1>3, EndStepWalks

\* A step whose turn goes back still has its requests with the pacer.
LEMMA SlotCapWalks ==
    ASSUME IInv, IInv', Walks, NEW c \in Conns, SlotCapPasses(c)
    PROVE  Walks'
<1> DEFINE k == conns[c]
           m == [k EXCEPT !.slot = None, !.timer = "none"]
<1>1. k \in Connection /\ Sound(k) /\ Paced(k) /\ Carried(c) /\ k.timer = "slot"
  BY InvTypes DEF IInv, Owned, Walks, SlotCapPasses
<1>2. k.up /\ ~down /\ k.step # None
  BY <1>1, NotGoingDown DEF SlotCapPasses, Sound
<1>3. /\ conns' = [conns EXCEPT ![c] = m] /\ after' = after /\ down' = down
      /\ waiting' = Released(conns[c].slot).waiting
      /\ active' = Released(conns[c].slot).active
  <2>1. conns' = [conns EXCEPT ![c].slot = None, ![c].timer = "none"]
    BY DEF SlotCapPasses, SlotTimerFires
  <2>2. conns' = [conns EXCEPT ![c] = m]
    BY <2>1, InvTypes
  <2>3. SlotTimerFires(c, conns[c]) /\ down' = down
    BY DEF SlotCapPasses
  <2> HIDE DEF m
  <2> QED BY <2>2, <2>3 DEF SlotTimerFires
<1>4. /\ m \in Connection /\ m.slot = None /\ m.timer = "none" /\ m.up = k.up
      /\ m.walk = k.walk /\ m.step = k.step /\ m.queue = k.queue /\ m.out = k.out
      /\ m.cut = k.cut /\ m.owed = k.owed
  <2> HIDE DEF k
  <2> QED BY <1>1 DEF Connection
<1> HIDE DEF m
<1>5. Unsent(m) <=> Unsent(k)
  BY <1>4 DEF Unsent
<1>6. \A i \in DOMAIN m.out : m.out[i].entry = m.step => m.out[i].ask \in m.owed
  BY <1>1, <1>4 DEF Paced, Told
<1>7. waiting' \in Seq(Entry) /\ ToSet(waiting') = ToSet(waiting) \ {conns[c].slot}
  BY <1>3, Releasing DEF GateOK
<1>8. None \notin ToSet(waiting')
  BY <1>7, NoneIsNoEntry DEF ToSet
<1>9. c \notin after /\ k.slot \notin ToSet(waiting)
  BY <1>1, <1>2 DEF Carried
<1>10. /\ c \in after' \/ m.slot \in ToSet(waiting') => m.step = None
       /\ m.up /\ m.queue # <<>> => Unsent(m)
  BY <1>1, <1>2, <1>3, <1>4, <1>5, <1>8, <1>9 DEF Carried
<1>11. \A d \in Conns \ {c} :
         conns[d].slot \in ToSet(waiting') <=> conns[d].slot \in ToSet(waiting)
  <2>1. \A e \in {conns[c].slot} : e = None \/ e.conn = c
    BY <1>2, OwnSlot
  <2>2. ToSet(waiting') \ {conns[c].slot} = ToSet(waiting) \ {conns[c].slot}
    BY <1>7
  <2> QED BY <1>2, <1>7, <2>1, <2>2, OthersWait
<1>12. Paced(m)
  <2>1. ~m.up => m.step = None
    BY <1>2, <1>4
  <2> HIDE DEF k
  <2> QED BY <1>1, <1>4, <1>6, <2>1, PacedKept
<1> QED BY <1>3, <1>10, <1>11, <1>12, OneWalks

\* noteRestoreReply: a step whose last answer comes has nothing with the pacer;
\* one that is refused is cut short.
LEMMA AnswersWalks ==
    ASSUME IInv, IInv', Walks, NEW c \in Conns, NEW refused \in BOOLEAN, Answers(c, refused)
    PROVE  Walks'
<1> DEFINE k == conns[c]
           q == Head(k.wire)
           w == Tail(k.wire)
           r == [k EXCEPT !.wire = w]
           mine == k.step # None /\ k.step.chan = q.entry.chan
                     /\ \A i \in DOMAIN k.out : k.out[i] # [entry |-> k.step, ask |-> q.ask]
           owed == IF refused THEN {} ELSE k.owed \ {q.ask}
           cut == k.cut \union {k.step}
           s == IF refused THEN [r EXCEPT !.cut = cut] ELSE r
           m == IF mine THEN [r EXCEPT !.owed = owed] ELSE r
<1>1. k \in Connection /\ Paced(k) /\ k.up
  BY InvTypes DEF Walks, Answers
<1>2. after = {} /\ down' = down
  BY DEF Answers, Quiet
<1>3. w \in Seq(Request)
  <2>1. k.wire \in Seq(Request) /\ k.wire # <<>>
    BY <1>1 DEF Connection, Answers
  <2> HIDE DEF k
  <2> QED BY <2>1, HeadTailProperties
<1>4. owed \in SUBSET ToSet(Requests)
  BY <1>1 DEF Connection
<1>5. mine => cut \in SUBSET Entry
  BY <1>1 DEF Connection
<1>6. IF mine /\ owed = {}
      THEN EndStep(c, s, TRUE)
      ELSE conns' = [conns EXCEPT ![c] = m] /\ UNCHANGED <<waiting, active, pumping, after>>
  <2>1. s = IF refused THEN [r EXCEPT !.cut = @ \union {k.step}] ELSE r
    OBVIOUS
  <2> HIDE DEF s
  <2> QED BY <2>1, Zenon DEF Answers
\* What the pacer still has of this step is owed all the same.
<1>7. ASSUME mine, ~refused, NEW i \in DOMAIN k.out, k.out[i].entry = k.step
      PROVE  k.out[i].ask \in owed
  <2>1. k.out[i].ask \in k.owed
    BY <1>1, <1>7 DEF Paced, Told
  <2>2. k.out[i] = [entry |-> k.step, ask |-> k.out[i].ask]
    <3>1. k.out \in Seq(Request)
      BY <1>1, OutIs
    <3>2. k.out[i] \in Request
      BY <3>1
    <3> QED BY <1>7, <3>2 DEF Request
  <2>3. k.out[i].ask # q.ask
    BY <1>7, <2>2
  <2> QED BY <1>7, <2>1, <2>3
<1> HIDE DEF w, mine
<1>8. CASE mine /\ owed = {}
  <2> DEFINE Same(x) == /\ x \in Connection /\ x.up = k.up /\ x.walk = k.walk
                        /\ x.slot = k.slot /\ x.step = k.step /\ x.out = k.out
                        /\ x.owed = k.owed /\ x.timer = k.timer
  <2>1. Same(s) /\ k.cut \subseteq s.cut /\ (refused => k.step \in s.cut)
    <3> HIDE DEF k, cut
    <3>1. Same(r) /\ r.cut = k.cut
      BY <1>1, <1>3 DEF Connection
    <3> HIDE DEF r
    <3>2. CASE refused
      <4>1. Same(s) /\ s.cut = cut
        BY <1>5, <1>8, <3>1, <3>2 DEF Connection
      <4> QED BY <4>1 DEF cut
    <3>3. CASE ~refused
      BY <3>1, <3>3
    <3> QED BY <3>2, <3>3
  <2> HIDE DEF s
  <2>2. \A i \in DOMAIN s.out : s.out[i].entry = s.step => s.out[i].ask \in s.owed
    BY <1>1, <2>1 DEF Paced, Told
  <2>3. (s.slot = None \/ s.slot.walk = s.walk) /\ s.up
    BY <1>1, <2>1 DEF Paced
  <2>4. Unsent(s) => s.step \in s.cut
    <3>1. CASE refused
      BY <2>1, <3>1
    <3>2. CASE ~refused
      <4>1. \A i \in DOMAIN k.out : k.out[i].entry # k.step
        BY <1>7, <1>8, <3>2
      <4> QED BY <2>1, <4>1 DEF Unsent
    <3> QED BY <3>1, <3>2
  <2>5. EndStep(c, s, TRUE)
    BY <1>6, <1>8
  <2>6. s.slot = conns[c].slot
    BY <2>1
  <2> HIDE DEF k
  <2>7. Paced(s)
    BY <1>1, <2>1, <2>2, <2>3, PacedKept
  <2> QED BY <1>2, <2>1, <2>4, <2>5, <2>6, <2>7, EndStepWalks
<1>9. CASE ~ (mine /\ owed = {})
  <2> DEFINE Same(x) == /\ x \in Connection /\ x.up = k.up /\ x.walk = k.walk
                        /\ x.slot = k.slot /\ x.step = k.step /\ x.queue = k.queue
                        /\ x.out = k.out /\ x.cut = k.cut /\ x.timer = k.timer
  <2>1. Same(m) /\ m.owed = IF mine THEN owed ELSE k.owed
    <3> HIDE DEF k, owed
    <3>1. Same(r) /\ r.owed = k.owed
      BY <1>1, <1>3 DEF Connection
    <3> HIDE DEF r
    <3> QED BY <1>4, <3>1 DEF Connection
  <2> HIDE DEF m
  <2>2. ASSUME NEW i \in DOMAIN m.out, m.out[i].entry = m.step PROVE m.out[i].ask \in m.owed
    <3>1. CASE mine
      <4>1. ~refused
        BY <1>9, <3>1
      <4> QED BY <1>7, <2>1, <2>2, <3>1, <4>1
    <3>2. CASE ~mine
      BY <1>1, <2>1, <2>2, <3>2 DEF Paced, Told
    <3> QED BY <3>1, <3>2
  <2>3. conns' = [conns EXCEPT ![c] = m] /\ UNCHANGED <<waiting, after, down>>
    BY <1>2, <1>6, <1>9
  <2> QED BY <2>1, <2>2, <2>3, AloneWalks
<1> QED BY <1>8, <1>9

\* resetRestoreState: nothing is left of the walk but what outlives the close.
LEMMA ClosedWalks ==
    ASSUME IInv, IInv', Walks, NEW c \in Conns, Closed(c), after = {}, down' = down
    PROVE  Walks'
<1> DEFINE k == conns[c]
<1>1. k \in Connection /\ Paced(k)
  BY InvTypes DEF Walks
<1>2. PICK m \in Connection :
         /\ EndStep(c, m, FALSE)
         /\ m.slot = conns[c].slot /\ ~m.up /\ m.joined = {}
         /\ m.walk = conns[c].walk /\ m.step = None /\ m.timer = "none"
         /\ m.out = <<>>
  BY ClosedType
<1>3. m.slot = None \/ m.slot.walk = m.walk
  BY <1>1, <1>2 DEF Paced
<1>4. DOMAIN m.out = {}
  BY <1>2
<1> QED BY <1>2, <1>3, <1>4, EndStepWalks DEF Paced

\* A new walk: what the pacer has is of walks before.
LEMMA RestoredWalks ==
    ASSUME IInv, Walks, NEW c \in Conns, Restored(c)
    PROVE  Walks'
<1> DEFINE k == conns[c]
<1>1. k \in Connection /\ Paced(k) /\ ~k.up /\ k.timer = "none" /\ k.slot = None
  BY InvTypes DEF IInv, Owned, Core, Sound, Walks, Restored
<1>2. PICK q \in SeqOf(Chans, Cardinality(Chans)) :
         conns' = [conns EXCEPT ![c].up = TRUE, ![c].walk = @ + 1,
                                ![c].joined = ToSet(q), ![c].queue = q]
  BY DEF Restored
<1> DEFINE w == k.walk + 1
           j == ToSet(q)
           m == [k EXCEPT !.up = TRUE, !.walk = w, !.joined = j, !.queue = q]
<1>3. conns' = [conns EXCEPT ![c] = m]
  BY <1>2, InvTypes
<1>4. /\ m.up /\ m.walk = w /\ m.slot = None /\ m.step = k.step /\ m.out = k.out
      /\ m.timer = "none"
  <2> HIDE DEF k, w, j
  <2> QED BY <1>1 DEF Connection
<1> HIDE DEF m
<1>5. m.step = None
  BY <1>1, <1>4 DEF Paced
<1>6. \A i \in DOMAIN m.out : m.out[i].entry # None /\ m.out[i].entry.walk \in Int
  <2>1. \A i \in DOMAIN m.out : m.out[i].entry \in Entry
    BY <1>1, <1>4, OutIs
  <2>2. \A e \in Entry : e.walk \in Int
    BY DEF Entry
  <2> QED BY <2>1, <2>2, NoneIsNoEntry
<1>7. k.walk \in Int
  BY <1>1, OutIs
<1>8. ASSUME NEW i \in DOMAIN m.out PROVE Told(m, m.out[i])
  <2> DEFINE e == m.out[i].entry
  <2>1. Told(k, m.out[i])
    BY <1>1, <1>4 DEF Paced
  <2>2. e.walk <= k.walk /\ e.walk \in Int /\ e # None
    BY <1>6, <2>1 DEF Told
  <2> HIDE DEF e, k
  <2>3. e.walk <= m.walk /\ e.walk # m.walk /\ e # m.step
    BY <1>4, <1>5, <1>7, <2>2
  <2> QED BY <2>3 DEF Told, e
<1>9. ASSUME NEW a \in DOMAIN m.out, NEW b \in DOMAIN m.out, a < b
      PROVE  Overtakes(m, m.out[a], m.out[b])
  <2>1. m.cut = k.cut
    BY <1>3, InvTypes DEF Connection, m
  <2>2. Overtakes(k, m.out[a], m.out[b])
    BY <1>1, <1>4, <1>9 DEF Paced
  <2> HIDE DEF k
  <2> QED BY <2>1, <2>2 DEF Overtakes
<1>10. Paced(m)
  BY <1>4, <1>5, <1>8, <1>9 DEF Paced
<1>11. after = {} /\ after' = {c} /\ waiting' = waiting /\ down' = down
  BY DEF Restored, Quiet
<1> QED BY <1>3, <1>5, <1>10, <1>11, OneWalks

\* drainRestoreQueue past the end of a step: what is left of the walk, if
\* anything, waits in line.
LEMMA AdvanceWalks ==
    ASSUME IInv, IInv', ~down, down' = down, Walks, NEW c \in Conns,
           NEW s \in Connection, Paced(s), s.up, s.slot = None, s.timer = "none",
           s.step = None, s.walk \in 1 .. MaxWalks,
           NEW line \in Seq(Entry), NEW a, a = Advanced(c, s, line),
           conns' = [conns EXCEPT ![c] = a.k], waiting' = a.line,
           ToSet(line) \ {conns[c].slot} = ToSet(waiting) \ {conns[c].slot},
           after' = after \/ after \union after' \subseteq {c}
    PROVE  Walks'
<1> DEFINE m == a.k
<1>1. GoesOn(c, s, line, a)
  BY AdvancedType
<1>2. /\ m \in Connection /\ m.up = s.up /\ m.walk = s.walk /\ m.timer = s.timer
      /\ m.step = s.step /\ m.out = s.out /\ m.cut = s.cut
      /\ \/ m.slot = None /\ a.line = line /\ m.queue = <<>>
         \/ \E e \in Entry : /\ e.conn = c /\ e.walk = s.walk
                             /\ m.slot = e /\ a.line = Append(line, e)
  BY <1>1 DEF GoesOn
<1>c. conns' = [conns EXCEPT ![c] = m]
  OBVIOUS
<1> HIDE DEF m
<1>3. /\ m.slot = None \/ m.slot.walk = m.walk
      /\ m.queue # <<>> => m.slot \in ToSet(waiting')
      /\ \E e : (e = None \/ e.conn = c) /\ ToSet(waiting') \ {e} = ToSet(line) \ {e}
  <2>1. CASE m.slot = None /\ a.line = line /\ m.queue = <<>>
    BY <2>1
  <2>2. ASSUME NEW e \in Entry, e.conn = c, e.walk = s.walk, m.slot = e,
               a.line = Append(line, e)
        PROVE  <1>3!:
    <3>1. ToSet(waiting') = ToSet(line) \union {e}
      <4>1. /\ Len(line) \in Nat /\ DOMAIN line = 1 .. Len(line)
            /\ DOMAIN Append(line, e) = 1 .. Len(line) + 1
            /\ \A i \in 1 .. Len(line) : Append(line, e)[i] = line[i]
            /\ Append(line, e)[Len(line) + 1] = e
        OBVIOUS
      <4> QED BY <2>2, <4>1 DEF ToSet
    <3> QED BY <1>2, <2>2, <3>1
  <2> QED BY <1>2, <2>1, <2>2
<1>4. Paced(m)
  <2>1. ~m.up => m.step = None
    BY <1>2
  <2> QED BY <1>2, <1>3, <2>1, PacedKept
<1>5. \A d \in Conns \ {c} :
        conns[d].slot \in ToSet(waiting') <=> conns[d].slot \in ToSet(waiting)
  <2>1. PICK e : (e = None \/ e.conn = c) /\ ToSet(waiting') \ {e} = ToSet(line) \ {e}
    BY <1>3
  <2> DEFINE D == {e, conns[c].slot}
  <2>2. \A x \in D : x = None \/ x.conn = c
    BY <2>1, OwnSlot
  <2>3. ToSet(waiting') \ D = ToSet(waiting) \ D
    BY <2>1
  <2>4. waiting' \in Seq(Entry)
    BY InvTypes DEF IInv, TypeOK
  <2> HIDE DEF D
  <2> QED BY <2>2, <2>3, <2>4, OthersWait
<1>6. m.step = None
  BY <1>2
<1> QED BY <1>3, <1>4, <1>5, <1>6, <1>c, OneWalks

\* A walk that goes on has no step in flight.
LEMMA GoOnWalks ==
    ASSUME IInv, IInv', Walks, NEW c \in Conns, GoOn(c)
    PROVE  Walks'
<1> DEFINE k == conns[c]
           a == Advanced(c, k, waiting)
<1>1. k \in Connection /\ Paced(k) /\ Carried(c) /\ Sound(k)
  BY InvTypes DEF IInv, Owned, Walks
<1>2. /\ c \in after /\ after' = {} /\ conns' = [conns EXCEPT ![c] = a.k]
      /\ waiting' = a.line /\ down' = down
  BY DEF GoOn
<1>3. ~down /\ k.slot = None /\ k.up
  BY <1>2 DEF IInv, Owned, Core, Stopped
<1>4. k.step = None /\ k.timer = "none"
  BY <1>1, <1>2 DEF Carried, Sound
<1>5. k.walk \in 1 .. MaxWalks
  BY <1>1, <1>3 DEF Connection, Sound
<1>6. after \union after' \subseteq {c}
  BY <1>2 DEF Walks
<1>7. waiting \in Seq(Entry)
  BY InvTypes DEF GateOK
<1> HIDE DEF a
<1> DEFINE s == k
<1>8. /\ s \in Connection /\ Paced(s) /\ s.up /\ s.slot = None /\ s.timer = "none"
      /\ s.step = None /\ s.walk \in 1 .. MaxWalks /\ a = Advanced(c, s, waiting)
  BY <1>1, <1>3, <1>4, <1>5 DEF a
<1> HIDE DEF s
<1> QED BY <1>2, <1>3, <1>6, <1>7, <1>8, AdvanceWalks

\* A turn that asks nothing.
LEMMA PassesOverWalks ==
    ASSUME IInv, IInv', Walks, Grant, NEW e, e = Head(waiting),
           NEW k \in Connection, k.up, k.walk = conns[e.conn].walk, k.step = None,
           Paced(k), PassesOver(e, k)
    PROVE  Walks'
<1> DEFINE c == e.conn
           s == StepEnded(k)
           a == Advanced(c, s, Tail(waiting))
<1>1. pumping /\ waiting # <<>> /\ UNCHANGED <<after, down>>
  BY DEF Grant
<1>2. /\ ~down /\ c \in Conns /\ conns[c].slot = e /\ conns[c].up /\ Sound(conns[c])
      /\ Tail(waiting) \in Seq(Entry) /\ ToSet(Tail(waiting)) = ToSet(waiting) \ {e}
  BY <1>1, HeadIsOwned
<1>3. /\ s \in Connection /\ s.slot = None /\ s.timer = "none"
      /\ s.up = k.up /\ s.walk = k.walk
  BY StepEndedType
<1>4. Paced(s) /\ s.step = None
  <2>1. ~Unsent(k)
    BY DEF Unsent
  <2> QED BY <2>1, StepEndedPaced
<1>5. conns' = [conns EXCEPT ![c] = a.k] /\ waiting' = a.line
  BY DEF PassesOver
<1> HIDE DEF s
<1>6. s.walk \in 1 .. MaxWalks
  BY <1>2, <1>3 DEF Connection, Sound
<1>7. ToSet(Tail(waiting)) \ {conns[c].slot} = ToSet(waiting) \ {conns[c].slot}
  BY <1>2
<1> DEFINE line == Tail(waiting)
<1>8. a = Advanced(c, s, line) /\ line \in Seq(Entry)
      /\ ToSet(line) \ {conns[c].slot} = ToSet(waiting) \ {conns[c].slot}
  BY <1>2, <1>7
<1> HIDE DEF a, c, line
<1> QED BY <1>1, <1>2, <1>3, <1>4, <1>5, <1>6, <1>8, AdvanceWalks

\* What is put behind the pacer does not move what it has.
LEMMA BehindThePacer ==
    ASSUME NEW s \in Seq(Request), NEW t \in Seq(Request), NEW o, o = s \o t
    PROVE  /\ Len(o) = Len(s) + Len(t) /\ o \in Seq(Request)
           /\ \A i \in 1 .. Len(s) + Len(t) : o[i] = IF i <= Len(s) THEN s[i] ELSE t[i - Len(s)]
  BY ConcatProperties

\* sendRestoreStep: what is owed to the step is with the pacer.
LEMMA AsksWalks ==
    ASSUME IInv, IInv', Walks, Grant, NEW e, e = Head(waiting), Asks(e)
    PROVE  Walks'
<1> DEFINE c == e.conn
           k == conns[c]
           t == AsksOf(e)
           o == k.out \o t
           m == [k EXCEPT !.step = e, !.owed = ToSet(Requests), !.timer = "slot", !.out = o]
<1>1. pumping /\ waiting # <<>> /\ UNCHANGED <<after, down>>
  BY DEF Grant
<1>2. /\ ~down /\ e \in Entry /\ c \in Conns /\ k.slot = e /\ k.up /\ e # None
      /\ e \in ToSet(waiting) /\ ToSet(Tail(waiting)) = ToSet(waiting) \ {e}
      /\ Tail(waiting) \in Seq(Entry) /\ c \notin after
  BY <1>1, HeadIsOwned
<1>3. k \in Connection /\ Paced(k) /\ Carried(c)
  BY <1>2, InvTypes DEF Walks
<1>4. k.step = None /\ e.walk = k.walk
  BY <1>2, <1>3 DEF Carried, Paced
<1>5. /\ t \in Seq(Request) /\ Len(t) = Len(Requests) /\ Len(t) \in Nat
      /\ \A i \in 1 .. Len(t) : t[i].entry = e
  <2>1. t \in Seq(Request) /\ Len(t) = Len(Requests) /\ Len(Requests) \in Nat
    BY <1>2, AsksType, WalkConstants
  <2>2. \A i \in 1 .. Len(Requests) : t[i].entry = e
    BY DEF AsksOf
  <2> QED BY <2>1, <2>2
<1>6. conns' = [conns EXCEPT ![c] = m] /\ waiting' = Tail(waiting)
  BY DEF Asks
<1>7. k.out \in Seq(Request) /\ o \in Seq(Request) /\ Len(k.out) \in Nat
  BY <1>3, <1>5, OutIs, ConcatProperties
<1>o. o = k.out \o t
  OBVIOUS
<1> HIDE DEF o, t
<1>8. /\ m \in Connection /\ m.slot = e /\ m.up /\ m.walk = k.walk /\ m.step = e
      /\ m.owed = ToSet(Requests) /\ m.timer = "slot" /\ m.out = k.out \o t
      /\ m.cut = k.cut /\ m.queue = k.queue
  <2> HIDE DEF k
  <2> QED BY <1>2, <1>3, <1>7, <1>o DEF Connection
<1> HIDE DEF m, k
<1>9. Paced(m)
  BY <1>2, <1>3, <1>4, <1>5, <1>8, PacedAppend
<1>10. Unsent(m)
  <2>1. Len(t) >= 1
    <3>1. Requests \in Seq(STRING) /\ Requests # <<>>
      BY WalkConstants
    <3>2. Len(Requests) >= 1
      BY <3>1, EmptySeq, LenProperties
    <3> QED BY <1>5, <3>2
  <2> DEFINE i == Len(k.out) + 1
  <2>2. /\ i \in 1 .. Len(k.out) + Len(t) /\ ~(i <= Len(k.out)) /\ i - Len(k.out) = 1
        /\ 1 \in 1 .. Len(t)
    BY <1>5, <1>7, <2>1
  <2>c. /\ Len(o) = Len(k.out) + Len(t) /\ o \in Seq(Request)
        /\ \A x \in 1 .. Len(k.out) + Len(t) :
              o[x] = IF x <= Len(k.out) THEN k.out[x] ELSE t[x - Len(k.out)]
    <3> DEFINE p == k.out
    <3>1. p \in Seq(Request) /\ t \in Seq(Request) /\ o = p \o t
      BY <1>5, <1>7, <1>o
    <3> HIDE DEF p
    <3>2. /\ Len(o) = Len(p) + Len(t) /\ o \in Seq(Request)
          /\ \A x \in 1 .. Len(p) + Len(t) : o[x] = IF x <= Len(p) THEN p[x] ELSE t[x - Len(p)]
      BY <3>1, BehindThePacer
    <3> QED BY <3>2 DEF p
  <2>3. /\ Len(m.out) = Len(k.out) + Len(t) /\ m.out \in Seq(Request)
        /\ \A x \in 1 .. Len(k.out) + Len(t) :
              m.out[x] = IF x <= Len(k.out) THEN k.out[x] ELSE t[x - Len(k.out)]
    BY <1>8, <1>o, <2>c
  <2>4. i \in DOMAIN m.out
    BY <2>2, <2>3
  <2>5. m.out[i] = t[1]
    BY <2>2, <2>3
  <2> HIDE DEF i
  <2> QED BY <1>2, <1>5, <1>8, <2>2, <2>4, <2>5 DEF Unsent
<1>11. e \notin ToSet(waiting') /\ c \notin after'
  BY <1>1, <1>2, <1>6
<1>12. \A d \in Conns \ {c} :
         conns[d].slot \in ToSet(waiting') <=> conns[d].slot \in ToSet(waiting)
  <2>1. \A x \in {e} : x = None \/ x.conn = c
    OBVIOUS
  <2>2. ToSet(waiting') \ {e} = ToSet(waiting) \ {e}
    BY <1>2, <1>6
  <2>3. waiting' \in Seq(Entry)
    BY <1>2, <1>6
  <2> HIDE DEF c
  <2> QED BY <1>2, <2>1, <2>2, <2>3, OthersWait
<1> HIDE DEF c
<1> QED BY <1>1, <1>2, <1>6, <1>8, <1>9, <1>10, <1>11, <1>12, OneWalks

\* A throw leaves some of the step's requests with the pacer and cuts it short.
LEMMA ThrowsWalks ==
    ASSUME IInv, IInv', Walks, Grant, NEW e, e = Head(waiting), Throws(e)
    PROVE  Walks'
<1> DEFINE c == e.conn
           k == conns[c]
<1>1. pumping /\ waiting # <<>>
  BY DEF Grant
<1>2. /\ e \in Entry /\ c \in Conns /\ k.slot = e /\ k.up /\ e # None /\ e \in ToSet(waiting)
      /\ Sound(k)
  BY <1>1, HeadIsOwned
<1>3. k \in Connection /\ Paced(k) /\ Carried(c)
  BY <1>2, InvTypes DEF Walks
<1>4. k.step = None /\ e.walk = k.walk /\ k.timer = "none"
  BY <1>2, <1>3 DEF Carried, Paced, Sound
<1>5. PICK n \in 0 .. Len(Requests) - 1 :
         PassesOver(e, [k EXCEPT !.out = @ \o SubSeq(AsksOf(e), 1, n),
                                 !.cut = @ \union {e}])
  BY DEF Throws
<1> DEFINE t == SubSeq(AsksOf(e), 1, n)
           o == k.out \o t
           u == k.cut \union {e}
           m == [k EXCEPT !.out = o, !.cut = u]
<1>6. t \in Seq(Request) /\ \A i \in 1 .. Len(t) : t[i].entry = e
  <2> DEFINE r == AsksOf(e)
  <2>1. r \in Seq(Request) /\ Len(r) = Len(Requests) /\ Len(Requests) \in Nat
    BY <1>2, AsksType, WalkConstants
  <2>2. n \in Nat /\ n <= Len(r)
    BY <2>1
  <2>3. \A i \in 1 .. Len(Requests) : r[i].entry = e
    BY DEF AsksOf
  <2> HIDE DEF r
  <2>4. \A i \in 1 .. n : r[i] \in Request
    BY <2>1, <2>2
  <2>5. /\ SubSeq(r, 1, n) \in Seq(Request) /\ Len(SubSeq(r, 1, n)) = n
        /\ \A i \in 1 .. n : SubSeq(r, 1, n)[i] = r[i]
    BY <2>2, <2>4, SubSeqProperties
  <2> QED BY <2>1, <2>2, <2>3, <2>5 DEF r
<1>7. PassesOver(e, m)
  BY <1>5
<1>8. o \in Seq(Request) /\ u \in SUBSET Entry /\ e \in u /\ k.cut \subseteq u
  <2>1. k.out \in Seq(Request) /\ k.cut \in SUBSET Entry
    BY <1>3 DEF Connection
  <2> HIDE DEF k, t
  <2> QED BY <1>2, <1>6, <2>1, ConcatProperties
<1>o. o = k.out \o t
  OBVIOUS
<1> HIDE DEF o, u, t
<1>9. /\ m \in Connection /\ m.slot = e /\ m.up /\ m.walk = k.walk /\ m.step = None
      /\ m.timer = "none" /\ m.out = k.out \o t /\ m.cut = u
  <2> HIDE DEF k
  <2> QED BY <1>2, <1>3, <1>4, <1>8, <1>o DEF Connection
<1>10. m.walk = conns[e.conn].walk
  BY <1>9
<1> HIDE DEF m, k
<1>11. Paced(m)
  BY <1>2, <1>3, <1>4, <1>6, <1>8, <1>9, PacedAppend
<1> QED BY <1>7, <1>9, <1>10, <1>11, PassesOverWalks

\* A turn of the pump carries the walk it was for.
LEMMA GrantWalks ==
    ASSUME IInv, IInv', Walks, Grant
    PROVE  Walks'
<1> DEFINE e == Head(waiting)
           k == conns[e.conn]
<1>1. pumping /\ waiting # <<>>
  BY DEF Grant
<1>2. e.conn \in Conns /\ k \in Connection /\ k.up /\ k.slot = e /\ e \in ToSet(waiting)
  BY <1>1, HeadIsOwned DEF Sound
<1>3. Paced(k) /\ k.step = None
  BY <1>2 DEF Walks, Carried
<1> HIDE DEF e
<1>4. CASE Asks(e)
  BY <1>4, AsksWalks DEF e
<1>5. CASE NothingToAsk(e)
  <2>1. PassesOver(e, k)
    BY <1>5 DEF NothingToAsk
  <2>2. k.walk = conns[e.conn].walk
    OBVIOUS
  <2> HIDE DEF k
  <2> QED BY <1>2, <1>3, <2>1, <2>2, PassesOverWalks DEF e
<1>6. CASE Throws(e)
  BY <1>6, ThrowsWalks DEF e
<1> QED BY <1>4, <1>5, <1>6 DEF Grant, e

\* Every step carries the walks it does not end.
LEMMA NextWalks == IInv /\ Walks /\ [Next]_vars => Walks'
<1> SUFFICES ASSUME IInv, Walks, [Next]_vars PROVE Walks'
  OBVIOUS
<1>1. IInv'
  BY NextKeeps
<1>2. CASE Grant
  BY <1>1, <1>2, GrantWalks
<1>3. CASE PumpEnds \/ UNCHANGED vars
  <2>1. UNCHANGED <<waiting, after, conns, down>>
    BY <1>3 DEF PumpEnds, vars
  <2>2. \A c \in Conns : Carried(c) => Carried(c)'
    BY <2>1 DEF Carried
  <2> QED BY <2>1, <2>2 DEF Walks
<1>4. CASE ShutdownBegins
  <2>1. conns' = conns /\ after = {} /\ after' = {} /\ down' /\ waiting' = <<>>
    BY <1>4 DEF ShutdownBegins, GateReset, Quiet
  <2>2. ToSet(waiting') = {}
    BY <2>1 DEF ToSet
  <2> QED BY <2>1, <2>2 DEF Walks, Carried
<1>5. ASSUME NEW c \in Conns, Closes(c) \/ ShutdownDetaches(c) PROVE Walks'
  <2>1. Closed(c) /\ after = {} /\ down' = down
    BY <1>5 DEF Closes, ShutdownDetaches, Quiet
  <2> QED BY <1>1, <2>1, ClosedWalks
<1>6. ASSUME NEW c \in Conns,
             \/ GoOn(c) \/ Restored(c) \/ Sends(c) \/ Skips(c)
             \/ SlotCapPasses(c) \/ DeadlinePasses(c)
             \/ \E ch \in Chans : Leaves(c, ch)
             \/ \E refused \in BOOLEAN : Answers(c, refused)
      PROVE  Walks'
  BY <1>1, <1>6, GoOnWalks, RestoredWalks, SendsWalks, SkipsWalks, SlotCapWalks,
     DeadlineWalks, LeavesWalks, AnswersWalks
<1> QED BY <1>2, <1>3, <1>4, <1>5, <1>6 DEF Next, PumpStep

\* At the start there is no walk.
LEMMA InitWalks == Init => Walks
<1> SUFFICES ASSUME Init PROVE Walks
  OBVIOUS
<1>1. after = {} /\ \A c \in Conns : conns[c] = NoConn
  BY DEF Init
<1>2. ~NoConn.up /\ NoConn.slot = None /\ NoConn.timer = "none" /\ NoConn.step = None
      /\ DOMAIN NoConn.out = {}
  BY DEF NoConn
<1>3. Paced(NoConn)
  BY <1>2 DEF Paced
<1> QED BY <1>1, <1>2, <1>3 DEF Walks, Carried

\* A walk with channels left has something that will bring it on: a place in
\* the line, requests the pacer still has, or a deadline (drainRestoreQueue, and
\* `sent' and the two timers of sendRestoreStep).
THEOREM EveryWalkIsCarried == Spec => []WalkIsCarried
<1>1. IInv /\ Walks => WalkIsCarried
  BY NotGoingDown DEF Walks, Carried, WalkIsCarried, Quiet
<1> QED BY <1>1, InitIInv, InitWalks, NextKeeps, NextWalks, PTL DEF Spec

\* A connection asks the next channel only once all it asked before has gone
\* out, unless the step before was cut short (ircConnection.ts:350-353).
THEOREM OneStepAtATime == Spec => []OneStepInThePacer
<1>1. ASSUME Walks PROVE OneStepInThePacer
  <2>1. ASSUME NEW c \in Conns, NEW i \in DOMAIN conns[c].out, NEW j \in DOMAIN conns[c].out,
               i < j, conns[c].out[i].entry.walk = conns[c].out[j].entry.walk,
               conns[c].out[i].entry # conns[c].out[j].entry
        PROVE  conns[c].out[i].entry \in conns[c].cut
    <3>1. Overtakes(conns[c], conns[c].out[i], conns[c].out[j])
      BY <1>1, <2>1 DEF Walks, Paced
    <3> QED BY <2>1, <3>1 DEF Overtakes
  <2> QED BY <2>1 DEF OneStepInThePacer
<1> QED BY <1>1, InitIInv, InitWalks, NextKeeps, NextWalks, PTL DEF Spec

-----------------------------------------------------------------------------
(* The launch queue and the ladders: the inductive invariant.              *)

ObjSet == [net : 0 .. NumNets, state : NetStates,
           sock : {"none", "dialing", "open"}, timer : BOOLEAN,
           intent : BOOLEAN, disposed : BOOLEAN, ban : BOOLEAN,
           sasl : BOOLEAN, streak : 0 .. MaxStreak, terminal : BOOLEAN]
TaskSet == [obj : Objs, kind : {"start", "retry"}, net : Nets]
Longest == MaxOf(PerHost + Jitter, Floor)
Values == [mapped   : [Nets -> 0 .. MaxObjs],
           objs     : [Objs -> ObjSet],
           launches : Seq(TaskSet),
           gates    : [host : [Hosts -> 0 .. PerHost + Jitter], floor : 0 .. Floor],
           pump     : -1 .. Longest,
           policy   : [paused : BOOLEAN, closed : BOOLEAN, list : Lists \union {Unlisted}],
           told     : [Nets -> NetStates]]

Waits(p, c) == Queued(p, c) # {}

\* What the map holds is an object of that network that nobody has ended.
Mapped(p) == \A n \in Nets : p.mapped[n] # 0 =>
    LET k == p.objs[p.mapped[n]] IN k.net = n /\ ~k.intent /\ ~k.disposed

\* One thing carries it on, and its state says which.
CarriedOn(p, c) ==
    LET k == p.objs[c] IN
    \/ /\ k.sock = "dialing" /\ k.state = "connecting"
       /\ ~k.timer /\ ~k.terminal /\ ~Waits(p, c)
    \/ /\ k.sock = "open" /\ k.state = "connected"
       /\ ~k.timer /\ ~k.terminal /\ ~Waits(p, c)
    \/ /\ k.sock = "none" /\ k.state = "reconnecting"
       /\ ~k.terminal /\ (k.timer <=> ~Waits(p, c))
    \/ /\ k.sock = "none" /\ k.state = "disconnected"
       /\ ~k.timer /\ (k.terminal <=> ~Waits(p, c))
AllCarried(p) == \A n \in Nets : p.mapped[n] # 0 => CarriedOn(p, p.mapped[n])

\* What goes on by itself is in the map, unless somebody has ended it.
Belongs(p, c) ==
    LET k == p.objs[c] IN
    ~k.intent /\ ~k.disposed /\ (k.sock # "none" \/ k.timer \/ Waits(p, c))
        => k.net \in Nets /\ p.mapped[k.net] = c
Idle(p, c) == p.objs[c].intent \/ p.objs[c].disposed
                => ~p.objs[c].timer /\ p.objs[c].net \in Nets
AllOwned(p) == \A c \in Objs : Belongs(p, c) /\ Idle(p, c)

\* A task is the only one of its object, and of the kind its state says.
Tasks(p) ==
    \A i \in DOMAIN p.launches :
        LET t == p.launches[i] IN
        /\ p.objs[t.obj].net = t.net
        /\ p.mapped[t.net] = t.obj =>
              (t.kind = "retry" <=> p.objs[t.obj].state = "reconnecting")
        /\ \A j \in DOMAIN p.launches : p.launches[j].obj = t.obj => j = i

\* Nothing is mapped that the policy refuses.
Allowed(p) == \A n \in Nets : p.mapped[n] # 0 =>
    /\ ~p.policy.paused /\ AccountAllows(p, HostOf[n])
    /\ p.objs[p.mapped[n]].state # "disconnected" => ~(p.policy.list.held /\ n \in Proxied)

\* What the clients were told is still true of some object.
Stands(p, n) ==
    /\ p.told[n] = "reconnecting" =>
        p.mapped[n] # 0 /\ p.objs[p.mapped[n]].state = "reconnecting"
    /\ p.told[n] \in {"connecting", "connected"} =>
        \E c \in Objs : /\ p.objs[c].net = n /\ ~p.objs[c].disposed
                        /\ p.objs[c].sock # "none"
AllStand(p) == \A n \in Nets : Stands(p, n)

Good(p) == /\ p \in Values /\ Mapped(p) /\ AllCarried(p) /\ AllOwned(p) /\ Tasks(p)
           /\ Allowed(p) /\ AllStand(p)

Armed(p) == p.launches # <<>> => p.pump \in 0 .. Soonest(p)

LaddersInv ==
    /\ Good(Now) /\ Armed(Now)
    /\ shut \in BOOLEAN /\ (shut => \A n \in Nets : mapped[n] = 0)
    /\ thrown \in 0 .. MaxUnread /\ asked \in 0 .. MaxAsked

Others(p, q, c, n) ==
    /\ \A d \in Objs \ {c} : q.objs[d] = p.objs[d]
    /\ \A m \in Nets \ {n} : q.mapped[m] = p.mapped[m] /\ q.told[m] = p.told[m]

\* The constants.
LEMMA LadderConstants ==
    /\ NumNets \in Nat \ {0} /\ MaxObjs \in Nat \ {0} /\ MaxStreak \in Nat \ {0}
    /\ PerHost \in Nat /\ Jitter \in Nat /\ Floor \in Nat
    /\ MaxUnread \in Nat /\ MaxAsked \in Nat
    /\ Longest \in Nat /\ PerHost + Jitter <= Longest /\ Floor <= Longest
    /\ Nets \subseteq Nat \ {0} /\ Objs \subseteq Nat \ {0} /\ Objs \subseteq 0 .. MaxObjs
    /\ Nets \subseteq 0 .. NumNets /\ 0 \notin Objs /\ 0 \notin Nets
    /\ (0 .. MaxObjs) \ {0} \subseteq Objs
    /\ \A n \in Nets : HostOf[n] \in Hosts
<1>1. /\ NumNets \in Nat \ {0} /\ MaxObjs \in Nat \ {0} /\ MaxStreak \in Nat \ {0}
      /\ PerHost \in Nat /\ Jitter \in Nat /\ Floor \in Nat
      /\ MaxUnread \in Nat /\ MaxAsked \in Nat
  BY ReconnectConstants
<1>2. Longest \in Nat /\ PerHost + Jitter <= Longest /\ Floor <= Longest
  BY ONLY <1>1 DEF Longest, MaxOf
<1>3. /\ Nets \subseteq Nat \ {0} /\ Objs \subseteq Nat \ {0} /\ Objs \subseteq 0 .. MaxObjs
      /\ Nets \subseteq 0 .. NumNets /\ 0 \notin Objs /\ 0 \notin Nets
      /\ (0 .. MaxObjs) \ {0} \subseteq Objs
  BY ONLY <1>1 DEF Nets, Objs
<1>4. \A n \in Nets : HostOf[n] \in Hosts
  BY ONLY DEF Hosts
<1> QED BY ONLY <1>1, <1>2, <1>3, <1>4

\* The fields of a value.
LEMMA ValueFields ==
    ASSUME NEW p \in Values
    PROVE  /\ p.mapped \in [Nets -> 0 .. MaxObjs] /\ p.objs \in [Objs -> ObjSet]
           /\ p.launches \in Seq(TaskSet) /\ p.pump \in -1 .. Longest
           /\ p.gates \in [host : [Hosts -> 0 .. PerHost + Jitter], floor : 0 .. Floor]
           /\ p.policy \in [paused : BOOLEAN, closed : BOOLEAN, list : Lists \union {Unlisted}]
           /\ p.told \in [Nets -> NetStates]
  BY DEF Values

\* An object replaced.
LEMMA PutObj ==
    ASSUME NEW p \in Values, NEW c \in Objs, NEW k \in ObjSet
    PROVE  LET q == [p EXCEPT !.objs[c] = k] IN
           /\ q \in Values /\ q.objs[c] = k
           /\ \A d \in Objs \ {c} : q.objs[d] = p.objs[d]
           /\ q.mapped = p.mapped /\ q.launches = p.launches /\ q.gates = p.gates
           /\ q.pump = p.pump /\ q.policy = p.policy /\ q.told = p.told
  BY DEF Values

\* The state is set, and told unless the object is disposed.
LEMMA SetStateIs ==
    ASSUME NEW p \in Values, NEW c \in Objs, NEW s \in NetStates
    PROVE  LET q == SetState(p, c, s)
               k == p.objs[c] IN
           /\ q \in Values /\ q.objs[c] = [k EXCEPT !.state = s]
           /\ \A d \in Objs \ {c} : q.objs[d] = p.objs[d]
           /\ q.mapped = p.mapped /\ q.launches = p.launches /\ q.gates = p.gates
           /\ q.pump = p.pump /\ q.policy = p.policy
           /\ \A m \in Nets : q.told[m] = IF ~k.disposed /\ m = k.net THEN s ELSE p.told[m]
<1> DEFINE k == p.objs[c]
           j == [k EXCEPT !.state = s]
           f == [p.objs EXCEPT ![c] = j]
           t == IF k.disposed THEN p.told ELSE [p.told EXCEPT ![k.net] = s]
           q == SetState(p, c, s)
<1>1. k \in ObjSet /\ p.told \in [Nets -> NetStates] /\ p.objs \in [Objs -> ObjSet]
  BY DEF Values
<1>2. j \in ObjSet
  BY <1>1 DEF ObjSet
<1>3. f \in [Objs -> ObjSet] /\ f[c] = j /\ \A d \in Objs \ {c} : f[d] = p.objs[d]
  BY <1>1, <1>2
<1>4. t \in [Nets -> NetStates]
      /\ \A m \in Nets : t[m] = IF ~k.disposed /\ m = k.net THEN s ELSE p.told[m]
  BY <1>1
<1>5. q = [p EXCEPT !.objs = f, !.told = t]
  BY DEF SetState
<1> HIDE DEF f, t, q, j
<1>6. q \in Values /\ q.objs = f /\ q.told = t
      /\ q.mapped = p.mapped /\ q.launches = p.launches /\ q.gates = p.gates
      /\ q.pump = p.pump /\ q.policy = p.policy
  BY <1>3, <1>4, <1>5 DEF Values
<1> QED BY <1>3, <1>4, <1>6 DEF q, j

Steady(p) == /\ p \in Values /\ Mapped(p) /\ AllCarried(p) /\ AllOwned(p) /\ Tasks(p)
            /\ Allowed(p)

\* What the map must know of the object c of n, if it holds it.
Fits(q, c, n) ==
    q.mapped[n] = c =>
        LET k == q.objs[c] IN
        /\ ~k.intent /\ ~k.disposed /\ CarriedOn(q, c)
        /\ ~q.policy.paused /\ AccountAllows(q, HostOf[n])
        /\ k.state # "disconnected" => ~(q.policy.list.held /\ n \in Proxied)

\* Where only the object c of n has changed, only c need be looked at.
LEMMA OnlyOne ==
    ASSUME NEW p, Steady(p), NEW q \in Values, NEW c \in Objs, NEW n \in Nets,
           p.objs[c].net \in {0, n}, q.objs[c].net = n, Others(p, q, c, n),
           q.policy.paused = p.policy.paused, q.policy.list = p.policy.list,
           \A d \in Objs \ {c} : Waits(q, d) <=> Waits(p, d),
           Tasks(q), Belongs(q, c), Idle(q, c), Fits(q, c, n),
           q.mapped[n] \in {0, c, p.mapped[n]},
           p.mapped[n] \in {0, c, q.mapped[n]}
    PROVE  Steady(q)
<1> USE DEF Steady, Others
<1>0. /\ \A m \in Nets : p.mapped[m] \in (0 .. MaxObjs) /\ q.mapped[m] \in (0 .. MaxObjs)
      /\ (0 .. MaxObjs) \ {0} \subseteq Objs /\ 0 \notin Objs /\ 0 \notin Nets
  BY ValueFields, LadderConstants
<1>1. \A m \in Nets : q.mapped[m] # 0 /\ ~(m = n /\ q.mapped[m] = c) =>
          /\ q.mapped[m] = p.mapped[m] /\ q.mapped[m] # c /\ q.mapped[m] \in Objs
          /\ q.objs[q.mapped[m]] = p.objs[p.mapped[m]]
  <2> SUFFICES ASSUME NEW m \in Nets, q.mapped[m] # 0, ~(m = n /\ q.mapped[m] = c)
               PROVE  /\ q.mapped[m] = p.mapped[m] /\ q.mapped[m] # c /\ q.mapped[m] \in Objs
                      /\ q.objs[q.mapped[m]] = p.objs[p.mapped[m]]
    OBVIOUS
  <2>1. q.mapped[m] \in Objs
    BY <1>0
  <2>2. q.mapped[m] = p.mapped[m]
    OBVIOUS
  <2>3. q.mapped[m] # c
    <3>1. CASE m = n
      BY <3>1
    <3>2. CASE m # n
      <4>1. p.objs[p.mapped[m]].net = m
        BY <2>2 DEF Mapped
      <4> QED BY <1>0, <2>2, <3>2, <4>1
    <3> QED BY <3>1, <3>2
  <2> QED BY <2>1, <2>2, <2>3
<1>2. Mapped(q)
  <2> SUFFICES ASSUME NEW m \in Nets, q.mapped[m] # 0
               PROVE  /\ q.objs[q.mapped[m]].net = m /\ ~q.objs[q.mapped[m]].intent
                      /\ ~q.objs[q.mapped[m]].disposed
    BY DEF Mapped
  <2>1. CASE m = n /\ q.mapped[m] = c
    BY <2>1 DEF Fits
  <2>2. CASE ~(m = n /\ q.mapped[m] = c)
    BY <1>1, <2>2 DEF Mapped
  <2> QED BY <2>1, <2>2
<1>3. AllCarried(q)
  <2> SUFFICES ASSUME NEW m \in Nets, q.mapped[m] # 0 PROVE CarriedOn(q, q.mapped[m])
    BY DEF AllCarried
  <2>1. CASE m = n /\ q.mapped[m] = c
    BY <2>1 DEF Fits
  <2>2. CASE ~(m = n /\ q.mapped[m] = c)
    <3>1. CarriedOn(p, p.mapped[m])
      BY <1>1, <2>2 DEF AllCarried
    <3> QED BY <1>1, <2>2, <3>1 DEF CarriedOn
  <2> QED BY <2>1, <2>2
<1>4. AllOwned(q)
  <2> SUFFICES ASSUME NEW d \in Objs PROVE Belongs(q, d) /\ Idle(q, d)
    BY DEF AllOwned
  <2>1. CASE d = c
    BY <2>1
  <2>2. CASE d # c
    <3>1. Belongs(p, d) /\ Idle(p, d) /\ q.objs[d] = p.objs[d] /\ (Waits(q, d) <=> Waits(p, d))
      BY <2>2 DEF AllOwned
    <3>2. \A m \in Nets : p.mapped[m] = d => q.mapped[m] = d
      BY <1>0, <2>2
    <3> QED BY <3>1, <3>2 DEF Belongs, Idle
  <2> QED BY <2>1, <2>2
<1>5. Allowed(q)
  <2> SUFFICES ASSUME NEW m \in Nets, q.mapped[m] # 0
               PROVE  /\ ~q.policy.paused /\ AccountAllows(q, HostOf[m])
                      /\ q.objs[q.mapped[m]].state # "disconnected"
                            => ~(q.policy.list.held /\ m \in Proxied)
    BY DEF Allowed
  <2>1. CASE m = n /\ q.mapped[m] = c
    BY <2>1 DEF Fits
  <2>2. CASE ~(m = n /\ q.mapped[m] = c)
    <3>1. /\ ~p.policy.paused /\ AccountAllows(p, HostOf[m])
          /\ p.objs[p.mapped[m]].state # "disconnected"
                => ~(p.policy.list.held /\ m \in Proxied)
      BY <1>1, <2>2 DEF Allowed
    <3> QED BY <1>1, <2>2, <3>1 DEF AccountAllows
  <2> QED BY <2>1, <2>2
<1> QED BY <1>2, <1>3, <1>4, <1>5

\* Nothing of another network than n has changed.
Elsewhere(p, q, n) ==
    /\ \A d \in Objs : p.objs[d].net \in Nets \ {n} => q.objs[d] = p.objs[d]
    /\ \A m \in Nets \ {n} : q.mapped[m] = p.mapped[m] /\ q.told[m] = p.told[m]

\* What was told of the other networks stands.
LEMMA OthersStand ==
    ASSUME NEW p, Good(p), NEW q, NEW n \in Nets, Elsewhere(p, q, n), Stands(q, n)
    PROVE  AllStand(q)
<1> SUFFICES ASSUME NEW m \in Nets, m # n PROVE Stands(q, m)
  BY DEF AllStand
<1>0. /\ p.mapped[m] \in (0 .. MaxObjs)
      /\ (0 .. MaxObjs) \ {0} \subseteq Objs
  BY ValueFields, LadderConstants DEF Good
<1>1. Stands(p, m) /\ q.mapped[m] = p.mapped[m] /\ q.told[m] = p.told[m]
  BY DEF Good, AllStand, Elsewhere
<1>2. ASSUME NEW d \in Objs, p.objs[d].net = m PROVE q.objs[d] = p.objs[d]
  BY <1>2 DEF Elsewhere
<1>3. ASSUME q.told[m] = "reconnecting"
      PROVE  q.mapped[m] # 0 /\ q.objs[q.mapped[m]].state = "reconnecting"
  <2>1. p.mapped[m] # 0 /\ p.objs[p.mapped[m]].state = "reconnecting"
    BY <1>1, <1>3 DEF Stands
  <2>2. p.mapped[m] \in Objs /\ p.objs[p.mapped[m]].net = m
    BY <1>0, <2>1 DEF Good, Mapped
  <2> QED BY <1>1, <1>2, <2>1, <2>2
<1>4. ASSUME q.told[m] \in {"connecting", "connected"}
      PROVE  \E d \in Objs : /\ q.objs[d].net = m /\ ~q.objs[d].disposed
                             /\ q.objs[d].sock # "none"
  <2>1. PICK d \in Objs : /\ p.objs[d].net = m /\ ~p.objs[d].disposed
                          /\ p.objs[d].sock # "none"
    BY <1>1, <1>4 DEF Stands
  <2> QED BY <1>2, <2>1
<1> QED BY <1>3, <1>4 DEF Stands

\* An event of one network leaves the others as they were.
LEMMA ElsewhereOf ==
    ASSUME NEW p, NEW q, NEW c \in Objs, NEW n \in Nets, Others(p, q, c, n),
           p.objs[c].net \in {0, n}
    PROVE  Elsewhere(p, q, n)
  BY LadderConstants DEF Others, Elsewhere

\* Two events of one network, one after the other.
LEMMA ElsewhereAgain ==
    ASSUME NEW p, NEW q, NEW r, NEW n \in Nets, Elsewhere(p, q, n), Elsewhere(q, r, n)
    PROVE  Elsewhere(p, r, n)
  BY DEF Elsewhere

\* The object that is none is an object.
LEMMA NoObjType == NoObj \in ObjSet
<1>1. 0 \in 0 .. NumNets /\ 0 \in 0 .. MaxStreak
  BY LadderConstants
<1> QED BY <1>1 DEF NoObj, ObjSet, NetStates

\* What is forgotten of an object that was ended.
LEMMA KeptIs ==
    ASSUME NEW k \in ObjSet
    PROVE  LET j == Kept(k) IN
           /\ j \in ObjSet
           /\ j.net = k.net /\ j.sock = k.sock /\ j.disposed = k.disposed
           /\ (j.intent \/ j.disposed) <=> (k.intent \/ k.disposed)
           /\ j.timer => k.timer
           /\ ~k.intent /\ ~k.disposed => j = k
<1>1. NoObj \in ObjSet /\ 0 \in 0 .. MaxStreak
  BY NoObjType, LadderConstants
<1>2. CASE k.disposed
  BY <1>1, <1>2 DEF Kept, ObjSet, NoObj
<1>3. CASE ~k.disposed /\ k.intent
  BY <1>1, <1>3 DEF Kept, ObjSet
<1>4. CASE ~k.disposed /\ ~k.intent
  BY <1>4 DEF Kept
<1> QED BY <1>2, <1>3, <1>4

Collected(q) ==
    [q EXCEPT !.objs = [c \in Objs |-> IF Reachable(q, c) THEN Kept(q.objs[c]) ELSE NoObj]]

\* What nothing refers to is not missed.
LEMMA CollectedIsGood ==
    ASSUME NEW q, Good(q)
    PROVE  LET r == Collected(q) IN
           /\ Good(r)
           /\ r.mapped = q.mapped /\ r.launches = q.launches /\ r.gates = q.gates
           /\ r.pump = q.pump /\ r.policy = q.policy /\ r.told = q.told
<1> DEFINE f == [c \in Objs |-> IF Reachable(q, c) THEN Kept(q.objs[c]) ELSE NoObj]
           r == Collected(q)
<1>t. q \in Values /\ \A c \in Objs : q.objs[c] \in ObjSet
  BY ValueFields DEF Good
<1>f. f \in [Objs -> ObjSet]
  <2>1. \A c \in Objs : Kept(q.objs[c]) \in ObjSet
    BY <1>t, KeptIs
  <2> QED BY <2>1, NoObjType
<1>0. \A c \in Objs : f[c] = IF Reachable(q, c) THEN Kept(q.objs[c]) ELSE NoObj
  OBVIOUS
<1> HIDE DEF f
<1>1. /\ r \in Values /\ r.objs = f
      /\ r.mapped = q.mapped /\ r.launches = q.launches /\ r.gates = q.gates
      /\ r.pump = q.pump /\ r.policy = q.policy /\ r.told = q.told
  <2>1. r = [q EXCEPT !.objs = f]
    BY DEF Collected, f
  <2> QED BY <1>t, <1>f, <2>1 DEF Values
<1> HIDE DEF r
<1>w. \A c \in Objs : Waits(r, c) <=> Waits(q, c)
  BY <1>1 DEF Waits, Queued
<1>m. \A n \in Nets : q.mapped[n] # 0 => q.mapped[n] \in Objs
  BY <1>t, ValueFields, LadderConstants
<1>2. ASSUME NEW n \in Nets, q.mapped[n] # 0 PROVE r.objs[q.mapped[n]] = q.objs[q.mapped[n]]
  <2>1. q.mapped[n] \in Objs /\ Reachable(q, q.mapped[n])
    BY <1>m, <1>2 DEF Reachable
  <2>2. ~q.objs[q.mapped[n]].intent /\ ~q.objs[q.mapped[n]].disposed
    BY <1>2 DEF Good, Mapped
  <2> QED BY <1>0, <1>1, <1>t, <2>1, <2>2, KeptIs
<1>3. Mapped(r)
  BY <1>1, <1>2 DEF Good, Mapped
<1>4. AllCarried(r)
  BY <1>1, <1>2, <1>m, <1>w DEF Good, AllCarried, CarriedOn
<1>5. AllOwned(r)
  <2> SUFFICES ASSUME NEW c \in Objs PROVE Belongs(r, c) /\ Idle(r, c)
    BY DEF AllOwned
  <2>1. Belongs(q, c) /\ Idle(q, c)
    BY DEF Good, AllOwned
  <2>2. CASE Reachable(q, c)
    <3>1. r.objs[c] = Kept(q.objs[c])
      BY <1>0, <1>1, <2>2
    <3> QED BY <1>1, <1>t, <1>w, <2>1, <3>1, KeptIs DEF Belongs, Idle
  <2>3. CASE ~Reachable(q, c)
    <3>1. r.objs[c] = NoObj
      BY <1>0, <1>1, <2>3
    <3>2. ~Waits(r, c)
      BY <1>w, <2>3 DEF Reachable, Waits
    <3> QED BY <3>1, <3>2 DEF NoObj, Belongs, Idle
  <2> QED BY <2>2, <2>3
<1>6. Tasks(r)
  <2> SUFFICES ASSUME NEW i \in DOMAIN r.launches
               PROVE  LET t == r.launches[i] IN
                      /\ r.objs[t.obj].net = t.net
                      /\ r.mapped[t.net] = t.obj =>
                            (t.kind = "retry" <=> r.objs[t.obj].state = "reconnecting")
                      /\ \A j \in DOMAIN r.launches : r.launches[j].obj = t.obj => j = i
    BY DEF Tasks
  <2> DEFINE t == q.launches[i]
  <2>0. i \in DOMAIN q.launches /\ t \in TaskSet /\ r.launches[i] = t
    BY <1>1, <1>t, ValueFields, ElementOfSeq
  <2>1. t.obj \in Objs /\ t.net \in Nets
    BY <2>0 DEF TaskSet
  <2>2. Reachable(q, t.obj)
    BY <2>0 DEF Reachable, Queued
  <2>3. r.objs[t.obj].net = q.objs[t.obj].net
    BY <1>0, <1>1, <1>t, <2>1, <2>2, KeptIs
  <2>4. /\ q.objs[t.obj].net = t.net
        /\ q.mapped[t.net] = t.obj =>
              (t.kind = "retry" <=> q.objs[t.obj].state = "reconnecting")
        /\ \A j \in DOMAIN q.launches : q.launches[j].obj = t.obj => j = i
    BY <2>0 DEF Good, Tasks
  <2>5. ASSUME r.mapped[t.net] = t.obj PROVE r.objs[t.obj] = q.objs[t.obj]
    <3>1. t.obj # 0 /\ q.mapped[t.net] = t.obj
      BY <1>1, <2>1, <2>5, LadderConstants
    <3> QED BY <1>2, <2>1, <3>1
  <2> HIDE DEF t
  <2> QED BY <1>1, <2>0, <2>3, <2>4, <2>5
<1>7. Allowed(r)
  BY <1>1, <1>2 DEF Good, Allowed, AccountAllows
<1>8. AllStand(r)
  <2> SUFFICES ASSUME NEW n \in Nets PROVE Stands(r, n)
    BY DEF AllStand
  <2>1. Stands(q, n)
    BY DEF Good, AllStand
  <2>2. ASSUME NEW c \in Objs, q.objs[c].sock # "none", ~q.objs[c].disposed
        PROVE  /\ r.objs[c].net = q.objs[c].net /\ ~r.objs[c].disposed
               /\ r.objs[c].sock # "none"
    <3>1. Reachable(q, c)
      BY <2>2 DEF Reachable
    <3> QED BY <1>0, <1>1, <1>t, <2>2, <3>1, KeptIs
  <2> QED BY <1>1, <1>2, <2>1, <2>2 DEF Stands
<1> QED BY <1>1, <1>3, <1>4, <1>5, <1>6, <1>7, <1>8 DEF Good, r

\* The end of an event.
LEMMA BecomesGood ==
    ASSUME NEW q, Good(q), Armed(q), Becomes(q)
    PROVE  Good(Now)' /\ Armed(Now)' /\ mapped' = q.mapped
<1> DEFINE r == Collected(q)
<1>1. /\ mapped' = q.mapped /\ launches' = q.launches /\ gates' = q.gates
      /\ pump' = q.pump /\ policy' = q.policy /\ told' = q.told
      /\ objs' = [c \in Objs |-> IF Reachable(q, c) THEN Kept(q.objs[c]) ELSE NoObj]
  BY DEF Becomes
<1>2. q \in Values
  BY DEF Good
<1>3. Now' = r
  <2> DEFINE f == [c \in Objs |-> IF Reachable(q, c) THEN Kept(q.objs[c]) ELSE NoObj]
  <2>1. objs' = f /\ r = [q EXCEPT !.objs = f]
    BY <1>1 DEF Collected
  <2> HIDE DEF f, r
  <2>2. r = [mapped |-> q.mapped, objs |-> f, launches |-> q.launches, gates |-> q.gates,
             pump |-> q.pump, policy |-> q.policy, told |-> q.told]
    BY ONLY <1>2, <2>1 DEF Values
  <2>3. Now' = [mapped |-> mapped', objs |-> objs', launches |-> launches', gates |-> gates',
                pump |-> pump', policy |-> policy', told |-> told']
    BY DEF Now
  <2> QED BY <1>1, <2>1, <2>2, <2>3
<1>4. Good(r) /\ Armed(r)
  BY CollectedIsGood DEF Armed, Soonest, ReadyIn
<1> HIDE DEF r
<1> QED BY <1>1, <1>3, <1>4

-----------------------------------------------------------------------------
(* The launch queue.                                                       *)

\* A set of numbers has a least one.
LEMMA LeastIs ==
    ASSUME NEW S \in SUBSET Nat, S # {}
    PROVE  Min(S) \in S /\ \A y \in S : Min(S) <= y
<1>1. IsWellFoundedOn(OpToRel(<, Nat), Nat)
  BY NatLessThanWellFounded
<1>2. PICK x \in S : \A y \in S : ~(<<y, x>> \in OpToRel(<, Nat))
  BY <1>1, WFMin
<1>3. OpToRel(<, Nat) = {r \in Nat \X Nat : r[1] < r[2]}
  BY Zenon DEF OpToRel
<1>4. ASSUME NEW y \in S PROVE x <= y
  <2>1. ~(<<y, x>> \in {r \in Nat \X Nat : r[1] < r[2]})
    BY <1>2, <1>3, Zenon
  <2>2. x \in Nat /\ y \in Nat /\ <<y, x>> \in Nat \X Nat
    OBVIOUS
  <2> QED BY <2>1, <2>2
<1>5. \E x2 \in S : \A y \in S : x2 <= y
  BY <1>4
<1> QED BY ONLY <1>5, Zenon DEF Min

\* The first of the launches that may go.
LEMMA SoonestIs ==
    ASSUME NEW p \in Values, p.launches # <<>>
    PROVE  /\ Soonest(p) \in 0 .. Longest
           /\ \A i \in DOMAIN p.launches :
                 /\ ReadyIn(p, p.launches[i]) \in Nat
                 /\ Soonest(p) <= ReadyIn(p, p.launches[i])
           /\ \E i \in DOMAIN p.launches : Soonest(p) = ReadyIn(p, p.launches[i])
<1> DEFINE S == {ReadyIn(p, p.launches[i]) : i \in DOMAIN p.launches}
<1>0. Longest \in Nat /\ PerHost + Jitter <= Longest /\ Floor <= Longest
      /\ PerHost + Jitter \in Nat /\ Floor \in Nat
  BY LadderConstants
<1>1. \A i \in DOMAIN p.launches : p.launches[i] \in TaskSet
  BY ValueFields, ElementOfSeq
<1>g. p.gates.floor \in 0 .. Floor /\ p.gates.host \in [Hosts -> 0 .. PerHost + Jitter]
  BY ValueFields
<1>2. ASSUME NEW i \in DOMAIN p.launches PROVE ReadyIn(p, p.launches[i]) \in 0 .. Longest
  <2>1. p.launches[i].net \in Nets
    BY <1>1 DEF TaskSet
  <2>2. HostOf[p.launches[i].net] \in Hosts
    BY <2>1, LadderConstants
  <2>3. p.gates.host[HostOf[p.launches[i].net]] \in 0 .. PerHost + Jitter
    BY <1>g, <2>2
  <2> QED BY <1>0, <1>g, <2>3 DEF ReadyIn, MaxOf
<1>3. S \subseteq 0 .. Longest /\ S \subseteq Nat
  BY <1>0, <1>2
<1>4. DOMAIN p.launches # {}
  <2>1. p.launches \in Seq(TaskSet)
    BY ValueFields
  <2>2. Len(p.launches) \in Nat /\ Len(p.launches) # 0 /\ DOMAIN p.launches = 1 .. Len(p.launches)
    BY <2>1, LenProperties, EmptySeq
  <2> QED BY <2>2
<1>5. S # {}
  BY <1>4
<1>6. Min(S) \in S /\ \A y \in S : Min(S) <= y
  <2> HIDE DEF S
  <2> QED BY <1>3, <1>5, LeastIs
<1>7. Soonest(p) = Min(S)
  BY DEF Soonest
<1> QED BY <1>0, <1>2, <1>3, <1>6, <1>7

\* schedulePump arms the timer for the first of them.
LEMMA SchedulePumpIs ==
    ASSUME NEW p \in Values
    PROVE  LET q == SchedulePump(p) IN
           /\ q \in Values /\ Armed(q)
           /\ q.mapped = p.mapped /\ q.objs = p.objs /\ q.launches = p.launches
           /\ q.gates = p.gates /\ q.policy = p.policy /\ q.told = p.told
<1> DEFINE q == SchedulePump(p)
           at == IF p.launches = <<>> THEN NoTimer ELSE Soonest(p)
<1>1. at \in -1 .. Longest /\ (p.launches # <<>> => at \in 0 .. Soonest(p))
  <2>1. CASE p.launches = <<>>
    BY <2>1, LadderConstants DEF NoTimer
  <2>2. CASE p.launches # <<>>
    BY <2>2, SoonestIs, LadderConstants
  <2> QED BY <2>1, <2>2
<1>2. q = [p EXCEPT !.pump = at]
  BY DEF SchedulePump
<1> HIDE DEF at, q
<1>3. /\ q \in Values /\ q.pump = at
      /\ q.mapped = p.mapped /\ q.objs = p.objs /\ q.launches = p.launches
      /\ q.gates = p.gates /\ q.policy = p.policy /\ q.told = p.told
  BY <1>1, <1>2 DEF Values
<1>4. Soonest(q) = Soonest(p)
  BY <1>3 DEF Soonest, ReadyIn
<1>5. Armed(q)
  BY <1>1, <1>3, <1>4 DEF Armed
<1> QED BY <1>3, <1>5 DEF q

\* A task goes to the end of the queue.
LEMMA ScheduleIs ==
    ASSUME NEW p \in Values, NEW c \in Objs, NEW kind \in {"start", "retry"},
           p.objs[c].net \in Nets
    PROVE  LET q == Schedule(p, c, kind) IN
           /\ q \in Values /\ Armed(q)
           /\ q.launches = Append(p.launches, [obj |-> c, kind |-> kind, net |-> p.objs[c].net])
           /\ q.mapped = p.mapped /\ q.objs = p.objs /\ q.gates = p.gates
           /\ q.policy = p.policy /\ q.told = p.told
<1> DEFINE t == [obj |-> c, kind |-> kind, net |-> p.objs[c].net]
           l == Append(p.launches, t)
           r == [p EXCEPT !.launches = l]
<1>1. t \in TaskSet
  BY DEF TaskSet
<1>2. l \in Seq(TaskSet)
  BY <1>1, ValueFields, AppendProperties
<1> HIDE DEF l
<1>3. /\ r \in Values /\ r.launches = l
      /\ r.mapped = p.mapped /\ r.objs = p.objs
      /\ r.gates = p.gates /\ r.policy = p.policy /\ r.told = p.told
  BY <1>2 DEF Values
<1>4. Schedule(p, c, kind) = SchedulePump(r)
  BY DEF Schedule, l
<1> HIDE DEF r
<1> QED BY <1>3, <1>4, SchedulePumpIs DEF l

\* Whose tasks there are when one comes.
LEMMA OneMoreTask ==
    ASSUME NEW p \in Values, NEW q \in Values, NEW t \in TaskSet,
           q.launches = Append(p.launches, t)
    PROVE  /\ Waits(q, t.obj)
           /\ \A d \in Objs \ {t.obj} : Waits(q, d) <=> Waits(p, d)
<1>1. /\ p.launches \in Seq(TaskSet) /\ Len(p.launches) \in Nat
      /\ DOMAIN p.launches = 1 .. Len(p.launches)
  BY ValueFields, LenProperties
<1>2. /\ DOMAIN q.launches = 1 .. Len(p.launches) + 1
      /\ q.launches[Len(p.launches) + 1] = t
      /\ \A i \in 1 .. Len(p.launches) : q.launches[i] = p.launches[i]
  BY <1>1, AppendProperties
<1>3. Waits(q, t.obj)
  <2>1. Len(p.launches) + 1 \in DOMAIN q.launches
    BY <1>1, <1>2
  <2> QED BY <1>2, <2>1 DEF Waits, Queued
<1>4. ASSUME NEW d \in Objs, d # t.obj PROVE Waits(q, d) <=> Waits(p, d)
  <2>1. ASSUME NEW i \in DOMAIN q.launches, q.launches[i].obj = d PROVE i \in DOMAIN p.launches
    BY <1>1, <1>2, <1>4, <2>1
  <2>2. DOMAIN p.launches \subseteq DOMAIN q.launches
    BY <1>1, <1>2
  <2> QED BY <1>1, <1>2, <2>1, <2>2 DEF Waits, Queued
<1> QED BY <1>3, <1>4

\* The tasks when one more comes, for an object that has none.
LEMMA TasksGrow ==
    ASSUME NEW p \in Values, Tasks(p), NEW q \in Values, NEW t \in TaskSet,
           q.launches = Append(p.launches, t), ~Waits(p, t.obj),
           \A d \in Objs \ {t.obj} : q.objs[d] = p.objs[d],
           \A m \in Nets \ {t.net} : q.mapped[m] = p.mapped[m],
           q.mapped[t.net] \in {p.mapped[t.net], t.obj},
           q.objs[t.obj].net = t.net,
           q.mapped[t.net] = t.obj => (t.kind = "retry" <=> q.objs[t.obj].state = "reconnecting")
    PROVE  Tasks(q)
<1>1. /\ p.launches \in Seq(TaskSet) /\ Len(p.launches) \in Nat
      /\ DOMAIN p.launches = 1 .. Len(p.launches)
  BY ValueFields, LenProperties
<1>2. /\ DOMAIN q.launches = 1 .. Len(p.launches) + 1
      /\ q.launches[Len(p.launches) + 1] = t
      /\ \A i \in 1 .. Len(p.launches) : q.launches[i] = p.launches[i]
  BY <1>1, AppendProperties
<1>3. \A i \in DOMAIN p.launches : p.launches[i].obj # t.obj /\ p.launches[i] \in TaskSet
  BY <1>1, ElementOfSeq DEF Waits, Queued
<1> SUFFICES ASSUME NEW i \in DOMAIN q.launches
             PROVE  LET u == q.launches[i] IN
                    /\ q.objs[u.obj].net = u.net
                    /\ q.mapped[u.net] = u.obj =>
                          (u.kind = "retry" <=> q.objs[u.obj].state = "reconnecting")
                    /\ \A j \in DOMAIN q.launches : q.launches[j].obj = u.obj => j = i
  BY DEF Tasks
<1>4. CASE i = Len(p.launches) + 1
  <2>1. ASSUME NEW j \in DOMAIN q.launches, q.launches[j].obj = t.obj PROVE j = i
    BY <1>1, <1>2, <1>3, <1>4, <2>1
  <2> QED BY <1>2, <1>4, <2>1
<1>5. CASE i # Len(p.launches) + 1
  <2>1. i \in DOMAIN p.launches /\ q.launches[i] = p.launches[i]
    BY <1>1, <1>2, <1>5
  <2> DEFINE u == p.launches[i]
  <2>2. u.obj \in Objs \ {t.obj} /\ u.net \in Nets
    BY <1>3, <2>1 DEF TaskSet
  <2>3. /\ p.objs[u.obj].net = u.net
        /\ p.mapped[u.net] = u.obj =>
              (u.kind = "retry" <=> p.objs[u.obj].state = "reconnecting")
        /\ \A j \in DOMAIN p.launches : p.launches[j].obj = u.obj => j = i
    BY <2>1 DEF Tasks
  <2>4. ASSUME NEW j \in DOMAIN q.launches, q.launches[j].obj = u.obj PROVE j = i
    <3>1. j \in DOMAIN p.launches
      BY <1>1, <1>2, <2>2, <2>4
    <3> QED BY <1>1, <1>2, <2>3, <2>4, <3>1
  <2>5. q.mapped[u.net] = u.obj => p.mapped[u.net] = u.obj
    BY <2>2
  <2> HIDE DEF u
  <2>6. q.launches[i] = u
    BY <2>1 DEF u
  <2> QED BY <2>2, <2>3, <2>4, <2>5, <2>6
<1> QED BY <1>4, <1>5

\* What holds at 0 and is handed on by each number holds up to n.
LEMMA Climb ==
    ASSUME NEW n \in Nat, NEW S, 0 \in S, \A i \in 0 .. n - 1 : i \in S => i + 1 \in S
    PROVE  \A i \in 0 .. n : i \in S
<1> DEFINE T == {i \in 0 .. n : i \notin S}
<1>1. CASE T = {}
  BY <1>1
<1>2. CASE T # {}
  <2>1. T \subseteq Nat
    OBVIOUS
  <2>2. IsWellFoundedOn(OpToRel(<, Nat), Nat)
    BY NatLessThanWellFounded
  <2>3. PICK x \in T : \A y \in T : ~(<<y, x>> \in OpToRel(<, Nat))
    BY <1>2, <2>1, <2>2, WFMin
  <2>r. OpToRel(<, Nat) = {r \in Nat \X Nat : r[1] < r[2]}
    BY Zenon DEF OpToRel
  <2>4. \A y \in T : ~(y < x)
    <3>1. \A y \in T : ~(<<y, x>> \in {r \in Nat \X Nat : r[1] < r[2]})
      BY <2>3, <2>r, Zenon
    <3>2. \A y \in T : <<y, x>> \in Nat \X Nat
      OBVIOUS
    <3> QED BY <3>1, <3>2
  <2>x. x \in 0 .. n /\ x \notin S
    BY <2>3
  <2>n. x # 0
    BY <2>x
  <2>5. x - 1 \in 0 .. n - 1 /\ x - 1 \in 0 .. n /\ (x - 1) + 1 = x /\ x - 1 < x
    BY ONLY n \in Nat, x \in 0 .. n, x # 0, <2>x, <2>n
  <2>6. x - 1 \notin T
    BY <2>4, <2>5
  <2> QED BY <2>x, <2>5, <2>6
<1> QED BY <1>1, <1>2

CanFollow(M, F, m, n) == \E it \in [0 .. n -> M] :
                            /\ it[0] = m
                            /\ \A i \in 1 .. n : it[i] = F[<<i, it[i - 1]>>]

\* What is done of each of n, in turn, can be done.
LEMMA Follows ==
    ASSUME NEW n \in Nat, NEW M, NEW F \in [(1 .. n) \X M -> M], NEW m \in M
    PROVE  CanFollow(M, F, m, n)
<1> DEFINE Good2(k) == \E it \in [0 .. k -> M] :
                         it[0] = m /\ \A i \in 1 .. k : it[i] = F[<<i, it[i - 1]>>]
           S == {k \in 0 .. n : Good2(k)}
<1>1. 0 \in S
  <2> DEFINE it == [i \in 0 .. 0 |-> m]
  <2>1. it \in [0 .. 0 -> M] /\ it[0] = m /\ \A i \in 1 .. 0 : it[i] = F[<<i, it[i - 1]>>]
    OBVIOUS
  <2> HIDE DEF it
  <2>2. Good2(0)
    BY <2>1
  <2> QED BY <2>2
<1>2. ASSUME NEW k \in 0 .. n - 1, k \in S PROVE k + 1 \in S
  <2>1. PICK it \in [0 .. k -> M] : it[0] = m /\ \A i \in 1 .. k : it[i] = F[<<i, it[i - 1]>>]
    BY <1>2
  <2> DEFINE x == F[<<k + 1, it[k]>>]
             r == [i \in 0 .. k + 1 |-> IF i = k + 1 THEN x ELSE it[i]]
  <2>2. x \in M
    <3>1. k + 1 \in 1 .. n /\ it[k] \in M
      BY <2>1
    <3> QED BY <3>1
  <2> HIDE DEF x
  <2>3. r \in [0 .. k + 1 -> M]
    BY <2>1, <2>2
  <2>4. r[0] = m /\ r[k + 1] = x /\ \A i \in 0 .. k : r[i] = it[i]
    BY <2>1
  <2> HIDE DEF r
  <2>5. ASSUME NEW i \in 1 .. k + 1 PROVE r[i] = F[<<i, r[i - 1]>>]
    <3>1. CASE i = k + 1
      <4>1. i - 1 = k /\ k \in 0 .. k
        BY <3>1
      <4> QED BY <2>4, <3>1, <4>1 DEF x
    <3>2. CASE i # k + 1
      <4>1. i \in 1 .. k /\ i \in 0 .. k /\ i - 1 \in 0 .. k
        BY <3>2
      <4> QED BY <2>1, <2>4, <4>1
    <3> QED BY <3>1, <3>2
  <2>6. Good2(k + 1)
    BY <2>3, <2>4, <2>5
  <2> QED BY <2>6
<1> HIDE DEF Good2
<1>3. \A k \in 0 .. n : k \in S
  <2> HIDE DEF S
  <2> QED BY <1>1, <1>2, Climb
<1>4. Good2(n)
  BY <1>3
<1> QED BY <1>4 DEF Good2, CanFollow

-----------------------------------------------------------------------------
(* The networks that are stopped.                                          *)

Retrying(p, n) == LET k == p.objs[p.mapped[n]] IN
    p.mapped[n] # 0 /\ (k.timer \/ k.state = "reconnecting")

Off(k) == [k EXCEPT !.intent = TRUE, !.timer = FALSE,
                    !.state = IF k.timer \/ k.state = "reconnecting" THEN "disconnected"
                              ELSE @]

\* q is p with the networks of N stopped.
LetGo(p, q, N) ==
    /\ q \in Values
    /\ q.launches = p.launches /\ q.gates = p.gates /\ q.pump = p.pump
    /\ q.policy = p.policy
    /\ \A n \in Nets : q.mapped[n] = IF n \in N THEN 0 ELSE p.mapped[n]
    /\ \A c \in Objs : q.objs[c] = IF \E n \in N : p.mapped[n] = c THEN Off(p.objs[c])
                                   ELSE p.objs[c]
    /\ \A n \in Nets : q.told[n] = IF n \in N /\ Retrying(p, n) THEN "disconnected"
                                   ELSE p.told[n]

\* A network that is let go.
LEMMA UnmapIs ==
    ASSUME NEW p \in Values, NEW n \in Nets
    PROVE  LET q == Unmap(p, n) IN
           /\ q \in Values
           /\ \A m \in Nets : q.mapped[m] = IF m = n THEN 0 ELSE p.mapped[m]
           /\ q.objs = p.objs /\ q.launches = p.launches /\ q.gates = p.gates
           /\ q.pump = p.pump /\ q.policy = p.policy /\ q.told = p.told
<1>1. 0 \in 0 .. MaxObjs
  BY LadderConstants
<1> QED BY <1>1 DEF Unmap, Values

\* disconnect: nothing that was waiting is waited for.
LEMMA DisconnectIs ==
    ASSUME NEW p \in Values, NEW c \in Objs, ~p.objs[c].disposed, p.objs[c].net \in Nets
    PROVE  LET q == Disconnect(p, c)
               k == p.objs[c] IN
           /\ q \in Values /\ q.objs[c] = Off(k)
           /\ \A d \in Objs \ {c} : q.objs[d] = p.objs[d]
           /\ q.mapped = p.mapped /\ q.launches = p.launches /\ q.gates = p.gates
           /\ q.pump = p.pump /\ q.policy = p.policy
           /\ \A m \in Nets : q.told[m] = IF m = k.net /\ (k.timer \/ k.state = "reconnecting")
                                          THEN "disconnected" ELSE p.told[m]
<1> DEFINE k == p.objs[c]
           j == [k EXCEPT !.intent = TRUE, !.timer = FALSE]
           q == [p EXCEPT !.objs[c] = j]
           r == Disconnect(p, c)
<1>1. k \in ObjSet /\ j \in ObjSet
  <2>1. k \in ObjSet
    BY ValueFields
  <2> QED BY <2>1 DEF ObjSet
<1>2. /\ q \in Values /\ q.objs[c] = j
      /\ \A d \in Objs \ {c} : q.objs[d] = p.objs[d]
      /\ q.mapped = p.mapped /\ q.launches = p.launches /\ q.gates = p.gates
      /\ q.pump = p.pump /\ q.policy = p.policy /\ q.told = p.told
  <2> HIDE DEF j, k
  <2> QED BY <1>1, PutObj
<1>3. r = IF k.timer \/ k.state = "reconnecting" THEN SetState(q, c, "disconnected") ELSE q
  BY DEF Disconnect
<1>4. /\ j.disposed = k.disposed /\ j.net = k.net /\ j.state = k.state
      /\ Off(k) = [j EXCEPT !.state = IF k.timer \/ k.state = "reconnecting"
                                      THEN "disconnected" ELSE @]
  BY <1>1 DEF ObjSet, Off
<1> HIDE DEF j, q, r
<1>5. CASE k.timer \/ k.state = "reconnecting"
  <2>1. r = SetState(q, c, "disconnected") /\ "disconnected" \in NetStates
    BY <1>3, <1>5 DEF NetStates
  <2>2. /\ r \in Values /\ r.objs[c] = [j EXCEPT !.state = "disconnected"]
        /\ \A d \in Objs \ {c} : r.objs[d] = q.objs[d]
        /\ r.mapped = q.mapped /\ r.launches = q.launches /\ r.gates = q.gates
        /\ r.pump = q.pump /\ r.policy = q.policy
        /\ \A m \in Nets : r.told[m] = IF ~j.disposed /\ m = j.net THEN "disconnected"
                                       ELSE q.told[m]
    BY <1>2, <2>1, SetStateIs
  <2>3. r.objs[c] = Off(k)
    BY <1>4, <1>5, <2>2
  <2> QED BY <1>2, <1>4, <1>5, <2>2, <2>3 DEF r
<1>6. CASE ~(k.timer \/ k.state = "reconnecting")
  <2>1. r = q /\ Off(k) = j
    BY <1>1, <1>3, <1>4, <1>6 DEF ObjSet
  <2> QED BY <1>2, <1>6, <2>1 DEF r
<1> QED BY <1>5, <1>6

\* stopNetwork.
LEMMA StopOne ==
    ASSUME NEW p \in Values, Mapped(p), NEW n \in Nets
    PROVE  LetGo(p, StopNetwork(p, n), {n})
<1> DEFINE c == p.mapped[n]
           q == StopNetwork(p, n)
<1>1. CASE c = 0
  <2>1. q = p
    BY <1>1 DEF StopNetwork
  <2>2. \A d \in Objs : p.mapped[n] # d
    BY <1>1, LadderConstants
  <2> QED BY <1>1, <2>1, <2>2 DEF LetGo, Retrying
<1>2. CASE c # 0
  <2> DEFINE r == Disconnect(p, c)
  <2>1. c \in Objs /\ ~p.objs[c].disposed /\ p.objs[c].net = n
    BY <1>2, ValueFields, LadderConstants DEF Mapped
  <2>2. q = Unmap(r, n)
    BY <1>2 DEF StopNetwork
  <2>3. /\ r \in Values /\ r.objs[c] = Off(p.objs[c])
        /\ \A d \in Objs \ {c} : r.objs[d] = p.objs[d]
        /\ r.mapped = p.mapped /\ r.launches = p.launches /\ r.gates = p.gates
        /\ r.pump = p.pump /\ r.policy = p.policy
        /\ \A m \in Nets : r.told[m] = IF m = n /\ (p.objs[c].timer \/ p.objs[c].state = "reconnecting")
                                       THEN "disconnected" ELSE p.told[m]
    <3> HIDE DEF c
    <3> QED BY <2>1, DisconnectIs
  <2> HIDE DEF r, q
  <2>4. /\ q \in Values
        /\ \A m \in Nets : q.mapped[m] = IF m = n THEN 0 ELSE r.mapped[m]
        /\ q.objs = r.objs /\ q.launches = r.launches /\ q.gates = r.gates
        /\ q.pump = r.pump /\ q.policy = r.policy /\ q.told = r.told
    BY <2>2, <2>3, UnmapIs
  <2>5. LetGo(p, q, {n})
    BY <1>2, <2>1, <2>3, <2>4 DEF LetGo, Retrying
  <2> QED BY <2>5 DEF q
<1> QED BY <1>1, <1>2

\* The map still holds objects that nobody has ended.
LEMMA StoppedMapped ==
    ASSUME NEW p \in Values, Mapped(p), NEW N, N \subseteq Nets, NEW q, LetGo(p, q, N)
    PROVE  Mapped(q)
<1>0. \A n \in Nets : p.mapped[n] # 0 => p.mapped[n] \in Objs
  BY ValueFields, LadderConstants
<1>1. ASSUME NEW n \in Nets, q.mapped[n] # 0
      PROVE  q.mapped[n] = p.mapped[n] /\ q.objs[q.mapped[n]] = p.objs[p.mapped[n]]
  <2>1. n \notin N /\ q.mapped[n] = p.mapped[n] /\ p.mapped[n] \in Objs
    BY <1>0, <1>1 DEF LetGo
  <2>2. ~\E m \in N : p.mapped[m] = p.mapped[n]
    BY <1>1, <2>1 DEF Mapped
  <2> QED BY <2>1, <2>2 DEF LetGo
<1> QED BY <1>1 DEF Mapped, LetGo

\* One more is stopped.
LEMMA StopMore ==
    ASSUME NEW p \in Values, Mapped(p), NEW N, N \subseteq Nets, NEW q, LetGo(p, q, N),
           NEW n \in Nets, n \notin N
    PROVE  LetGo(p, StopNetwork(q, n), N \union {n})
<1> DEFINE r == StopNetwork(q, n)
<1>0. \A m \in Nets : p.mapped[m] # 0 => p.mapped[m] \in Objs
  BY ValueFields, LadderConstants
<1>1. q \in Values /\ Mapped(q)
  BY StoppedMapped DEF LetGo
<1>2. LetGo(q, r, {n})
  BY <1>1, StopOne
<1>3. q.mapped[n] = p.mapped[n]
  BY DEF LetGo
<1>4. ASSUME p.mapped[n] # 0 PROVE q.objs[p.mapped[n]] = p.objs[p.mapped[n]]
  <2>1. ~\E m \in N : p.mapped[m] = p.mapped[n]
    BY <1>4 DEF Mapped
  <2> QED BY <1>0, <1>4, <2>1 DEF LetGo
<1> HIDE DEF r
<1>5. \A m \in Nets : r.mapped[m] = IF m \in N \union {n} THEN 0 ELSE p.mapped[m]
  BY <1>2 DEF LetGo
<1>6. Retrying(q, n) <=> Retrying(p, n)
  BY <1>3, <1>4 DEF Retrying
<1>7. \A m \in Nets : r.told[m] = IF m \in N \union {n} /\ Retrying(p, m) THEN "disconnected"
                                  ELSE p.told[m]
  BY <1>2, <1>6 DEF LetGo
<1>8. ASSUME NEW c \in Objs
      PROVE  r.objs[c] = IF \E m \in N \union {n} : p.mapped[m] = c THEN Off(p.objs[c])
                         ELSE p.objs[c]
  <2>1. CASE p.mapped[n] = c
    <3>1. c # 0
      BY LadderConstants
    <3>2. q.objs[c] = p.objs[c] /\ r.objs[c] = Off(q.objs[c])
      BY <1>2, <1>3, <1>4, <2>1, <3>1 DEF LetGo
    <3> QED BY <2>1, <3>2
  <2>2. CASE p.mapped[n] # c
    <3>1. r.objs[c] = q.objs[c]
      BY <1>2, <1>3, <2>2 DEF LetGo
    <3> QED BY <2>2, <3>1 DEF LetGo
  <2> QED BY <2>1, <2>2
<1>9. /\ r \in Values /\ r.launches = p.launches /\ r.gates = p.gates /\ r.pump = p.pump
      /\ r.policy = p.policy
  BY <1>2 DEF LetGo
<1>10. LetGo(p, r, N \union {n})
  BY <1>5, <1>7, <1>8, <1>9 DEF LetGo
<1> QED BY <1>10 DEF r

\* OfEach stops them one after the other.
LEMMA StopEach ==
    ASSUME NEW p \in Values, Mapped(p), NEW N, N \subseteq Nets
    PROVE  LetGo(p, OfEach(StopNetwork, p, N), N)
<1> DEFINE M == {v \in Values : Mapped(v)}
           F == [x \in (1 .. NumNets) \X M |->
                    IF x[1] \in N THEN StopNetwork(x[2], x[1]) ELSE x[2]]
<1>0. NumNets \in Nat /\ Nets = 1 .. NumNets
  BY LadderConstants DEF Nets
<1>1. ASSUME NEW i \in 1 .. NumNets, NEW v \in M
      PROVE  (IF i \in N THEN StopNetwork(v, i) ELSE v) \in M
  <2>1. v \in Values /\ Mapped(v) /\ i \in Nets
    BY <1>0
  <2>2. LetGo(v, StopNetwork(v, i), {i})
    BY <2>1, StopOne
  <2>3. Mapped(StopNetwork(v, i)) /\ StopNetwork(v, i) \in Values
    BY <2>1, <2>2, StoppedMapped DEF LetGo
  <2> QED BY <2>3
<1>2. F \in [(1 .. NumNets) \X M -> M]
  BY <1>1
<1>3. \A i \in 1 .. NumNets, v \in M :
         F[<<i, v>>] = IF i \in N THEN StopNetwork(v, i) ELSE v
  OBVIOUS
<1>4. p \in M
  OBVIOUS
<1> HIDE DEF F, M
<1>5. PICK it \in [0 .. NumNets -> M] :
         it[0] = p /\ \A i \in 1 .. NumNets : it[i] = F[<<i, it[i - 1]>>]
  <2>1. CanFollow(M, F, p, NumNets)
    BY <1>0, <1>2, <1>4, Follows
  <2> QED BY <2>1 DEF CanFollow
<1>6. it = [n \in 0 .. NumNets |-> IF n = 0 THEN p ELSE IF n \in N THEN StopNetwork(it[n - 1], n)
                                                         ELSE it[n - 1]]
  <2>1. ASSUME NEW n \in 0 .. NumNets
        PROVE  it[n] = IF n = 0 THEN p ELSE IF n \in N THEN StopNetwork(it[n - 1], n)
                                            ELSE it[n - 1]
    <3>1. CASE n = 0
      BY <1>5, <3>1
    <3>2. CASE n # 0
      <4>1. n \in 1 .. NumNets /\ n - 1 \in 0 .. NumNets
        BY <1>0, <3>2
      <4> QED BY <1>3, <1>5, <3>2, <4>1
    <3> QED BY <3>1, <3>2
  <2> QED BY <1>5, <2>1
<1>7. \E r : r = [n \in 0 .. NumNets |-> IF n = 0 THEN p ELSE IF n \in N THEN StopNetwork(r[n - 1], n)
                                                              ELSE r[n - 1]]
  BY <1>6
<1>8. PICK r : /\ r = [n \in 0 .. NumNets |-> IF n = 0 THEN p
                                              ELSE IF n \in N THEN StopNetwork(r[n - 1], n)
                                              ELSE r[n - 1]]
               /\ OfEach(StopNetwork, p, N) = r[NumNets]
  <2>1. OfEach(StopNetwork, p, N)
          = LET each[n \in 0 .. NumNets] ==
                    IF n = 0 THEN p ELSE IF n \in N THEN StopNetwork(each[n - 1], n)
                                         ELSE each[n - 1]
            IN  each[NumNets]
    BY DEF OfEach
  <2> QED BY <1>7, <2>1, Zenon
<1>9. r[0] = p /\ \A n \in 1 .. NumNets : r[n] = IF n \in N THEN StopNetwork(r[n - 1], n)
                                                 ELSE r[n - 1]
  <2>1. \A n \in 0 .. NumNets : r[n] = IF n = 0 THEN p ELSE IF n \in N THEN StopNetwork(r[n - 1], n)
                                                            ELSE r[n - 1]
    BY <1>8
  <2>2. 0 \in 0 .. NumNets /\ \A n \in 1 .. NumNets : n \in 0 .. NumNets /\ n # 0
    BY <1>0
  <2> QED BY <2>1, <2>2
<1> DEFINE S == {i \in 0 .. NumNets : LetGo(p, r[i], N \intersect (1 .. i))}
<1>10. 0 \in S
  <2>1. N \intersect (1 .. 0) = {} /\ 0 \in 0 .. NumNets
    BY <1>0
  <2>2. LetGo(p, p, {})
    BY DEF LetGo
  <2> QED BY <1>9, <2>1, <2>2
<1>11. ASSUME NEW i \in 0 .. NumNets - 1, i \in S PROVE i + 1 \in S
  <2>1. i + 1 \in 1 .. NumNets /\ (i + 1) - 1 = i /\ i + 1 \in Nets /\ i + 1 \in 0 .. NumNets
        /\ i + 1 \notin N \intersect (1 .. i) /\ N \intersect (1 .. i) \subseteq Nets
    BY <1>0
  <2>2. LetGo(p, r[i], N \intersect (1 .. i))
    BY <1>11
  <2>3. CASE i + 1 \in N
    <3>1. r[i + 1] = StopNetwork(r[i], i + 1)
      BY <1>9, <2>1, <2>3
    <3>2. N \intersect (1 .. i + 1) = (N \intersect (1 .. i)) \union {i + 1}
      BY <2>1, <2>3
    <3>3. LetGo(p, r[i + 1], (N \intersect (1 .. i)) \union {i + 1})
      <4> DEFINE A == N \intersect (1 .. i)
                 v == r[i]
                 m == i + 1
      <4>1. A \subseteq Nets /\ m \in Nets /\ m \notin A /\ LetGo(p, v, A)
        BY <2>1, <2>2
      <4> HIDE DEF A, v, m
      <4>2. LetGo(p, StopNetwork(v, m), A \union {m})
        BY <4>1, StopMore
      <4> QED BY <3>1, <4>2 DEF A, v, m
    <3>4. LetGo(p, r[i + 1], N \intersect (1 .. i + 1))
      BY ONLY <3>2, <3>3
    <3> QED BY ONLY <2>1, <3>4
  <2>4. CASE i + 1 \notin N
    <3>1. r[i + 1] = r[i]
      BY <1>9, <2>1, <2>4
    <3>2. N \intersect (1 .. i + 1) = N \intersect (1 .. i)
      BY <2>1, <2>4
    <3> QED BY <2>1, <2>2, <3>1, <3>2
  <2> QED BY <2>3, <2>4
<1>12. NumNets \in S
  <2> HIDE DEF S
  <2>1. \A i \in 0 .. NumNets : i \in S
    BY <1>0, <1>10, <1>11, Climb
  <2> QED BY <1>0, <2>1
<1>13. N \intersect (1 .. NumNets) = N
  BY <1>0
<1> QED BY <1>8, <1>12, <1>13

\* An object that was told to disconnect carries nothing on.
LEMMA OffIs ==
    ASSUME NEW k \in ObjSet
    PROVE  LET j == Off(k) IN
           /\ j.net = k.net /\ j.sock = k.sock /\ j.disposed = k.disposed
           /\ j.intent /\ ~j.timer
  BY DEF Off, ObjSet

\* Stopping keeps what is good, also while the policy changes or the queue is
\* thrown away.
LEMMA StoppedGood ==
    ASSUME NEW o, Good(o), NEW N, N \subseteq Nets, NEW p \in Values,
           p.mapped = o.mapped, p.objs = o.objs, p.told = o.told,
           p.launches = o.launches \/ (p.launches = <<>> /\ N = Nets),
           NEW q, LetGo(p, q, N),
           \A n \in Nets \ N : o.mapped[n] # 0 =>
               /\ ~p.policy.paused /\ AccountAllows(p, HostOf[n])
               /\ o.objs[o.mapped[n]].state # "disconnected"
                     => ~(p.policy.list.held /\ n \in Proxied)
    PROVE  Good(q)
<1>0. /\ \A n \in Nets : o.mapped[n] # 0 => o.mapped[n] \in Objs
      /\ \A c \in Objs : o.objs[c] \in ObjSet
      /\ o \in Values /\ 0 \notin Objs
  BY ValueFields, LadderConstants DEF Good
<1>1. /\ q \in Values /\ q.launches = p.launches /\ q.policy = p.policy
      /\ \A n \in Nets : q.mapped[n] = IF n \in N THEN 0 ELSE o.mapped[n]
      /\ \A c \in Objs : q.objs[c] = IF \E n \in N : o.mapped[n] = c THEN Off(o.objs[c])
                                     ELSE o.objs[c]
      /\ \A n \in Nets : q.told[n] = IF n \in N /\ Retrying(o, n) THEN "disconnected"
                                     ELSE o.told[n]
  BY DEF LetGo, Retrying
<1>2. ASSUME NEW n \in Nets, q.mapped[n] # 0
      PROVE  /\ n \notin N /\ q.mapped[n] = o.mapped[n] /\ o.mapped[n] \in Objs
             /\ q.objs[q.mapped[n]] = o.objs[o.mapped[n]]
             /\ q.launches = o.launches
  <2>1. n \notin N /\ q.mapped[n] = o.mapped[n] /\ o.mapped[n] \in Objs
    BY <1>0, <1>1, <1>2
  <2>2. ~\E m \in N : o.mapped[m] = o.mapped[n]
    BY <1>2, <2>1 DEF Good, Mapped
  <2> QED BY <1>1, <2>1, <2>2
<1>3. Mapped(q)
  BY <1>2 DEF Good, Mapped
<1>4. AllCarried(q)
  <2> SUFFICES ASSUME NEW n \in Nets, q.mapped[n] # 0 PROVE CarriedOn(q, q.mapped[n])
    BY DEF AllCarried
  <2>1. CarriedOn(o, o.mapped[n])
    BY <1>2 DEF Good, AllCarried
  <2> DEFINE c == o.mapped[n]
  <2>2. q.mapped[n] = c /\ q.objs[c] = o.objs[c] /\ (Waits(q, c) <=> Waits(o, c))
    BY <1>2 DEF Waits, Queued
  <2>3. CarriedOn(o, c)
    BY <2>1
  <2> HIDE DEF c
  <2> QED BY <2>2, <2>3 DEF CarriedOn
<1>5. AllOwned(q)
  <2> SUFFICES ASSUME NEW c \in Objs PROVE Belongs(q, c) /\ Idle(q, c)
    BY DEF AllOwned
  <2>1. Belongs(o, c) /\ Idle(o, c)
    BY DEF Good, AllOwned
  <2>2. CASE \E n \in N : o.mapped[n] = c
    <3>1. /\ q.objs[c].intent /\ ~q.objs[c].timer
          /\ q.objs[c].net = o.objs[c].net
      BY <1>0, <1>1, <2>2, OffIs
    <3>2. o.objs[c].net \in Nets
      BY <1>0, <2>2 DEF Good, Mapped
    <3> QED BY <3>1, <3>2 DEF Belongs, Idle
  <2>3. CASE ~\E n \in N : o.mapped[n] = c
    <3>1. q.objs[c] = o.objs[c]
      BY <1>1, <2>3
    <3>2. Waits(q, c) => Waits(o, c)
      <4>1. CASE p.launches = <<>>
        BY <1>1, <4>1 DEF Waits, Queued
      <4>2. CASE p.launches = o.launches
        BY <1>1, <4>2 DEF Waits, Queued
      <4> QED BY <4>1, <4>2
    <3>3. \A n \in Nets : o.mapped[n] = c => q.mapped[n] = c
      BY <1>1, <2>3
    <3> QED BY <2>1, <3>1, <3>2, <3>3 DEF Belongs, Idle
  <2> QED BY <2>2, <2>3
<1>6. Tasks(q)
  <2>1. CASE p.launches = <<>>
    BY <1>1, <2>1 DEF Tasks
  <2>2. CASE p.launches = o.launches
    <3> SUFFICES ASSUME NEW i \in DOMAIN q.launches
                 PROVE  LET t == q.launches[i] IN
                        /\ q.objs[t.obj].net = t.net
                        /\ q.mapped[t.net] = t.obj =>
                              (t.kind = "retry" <=> q.objs[t.obj].state = "reconnecting")
                        /\ \A j \in DOMAIN q.launches : q.launches[j].obj = t.obj => j = i
      BY DEF Tasks
    <3> DEFINE t == o.launches[i]
    <3>1. i \in DOMAIN o.launches /\ q.launches[i] = t /\ t \in TaskSet
      BY <1>0, <1>1, <2>2, ValueFields, ElementOfSeq
    <3>2. t.obj \in Objs /\ t.net \in Nets
      BY <3>1 DEF TaskSet
    <3>3. /\ o.objs[t.obj].net = t.net
          /\ o.mapped[t.net] = t.obj =>
                (t.kind = "retry" <=> o.objs[t.obj].state = "reconnecting")
          /\ \A j \in DOMAIN o.launches : o.launches[j].obj = t.obj => j = i
      BY <3>1 DEF Good, Tasks
    <3> HIDE DEF t
    <3>4. q.objs[t.obj].net = o.objs[t.obj].net
      BY <1>0, <1>1, <3>2, OffIs
    <3>5. ASSUME q.mapped[t.net] = t.obj
          PROVE  o.mapped[t.net] = t.obj /\ q.objs[t.obj] = o.objs[t.obj]
      BY <1>0, <1>2, <3>2, <3>5
    <3> QED BY <1>1, <2>2, <3>1, <3>3, <3>4, <3>5
  <2> QED BY <2>1, <2>2
<1>7. Allowed(q)
  <2> SUFFICES ASSUME NEW n \in Nets, q.mapped[n] # 0
               PROVE  /\ ~q.policy.paused /\ AccountAllows(q, HostOf[n])
                      /\ q.objs[q.mapped[n]].state # "disconnected"
                            => ~(q.policy.list.held /\ n \in Proxied)
    BY DEF Allowed
  <2> QED BY <1>1, <1>2 DEF AccountAllows
<1>8. AllStand(q)
  <2> SUFFICES ASSUME NEW n \in Nets PROVE Stands(q, n)
    BY DEF AllStand
  <2>1. Stands(o, n)
    BY DEF Good, AllStand
  <2>2. ASSUME q.told[n] = "reconnecting"
        PROVE  q.mapped[n] # 0 /\ q.objs[q.mapped[n]].state = "reconnecting"
    <3>1. o.told[n] = "reconnecting" /\ ~(n \in N /\ Retrying(o, n))
      BY <1>1, <2>2
    <3>2. o.mapped[n] # 0 /\ o.objs[o.mapped[n]].state = "reconnecting"
      BY <2>1, <3>1 DEF Stands
    <3>3. n \notin N
      BY <3>1, <3>2 DEF Retrying
    <3> QED BY <1>1, <1>2, <3>2, <3>3
  <2>3. ASSUME q.told[n] \in {"connecting", "connected"}
        PROVE  \E c \in Objs : /\ q.objs[c].net = n /\ ~q.objs[c].disposed
                               /\ q.objs[c].sock # "none"
    <3>1. o.told[n] = q.told[n]
      BY <1>1, <2>3
    <3>2. PICK c \in Objs : /\ o.objs[c].net = n /\ ~o.objs[c].disposed
                            /\ o.objs[c].sock # "none"
      BY <2>1, <2>3, <3>1 DEF Stands
    <3>3. /\ q.objs[c].net = o.objs[c].net /\ q.objs[c].disposed = o.objs[c].disposed
          /\ q.objs[c].sock = o.objs[c].sock
      BY <1>0, <1>1, OffIs
    <3> QED BY <3>2, <3>3
  <2> QED BY <2>2, <2>3 DEF Stands
<1> QED BY <1>1, <1>3, <1>4, <1>5, <1>6, <1>7, <1>8 DEF Good

-----------------------------------------------------------------------------
(* Connections that are begun.                                             *)

SameQueue(p, q) == q.launches = p.launches /\ q.gates = p.gates /\ q.pump = p.pump

\* The timer is armed as long as the queue and the gates are the same.
LEMMA StillArmed ==
    ASSUME NEW p, NEW q, Armed(p), SameQueue(p, q)
    PROVE  Armed(q)
  BY DEF Armed, SameQueue, Soonest, ReadyIn

\* Tasks are undisturbed while what they are of is.
LEMMA TasksStay ==
    ASSUME NEW p \in Values, Tasks(p), NEW q, q.launches = p.launches,
           \A d \in Objs : Waits(p, d) =>
               /\ q.objs[d].net = p.objs[d].net
               /\ \A m \in Nets : q.mapped[m] = d =>
                     p.mapped[m] = d /\ q.objs[d].state = p.objs[d].state
    PROVE  Tasks(q)
<1> SUFFICES ASSUME NEW i \in DOMAIN q.launches
             PROVE  LET t == q.launches[i] IN
                    /\ q.objs[t.obj].net = t.net
                    /\ q.mapped[t.net] = t.obj =>
                          (t.kind = "retry" <=> q.objs[t.obj].state = "reconnecting")
                    /\ \A j \in DOMAIN q.launches : q.launches[j].obj = t.obj => j = i
  BY DEF Tasks
<1> DEFINE t == p.launches[i]
<1>1. i \in DOMAIN p.launches /\ q.launches[i] = t /\ t \in TaskSet
  BY ValueFields, ElementOfSeq
<1>2. t.obj \in Objs /\ t.net \in Nets
  BY <1>1 DEF TaskSet
<1>3. /\ p.objs[t.obj].net = t.net
      /\ p.mapped[t.net] = t.obj =>
            (t.kind = "retry" <=> p.objs[t.obj].state = "reconnecting")
      /\ \A j \in DOMAIN p.launches : p.launches[j].obj = t.obj => j = i
  BY <1>1 DEF Tasks
<1>4. Waits(p, t.obj)
  BY <1>1 DEF Waits, Queued
<1> HIDE DEF t
<1> QED BY <1>1, <1>2, <1>3, <1>4

\* An object that is disposed.
LEMMA DisposeIs ==
    ASSUME NEW p \in Values, NEW c \in Objs
    PROVE  LET q == Dispose(p, c) IN
           /\ q \in Values
           /\ q.objs[c].disposed /\ ~q.objs[c].timer
           /\ q.objs[c].net = p.objs[c].net /\ q.objs[c].sock = p.objs[c].sock
           /\ \A d \in Objs \ {c} : q.objs[d] = p.objs[d]
           /\ q.mapped = p.mapped /\ q.launches = p.launches /\ q.gates = p.gates
           /\ q.pump = p.pump /\ q.policy = p.policy /\ q.told = p.told
<1> DEFINE k == p.objs[c]
           j == [k EXCEPT !.disposed = TRUE, !.timer = FALSE]
           q == [p EXCEPT !.objs[c] = j]
<1>1. k \in ObjSet
  BY ValueFields
<1>2. j \in ObjSet /\ j.disposed /\ ~j.timer /\ j.net = k.net /\ j.sock = k.sock
  BY <1>1 DEF ObjSet
<1>3. Dispose(p, c) = q
  BY DEF Dispose
<1>4. /\ q \in Values /\ q.objs[c] = j
      /\ \A d \in Objs \ {c} : q.objs[d] = p.objs[d]
      /\ q.mapped = p.mapped /\ q.launches = p.launches /\ q.gates = p.gates
      /\ q.pump = p.pump /\ q.policy = p.policy /\ q.told = p.told
  <2> HIDE DEF j
  <2> QED BY <1>2, PutObj
<1> HIDE DEF q, j
<1> QED BY <1>2, <1>3, <1>4

\* connect, of an object that the map holds.
LEMMA ConnectIs ==
    ASSUME NEW p \in Values, NEW c \in Objs, NEW n \in Nets,
           p.mapped[n] = c, p.objs[c].net = n, ~p.objs[c].disposed
    PROVE  LET q == Connect(p, c)
               k == q.objs[c] IN
           /\ q \in Values /\ SameQueue(p, q) /\ q.policy = p.policy
           /\ \A d \in Objs \ {c} : q.objs[d] = p.objs[d]
           /\ \A m \in Nets \ {n} : q.mapped[m] = p.mapped[m] /\ q.told[m] = p.told[m]
           /\ k.net = n /\ ~k.timer
           /\ ~Blocked(p, n) =>
                 /\ q.mapped[n] = c /\ q.told[n] = "connecting"
                 /\ k.sock = "dialing" /\ k.state = "connecting"
                 /\ ~k.intent /\ ~k.disposed /\ ~k.terminal
           /\ Blocked(p, n) => q.mapped[n] = 0 /\ q.told[n] = "disconnected" /\ k.disposed
<1> DEFINE k == p.objs[c]
           j == [k EXCEPT !.timer = FALSE, !.intent = FALSE,
                          !.terminal = FALSE, !.sasl = FALSE, !.ban = FALSE]
           a == [p EXCEPT !.objs[c] = j]
           q == Connect(p, c)
<1>1. k \in ObjSet
  BY ValueFields
<1>2. /\ j \in ObjSet /\ ~j.timer /\ ~j.intent /\ ~j.terminal
      /\ ~j.disposed /\ j.net = n /\ j.sock = k.sock
  BY <1>1 DEF ObjSet
<1>3. /\ a \in Values /\ a.objs[c] = j
      /\ \A d \in Objs \ {c} : a.objs[d] = p.objs[d]
      /\ a.mapped = p.mapped /\ a.launches = p.launches /\ a.gates = p.gates
      /\ a.pump = p.pump /\ a.policy = p.policy /\ a.told = p.told
  <2> HIDE DEF j
  <2> QED BY <1>2, PutObj
<1>4. q = IF Blocked(p, n) THEN NeedsRebuild(SetState(a, c, "disconnected"), c)
          ELSE SetState([a EXCEPT !.objs[c].sock = "dialing"], c, "connecting")
  BY DEF Connect
<1> HIDE DEF j, a, q
<1>5. CASE ~Blocked(p, n)
  <2> DEFINE b == [j EXCEPT !.sock = "dialing"]
             s == [a EXCEPT !.objs[c] = b]
  <2>1. b \in ObjSet /\ b.sock = "dialing" /\ ~b.timer /\ ~b.intent /\ ~b.terminal
        /\ ~b.disposed /\ b.net = n
    BY <1>2 DEF ObjSet
  <2>2. /\ s \in Values /\ s.objs[c] = b
        /\ \A d \in Objs \ {c} : s.objs[d] = a.objs[d]
        /\ s.mapped = a.mapped /\ s.launches = a.launches /\ s.gates = a.gates
        /\ s.pump = a.pump /\ s.policy = a.policy /\ s.told = a.told
    <3> HIDE DEF b
    <3> QED BY <1>3, <2>1, PutObj
  <2>3. q = SetState(s, c, "connecting") /\ "connecting" \in NetStates
    BY <1>3, <1>4, <1>5 DEF NetStates
  <2> HIDE DEF b, s
  <2>4. /\ q \in Values /\ q.objs[c] = [b EXCEPT !.state = "connecting"]
        /\ \A d \in Objs \ {c} : q.objs[d] = s.objs[d]
        /\ q.mapped = s.mapped /\ q.launches = s.launches /\ q.gates = s.gates
        /\ q.pump = s.pump /\ q.policy = s.policy
        /\ \A m \in Nets : q.told[m] = IF ~b.disposed /\ m = b.net THEN "connecting" ELSE s.told[m]
    BY <2>2, <2>3, SetStateIs
  <2>5. /\ q.objs[c].sock = "dialing" /\ q.objs[c].state = "connecting" /\ ~q.objs[c].timer
        /\ ~q.objs[c].intent /\ ~q.objs[c].terminal /\ ~q.objs[c].disposed /\ q.objs[c].net = n
    BY <2>1, <2>4 DEF ObjSet
  <2> QED BY <1>3, <1>5, <2>1, <2>2, <2>4, <2>5 DEF SameQueue, q
<1>6. CASE Blocked(p, n)
  <2> DEFINE s == SetState(a, c, "disconnected")
             u == Unmap(s, n)
  <2>1. /\ s \in Values /\ s.objs[c] = [j EXCEPT !.state = "disconnected"]
        /\ \A d \in Objs \ {c} : s.objs[d] = a.objs[d]
        /\ s.mapped = a.mapped /\ s.launches = a.launches /\ s.gates = a.gates
        /\ s.pump = a.pump /\ s.policy = a.policy
        /\ \A m \in Nets : s.told[m] = IF ~j.disposed /\ m = j.net THEN "disconnected" ELSE a.told[m]
    <3>1. "disconnected" \in NetStates
      BY DEF NetStates
    <3> QED BY <1>3, <3>1, SetStateIs
  <2>2. s.objs[c].net = n
    BY <1>2, <2>1 DEF ObjSet
  <2>3. q = Dispose(u, c)
    BY <1>3, <1>4, <1>6, <2>1, <2>2 DEF NeedsRebuild
  <2> HIDE DEF s
  <2>4. /\ u \in Values
        /\ \A m \in Nets : u.mapped[m] = IF m = n THEN 0 ELSE s.mapped[m]
        /\ u.objs = s.objs /\ u.launches = s.launches /\ u.gates = s.gates
        /\ u.pump = s.pump /\ u.policy = s.policy /\ u.told = s.told
    BY <2>1, UnmapIs
  <2> HIDE DEF u
  <2>5. /\ q \in Values
        /\ q.objs[c].disposed /\ ~q.objs[c].timer /\ q.objs[c].net = u.objs[c].net
        /\ \A d \in Objs \ {c} : q.objs[d] = u.objs[d]
        /\ q.mapped = u.mapped /\ q.launches = u.launches /\ q.gates = u.gates
        /\ q.pump = u.pump /\ q.policy = u.policy /\ q.told = u.told
    BY <2>3, <2>4, DisposeIs
  <2> QED BY <1>2, <1>3, <1>6, <2>1, <2>2, <2>4, <2>5 DEF SameQueue, q
<1> QED BY <1>5, <1>6

\* A connection that is begun is in its place, or let go of.
LEMMA Dialled ==
    ASSUME NEW o, Steady(o), NEW p \in Values, NEW c \in Objs, NEW n \in Nets,
           o.objs[c].net \in {0, n}, o.mapped[n] \in {0, c}, Others(o, p, c, n),
           p.mapped[n] = c, p.objs[c].net = n, ~p.objs[c].disposed,
           Tasks(p), ~Waits(p, c), \A d \in Objs \ {c} : Waits(p, d) <=> Waits(o, d),
           p.policy.paused = o.policy.paused, p.policy.list = o.policy.list,
           ~p.policy.paused, AccountAllows(p, HostOf[n])
    PROVE  LET q == Connect(p, c) IN
           /\ Steady(q) /\ SameQueue(p, q) /\ q.policy = p.policy
           /\ Elsewhere(o, q, n) /\ Stands(q, n)
           /\ q.mapped[n] \in {0, c}
<1> DEFINE q == Connect(p, c)
<1>1. /\ q \in Values /\ SameQueue(p, q) /\ q.policy = p.policy
      /\ \A d \in Objs \ {c} : q.objs[d] = p.objs[d]
      /\ \A m \in Nets \ {n} : q.mapped[m] = p.mapped[m] /\ q.told[m] = p.told[m]
      /\ q.objs[c].net = n /\ ~q.objs[c].timer
      /\ ~Blocked(p, n) =>
            /\ q.mapped[n] = c /\ q.told[n] = "connecting"
            /\ q.objs[c].sock = "dialing" /\ q.objs[c].state = "connecting"
            /\ ~q.objs[c].intent /\ ~q.objs[c].disposed /\ ~q.objs[c].terminal
      /\ Blocked(p, n) => q.mapped[n] = 0 /\ q.told[n] = "disconnected" /\ q.objs[c].disposed
  BY ConnectIs
<1> HIDE DEF q
<1>2. Others(o, q, c, n)
  BY <1>1 DEF Others
<1>3. \A d \in Objs : Waits(q, d) <=> Waits(p, d)
  BY <1>1 DEF SameQueue, Waits, Queued
<1>4. Tasks(q)
  <2>0. \A m \in Nets : q.mapped[m] = p.mapped[m] \/ q.mapped[m] = 0
    BY <1>1
  <2>1. ASSUME NEW d \in Objs, Waits(p, d)
        PROVE  /\ q.objs[d].net = p.objs[d].net
               /\ \A m \in Nets : q.mapped[m] = d =>
                     p.mapped[m] = d /\ q.objs[d].state = p.objs[d].state
    BY <1>1, <2>0, <2>1, LadderConstants
  <2> QED BY <1>1, <2>1, TasksStay DEF SameQueue
<1>5. Belongs(q, c) /\ Idle(q, c)
  BY <1>1 DEF Belongs, Idle
<1>6. Fits(q, c, n)
  <2> SUFFICES ASSUME q.mapped[n] = c
               PROVE  /\ ~q.objs[c].intent /\ ~q.objs[c].disposed /\ CarriedOn(q, c)
                      /\ ~q.policy.paused /\ AccountAllows(q, HostOf[n])
                      /\ q.objs[c].state # "disconnected"
                            => ~(q.policy.list.held /\ n \in Proxied)
    BY DEF Fits
  <2>1. ~Blocked(p, n)
    BY <1>1, LadderConstants
  <2>2. CarriedOn(q, c)
    BY <1>1, <1>3, <2>1 DEF CarriedOn
  <2> QED BY <1>1, <2>1, <2>2 DEF AccountAllows, Blocked
<1>7. q.mapped[n] \in {0, c}
  BY <1>1
<1>8. Steady(q)
  <2>1. \A d \in Objs \ {c} : Waits(q, d) <=> Waits(o, d)
    BY <1>3
  <2>2. o.mapped[n] \in {0, c, q.mapped[n]}
    OBVIOUS
  <2> QED BY <1>1, <1>2, <1>4, <1>5, <1>6, <1>7, <2>1, <2>2, OnlyOne
<1>9. Stands(q, n)
  BY <1>1 DEF Stands
<1> QED BY <1>1, <1>2, <1>7, <1>8, <1>9, ElsewhereOf DEF q

\* An object that nothing refers to.
LEMMA FreshIs ==
    ASSUME NEW p, Steady(p), Unused(p) # {}
    PROVE  LET c == Min(Unused(p)) IN
           /\ c \in Objs /\ p.objs[c] = NoObj /\ ~Waits(p, c)
           /\ \A m \in Nets : p.mapped[m] # c
<1> DEFINE c == Min(Unused(p))
<1>1. c \in Unused(p)
  <2>1. Unused(p) \subseteq Nat
    BY LadderConstants DEF Unused
  <2> QED BY <2>1, LeastIs
<1> HIDE DEF c
<1>2. c \in Objs /\ p.objs[c] = NoObj
  BY <1>1 DEF Unused
<1>3. p.objs[c].net = 0 /\ c # 0
  BY <1>2, LadderConstants DEF NoObj
<1>4. ~Waits(p, c)
  <2>1. ASSUME NEW i \in DOMAIN p.launches, p.launches[i].obj = c PROVE FALSE
    <3>0. p.launches \in Seq(TaskSet)
      BY ValueFields DEF Steady
    <3>1. p.launches[i].net \in Nets
      <4>1. p.launches[i] \in TaskSet
        BY <2>1, <3>0, ElementOfSeq
      <4> QED BY <4>1 DEF TaskSet
    <3>2. p.objs[c].net = p.launches[i].net
      BY <2>1 DEF Steady, Tasks
    <3> QED BY <1>3, <3>1, <3>2, LadderConstants
  <2> QED BY <2>1 DEF Waits, Queued
<1>5. \A m \in Nets : p.mapped[m] # c
  BY <1>3, LadderConstants DEF Steady, Mapped
<1> QED BY <1>2, <1>4, <1>5 DEF c

\* The object of a start, in the map.
Begun(p, c, n) == [p EXCEPT !.objs[c] = [NoObj EXCEPT !.net = n], !.mapped[n] = c]

\* A new object is put in the map.
LEMMA BegunIs ==
    ASSUME NEW p, Steady(p), NEW n \in Nets, NEW c \in Objs,
           p.objs[c] = NoObj, ~Waits(p, c)
    PROVE  LET q == Begun(p, c, n)
               k == q.objs[c] IN
           /\ q \in Values /\ SameQueue(p, q) /\ q.policy = p.policy
           /\ \A d \in Objs \ {c} : q.objs[d] = p.objs[d]
           /\ \A m \in Nets \ {n} : q.mapped[m] = p.mapped[m]
           /\ q.mapped[n] = c /\ q.told = p.told
           /\ k.net = n /\ k.state = "disconnected" /\ k.sock = "none" /\ ~k.timer
           /\ ~k.intent /\ ~k.disposed /\ ~k.terminal
<1> DEFINE j == [NoObj EXCEPT !.net = n]
           a == [p EXCEPT !.objs[c] = j]
           q == Begun(p, c, n)
<1>1. /\ j \in ObjSet
      /\ j.net = n /\ j.state = "disconnected" /\ j.sock = "none" /\ ~j.timer
      /\ ~j.intent /\ ~j.disposed /\ ~j.terminal
  <2>1. n \in 0 .. NumNets /\ NoObj \in ObjSet
    BY NoObjType, LadderConstants
  <2> QED BY <2>1 DEF NoObj, ObjSet
<1> HIDE DEF j
<1>2. /\ a \in Values /\ a.objs[c] = j
      /\ \A d \in Objs \ {c} : a.objs[d] = p.objs[d]
      /\ a.mapped = p.mapped /\ a.launches = p.launches /\ a.gates = p.gates
      /\ a.pump = p.pump /\ a.policy = p.policy /\ a.told = p.told
  BY <1>1, PutObj DEF Steady
<1>3. q = [a EXCEPT !.mapped[n] = c]
  BY DEF Begun, j, Steady, Values
<1> HIDE DEF a, q
<1>4. c \in 0 .. MaxObjs
  BY LadderConstants
<1>5. /\ q \in Values /\ q.mapped = [a.mapped EXCEPT ![n] = c]
      /\ q.objs = a.objs /\ q.launches = a.launches /\ q.gates = a.gates
      /\ q.pump = a.pump /\ q.policy = a.policy /\ q.told = a.told
  BY <1>2, <1>3, <1>4 DEF Values
<1>6. q.mapped[n] = c /\ \A m \in Nets \ {n} : q.mapped[m] = p.mapped[m]
  BY <1>2, <1>5, ValueFields
<1> QED BY <1>1, <1>2, <1>5, <1>6 DEF SameQueue, q

\* A network that is not started, or that is in the map, is left alone.
LEMMA NotStarted ==
    ASSUME NEW p, NEW n, NEW d \in BOOLEAN, ~GateOpen(p, n) \/ p.mapped[n] # 0
    PROVE  StartNetwork(p, n, d) = p
  BY DEF StartNetwork

\* A start that waits for its turn in the launch queue.
LEMMA DeferredIs ==
    ASSUME NEW p, Good(p), Armed(p), NEW n \in Nets, p.mapped[n] = 0 => Unused(p) # {}
    PROVE  LET q == StartDeferred(p, n) IN
           /\ Good(q) /\ Armed(q) /\ q.policy = p.policy
           /\ \A m \in Nets \ {n} : q.mapped[m] = p.mapped[m]
           /\ p.mapped[n] # 0 => q = p
           /\ q = p \/ \E c \in Unused(p) : Unused(p) \ {c} \subseteq Unused(q)
<1> DEFINE q == StartDeferred(p, n)
           c == Min(Unused(p))
           b == Begun(p, c, n)
           t == [obj |-> c, kind |-> "start", net |-> n]
<1>0. Steady(p)
  BY DEF Good, Steady
<1>1. CASE ~GateOpen(p, n) \/ p.mapped[n] # 0
  <2>1. q = p
    BY <1>1, NotStarted DEF StartDeferred
  <2> QED BY <2>1
<1>2. CASE GateOpen(p, n) /\ p.mapped[n] = 0
  <2>1. c \in Objs /\ p.objs[c] = NoObj /\ ~Waits(p, c) /\ \A m \in Nets : p.mapped[m] # c
    BY <1>0, <1>2, FreshIs
  <2>2. q = Schedule(b, c, "start")
    BY <1>2 DEF StartDeferred, StartNetwork, Begun
  <2> HIDE DEF c
  <2>3. /\ b \in Values /\ SameQueue(p, b) /\ b.policy = p.policy
        /\ \A d \in Objs \ {c} : b.objs[d] = p.objs[d]
        /\ \A m \in Nets \ {n} : b.mapped[m] = p.mapped[m]
        /\ b.mapped[n] = c /\ b.told = p.told
        /\ b.objs[c].net = n /\ b.objs[c].state = "disconnected" /\ b.objs[c].sock = "none"
        /\ ~b.objs[c].timer /\ ~b.objs[c].intent /\ ~b.objs[c].disposed /\ ~b.objs[c].terminal
    BY <1>0, <2>1, BegunIs
  <2> HIDE DEF b, q
  <2>4. /\ q \in Values /\ Armed(q)
        /\ q.launches = Append(b.launches, [obj |-> c, kind |-> "start", net |-> b.objs[c].net])
        /\ q.mapped = b.mapped /\ q.objs = b.objs /\ q.gates = b.gates
        /\ q.policy = b.policy /\ q.told = b.told
    BY <2>1, <2>2, <2>3, ScheduleIs
  <2>5. t \in TaskSet /\ t.obj = c /\ t.net = n /\ t.kind = "start"
    BY <2>1 DEF TaskSet
  <2>6. q.launches = Append(p.launches, t)
    BY <2>3, <2>4 DEF SameQueue
  <2> HIDE DEF t
  <2>v. p \in Values /\ Tasks(p)
    BY <1>0 DEF Steady
  <2>7. Waits(q, c) /\ \A d \in Objs \ {c} : Waits(q, d) <=> Waits(p, d)
    BY <2>v, <2>4, <2>5, <2>6, OneMoreTask
  <2>8. Tasks(q)
    <3>1. /\ \A d \in Objs \ {t.obj} : q.objs[d] = p.objs[d]
          /\ \A m \in Nets \ {t.net} : q.mapped[m] = p.mapped[m]
          /\ q.mapped[t.net] = t.obj /\ q.objs[t.obj].net = t.net
          /\ t.kind # "retry" /\ q.objs[t.obj].state # "reconnecting"
          /\ ~Waits(p, t.obj)
      BY <2>1, <2>3, <2>4, <2>5
    <3> QED BY <2>v, <2>4, <2>5, <2>6, <3>1, TasksGrow
  <2>9. Others(p, q, c, n)
    BY <2>3, <2>4 DEF Others
  <2>10. Belongs(q, c) /\ Idle(q, c)
    BY <2>3, <2>4 DEF Belongs, Idle
  <2>11. CarriedOn(q, c)
    BY <2>3, <2>4, <2>7 DEF CarriedOn
  <2>12. Fits(q, c, n)
    BY <1>2, <2>3, <2>4, <2>11 DEF Fits, GateOpen, AccountAllows
  <2>n. p.objs[c].net = 0
    BY <2>1 DEF NoObj
  <2>13. Steady(q)
    <3>1. q.policy = p.policy /\ q.objs[c].net = n /\ q.mapped[n] = c /\ p.mapped[n] = 0
      BY <1>2, <2>3, <2>4
    <3> QED BY <1>0, <2>1, <2>4, <2>7, <2>8, <2>9, <2>10, <2>12, <2>n, <3>1, OnlyOne
  <2>14. Stands(q, n)
    <3>1. Stands(p, n) /\ q.told = p.told
      BY <2>3, <2>4 DEF Good, AllStand
    <3>2. \A d \in Objs : p.objs[d].sock # "none" => q.objs[d] = p.objs[d]
      BY <2>1, <2>3, <2>4 DEF NoObj
    <3> QED BY <1>2, <3>1, <3>2 DEF Stands
  <2>15. AllStand(q)
    <3>1. Elsewhere(p, q, n)
      BY <2>1, <2>9, <2>n, ElsewhereOf
    <3> QED BY <2>14, <3>1, OthersStand
  <2>16. c \in Unused(p) /\ Unused(p) \ {c} \subseteq Unused(q)
    BY <2>1, <2>3, <2>4 DEF Unused
  <2>17. \A m \in Nets \ {n} : q.mapped[m] = p.mapped[m]
    BY <2>3, <2>4
  <2>18. Good(q)
    BY <2>13, <2>15 DEF Good, Steady
  <2> QED BY <1>2, <2>3, <2>4, <2>16, <2>17, <2>18 DEF q
<1> QED BY <1>1, <1>2

\* A start that is launched at once.
LEMMA StartedIs ==
    ASSUME NEW p, Steady(p), Armed(p), NEW n \in Nets, p.mapped[n] = 0 => Unused(p) # {}
    PROVE  LET q == StartNetwork(p, n, FALSE) IN
           /\ Steady(q) /\ Armed(q) /\ Elsewhere(p, q, n)
           /\ q = p \/ Stands(q, n)
           /\ GateOpen(p, n) /\ p.mapped[n] = 0 => Stands(q, n)
<1> DEFINE q == StartNetwork(p, n, FALSE)
           c == Min(Unused(p))
           b == Begun(p, c, n)
<1>1. CASE ~GateOpen(p, n) \/ p.mapped[n] # 0
  <2>1. q = p
    BY <1>1, NotStarted
  <2> QED BY <1>1, <2>1 DEF Elsewhere
<1>2. CASE GateOpen(p, n) /\ p.mapped[n] = 0
  <2>1. c \in Objs /\ p.objs[c] = NoObj /\ ~Waits(p, c) /\ \A m \in Nets : p.mapped[m] # c
    BY <1>2, FreshIs
  <2>2. q = Launch(b, c)
    BY <1>2 DEF StartNetwork, Begun
  <2> HIDE DEF c
  <2>3. /\ b \in Values /\ SameQueue(p, b) /\ b.policy = p.policy
        /\ \A d \in Objs \ {c} : b.objs[d] = p.objs[d]
        /\ \A m \in Nets \ {n} : b.mapped[m] = p.mapped[m]
        /\ b.mapped[n] = c /\ b.told = p.told
        /\ b.objs[c].net = n /\ b.objs[c].state = "disconnected" /\ b.objs[c].sock = "none"
        /\ ~b.objs[c].timer /\ ~b.objs[c].intent /\ ~b.objs[c].disposed /\ ~b.objs[c].terminal
    BY <2>1, BegunIs
  <2> HIDE DEF b, q
  <2>4. q = Connect(b, c)
    BY <2>2, <2>3 DEF Launch
  <2>5. \A d \in Objs : Waits(b, d) <=> Waits(p, d)
    BY <2>3 DEF SameQueue, Waits, Queued
  <2>6. Tasks(b)
    <3>1. ASSUME NEW d \in Objs, Waits(p, d)
          PROVE  /\ b.objs[d].net = p.objs[d].net
                 /\ \A m \in Nets : b.mapped[m] = d =>
                       p.mapped[m] = d /\ b.objs[d].state = p.objs[d].state
      BY <2>1, <2>3, <3>1
    <3>2. p \in Values /\ Tasks(p) /\ b.launches = p.launches
      BY <2>3 DEF Steady, SameQueue
    <3> QED BY <3>1, <3>2, TasksStay
  <2>7. Others(p, b, c, n)
    BY <2>3 DEF Others
  <2>8. ~b.policy.paused /\ AccountAllows(b, HostOf[n])
    BY <1>2, <2>3 DEF GateOpen, AccountAllows
  <2>n. p.objs[c].net = 0
    BY <2>1 DEF NoObj
  <2>9. Steady(q) /\ SameQueue(b, q) /\ Elsewhere(p, q, n) /\ Stands(q, n)
    BY <1>2, <2>1, <2>3, <2>4, <2>5, <2>6, <2>7, <2>8, <2>n, Dialled
  <2>10. Armed(q)
    <3>1. SameQueue(p, q)
      BY <2>3, <2>9 DEF SameQueue
    <3> QED BY <3>1, StillArmed
  <2> QED BY <2>9, <2>10 DEF q
<1> QED BY <1>1, <1>2

-----------------------------------------------------------------------------
(* Networks that are started one after the other.                          *)

\* The networks of N after the i first that still need an object.
Rest(p, N, i) == {n \in N : n > i /\ p.mapped[n] = 0}

\* What holds of the state r that the i first of N have left.
Started(p, r, N, i) ==
    /\ Good(r) /\ Armed(r) /\ r.policy = p.policy
    /\ \A m \in Nets : m > i => r.mapped[m] = p.mapped[m]
    /\ Cardinality(Unused(r)) >= Cardinality(Rest(p, N, i))

\* The objects and the networks can be counted.
LEMMA RoomIsFinite ==
    ASSUME NEW p, NEW N, N \subseteq Nets, NEW i \in Nat, NEW r
    PROVE  /\ IsFiniteSet(Unused(r)) /\ Cardinality(Unused(r)) \in Nat
           /\ IsFiniteSet(Rest(p, N, i)) /\ Cardinality(Rest(p, N, i)) \in Nat
<1>1. NumNets \in Nat /\ MaxObjs \in Nat
  BY LadderConstants
<1>2. IsFiniteSet(1 .. NumNets) /\ IsFiniteSet(1 .. MaxObjs)
  BY <1>1, FS_Interval
<1>3. Unused(r) \subseteq 1 .. MaxObjs /\ Rest(p, N, i) \subseteq 1 .. NumNets
  BY DEF Unused, Rest, Objs, Nets
<1> QED BY <1>2, <1>3, FS_Subset, FS_CardinalityType

\* What is beyond the network i is the next one, or beyond that.
LEMMA RestAfter ==
    ASSUME NEW i \in Nat, NEW m \in Nets
    PROVE  m > i <=> m > i + 1 \/ m = i + 1
<1>1. m \in Nat
  BY LadderConstants
<1> QED BY ONLY i \in Nat, <1>1

\* One more of them.
LEMMA StartMore ==
    ASSUME NEW p, NEW N, N \subseteq Nets, NEW i \in Nat, i + 1 \in N, NEW r,
           Started(p, r, N, i)
    PROVE  Started(p, StartDeferred(r, i + 1), N, i + 1)
<1> DEFINE n == i + 1
           q == StartDeferred(r, n)
           A == Unused(r)
           B == Unused(q)
           X == Rest(p, N, i)
           Y == Rest(p, N, n)
<1>m. n \in N
  OBVIOUS
<1>n. n \in Nat /\ n \in Nets /\ n > i /\ N \subseteq Nat
  BY LadderConstants
<1>f. /\ IsFiniteSet(A) /\ Cardinality(A) \in Nat /\ IsFiniteSet(B) /\ Cardinality(B) \in Nat
      /\ IsFiniteSet(X) /\ Cardinality(X) \in Nat /\ IsFiniteSet(Y) /\ Cardinality(Y) \in Nat
  BY <1>n, RoomIsFinite
<1>r. /\ Good(r) /\ Armed(r) /\ r.policy = p.policy
      /\ \A m \in Nets : m > i => r.mapped[m] = p.mapped[m]
      /\ Cardinality(A) >= Cardinality(X)
  BY DEF Started
<1>0. r.mapped[n] = p.mapped[n]
  BY <1>n, <1>r
<1>1. CASE p.mapped[n] = 0
  <2>1. X = Y \union {n} /\ n \notin Y
    <3>1. \A m \in N : m > i <=> m > n \/ m = n
      BY RestAfter
    <3>2. ~(n > n)
      BY ONLY <1>n
    <3> HIDE DEF n
    <3> QED BY <1>1, <3>1, <3>2, <1>m DEF Rest
  <2> HIDE DEF n, q, A, B, X, Y
  <2>2. Cardinality(X) = Cardinality(Y) + 1
    BY <1>f, <2>1, FS_AddElement
  <2>3. A # {}
    <3>1. Cardinality(A) # 0
      BY <1>f, <1>r, <2>2
    <3> QED BY <3>1, FS_EmptySet
  <2>4. /\ Good(q) /\ Armed(q) /\ q.policy = r.policy
        /\ \A m \in Nets \ {n} : q.mapped[m] = r.mapped[m]
        /\ q = r \/ \E c \in A : A \ {c} \subseteq B
    <3>1. r.mapped[n] = 0 => Unused(r) # {}
      BY <2>3 DEF A
    <3> QED BY <1>n, <1>r, <3>1, DeferredIs DEF q, A, B
  <2>5. Cardinality(B) >= Cardinality(A) - 1
    <3>1. CASE q = r
      BY <1>f, <3>1 DEF A, B
    <3>2. CASE \E c \in A : A \ {c} \subseteq B
      <4>1. PICK c \in A : A \ {c} \subseteq B
        BY <3>2
      <4>2. Cardinality(A \ {c}) = Cardinality(A) - 1
        BY <1>f, FS_RemoveElement
      <4>3. Cardinality(A \ {c}) <= Cardinality(B)
        BY <1>f, <4>1, FS_Subset
      <4> QED BY <1>f, <4>2, <4>3
    <3> QED BY <2>4, <3>1, <3>2
  <2>6. Cardinality(B) >= Cardinality(Y)
    BY <1>f, <1>r, <2>2, <2>5
  <2>7. \A m \in Nets : m > n => q.mapped[m] = p.mapped[m]
    <3>1. \A m \in Nets : m > n => m # n /\ m > i
      BY <1>n, LadderConstants DEF n
    <3> QED BY <1>r, <2>4, <3>1
  <2> QED BY <1>r, <2>4, <2>6, <2>7 DEF Started, n, q, B, Y
<1>2. CASE p.mapped[n] # 0
  <2>1. X = Y
    <3>1. \A m \in N : m > i <=> m > n \/ m = n
      BY RestAfter
    <3> HIDE DEF n
    <3> QED BY <1>2, <3>1 DEF Rest
  <2>2. q = r
    <3>1. r.mapped[n] # 0
      BY <1>0, <1>2
    <3> QED BY <3>1, NotStarted DEF StartDeferred
  <2>3. \A m \in Nets : m > n => m > i
    BY <1>n, LadderConstants
  <2> QED BY <1>r, <2>1, <2>2, <2>3 DEF Started
<1> QED BY <1>1, <1>2

\* One that is not of them.
LEMMA StartNoMore ==
    ASSUME NEW p, NEW N, N \subseteq Nets, NEW i \in Nat, i + 1 \notin N, NEW r,
           Started(p, r, N, i)
    PROVE  Started(p, r, N, i + 1)
<1>1. Rest(p, N, i + 1) = Rest(p, N, i)
  <2> DEFINE n == i + 1
  <2>1. n \notin N /\ \A m \in N : m > i <=> m > n \/ m = n
    BY RestAfter
  <2> HIDE DEF n
  <2>2. Rest(p, N, n) = Rest(p, N, i)
    BY <2>1 DEF Rest
  <2> QED BY <2>2 DEF n
<1>2. \A m \in Nets : m > i + 1 => m > i
  BY LadderConstants
<1> QED BY <1>1, <1>2 DEF Started

\* Whoever does it in this order has them all started.
LEMMA StartAll ==
    ASSUME NEW p, NEW N, N \subseteq Nets, Started(p, p, N, 0), NEW r, r[0] = p,
           \A i \in 1 .. NumNets :
               /\ i \in N /\ StartDeferred(r[i - 1], i) \in Values
                     => r[i] = StartDeferred(r[i - 1], i)
               /\ i \notin N => r[i] = r[i - 1]
    PROVE  /\ \A i \in 0 .. NumNets : Started(p, r[i], N, i)
           /\ \A i \in 1 .. NumNets : i \in N => StartDeferred(r[i - 1], i) \in Values
<1>0. NumNets \in Nat
  BY LadderConstants
<1> DEFINE S == {i \in 0 .. NumNets : Started(p, r[i], N, i)}
<1>1. 0 \in S
  BY <1>0
<1>2. ASSUME NEW i \in 0 .. NumNets - 1, i \in S
      PROVE  /\ Started(p, r[i + 1], N, i + 1)
             /\ i + 1 \in N => StartDeferred(r[i], i + 1) \in Values
  <2> DEFINE x == r[i]
             n == i + 1
  <2>1. n \in 1 .. NumNets /\ n - 1 = i /\ i \in Nat
    BY <1>0
  <2>2. Started(p, x, N, i)
    BY <1>2
  <2>x. r[n - 1] = x
    BY <2>1
  <2> HIDE DEF x
  <2>3. CASE n \in N
    <3>1. Started(p, StartDeferred(x, n), N, n)
      BY <2>1, <2>2, <2>3, StartMore
    <3>2. StartDeferred(x, n) \in Values
      BY <3>1 DEF Started, Good
    <3> HIDE DEF n
    <3>3. r[n] = StartDeferred(x, n)
      BY <2>1, <2>3, <2>x, <3>2
    <3> QED BY <3>1, <3>2, <3>3 DEF n, x
  <2>4. CASE n \notin N
    <3>1. Started(p, x, N, n)
      BY <2>1, <2>2, <2>4, StartNoMore
    <3> HIDE DEF n
    <3>2. r[n] = x
      BY <2>1, <2>4, <2>x
    <3> QED BY <2>4, <3>1, <3>2 DEF n
  <2> QED BY <2>3, <2>4
<1>3. \A i \in 0 .. NumNets : i \in S
  <2>1. \A i \in 0 .. NumNets - 1 : i \in S => i + 1 \in S
    <3> SUFFICES ASSUME NEW i \in 0 .. NumNets - 1, i \in S PROVE i + 1 \in S
      OBVIOUS
    <3>1. i + 1 \in 0 .. NumNets
      BY <1>0
    <3> QED BY <1>2, <3>1
  <2> HIDE DEF S
  <2> QED BY <1>0, <1>1, <2>1, Climb
<1>4. ASSUME NEW i \in 1 .. NumNets, i \in N PROVE StartDeferred(r[i - 1], i) \in Values
  <2>1. i - 1 \in 0 .. NumNets - 1 /\ (i - 1) + 1 = i /\ i - 1 \in 0 .. NumNets
    BY <1>0
  <2> DEFINE m == i - 1
  <2>2. m \in 0 .. NumNets - 1 /\ m + 1 = i /\ m \in S
    BY <1>3, <2>1
  <2> HIDE DEF m, S
  <2>3. StartDeferred(r[m], m + 1) \in Values
    BY <1>2, <1>4, <2>2
  <2> QED BY <2>2, <2>3 DEF m
<1> QED BY <1>3, <1>4

\* OfEach starts them one after the other.
LEMMA StartEach ==
    ASSUME NEW p, Good(p), Armed(p), NEW N, N \subseteq Nets, RoomFor(p, N)
    PROVE  LET q == OfEach(StartDeferred, p, N) IN
           Good(q) /\ Armed(q) /\ q.policy = p.policy
<1> DEFINE G(i, v) == IF i \in N /\ StartDeferred(v, i) \in Values THEN StartDeferred(v, i)
                      ELSE v
           F == [x \in (1 .. NumNets) \X Values |-> G(x[1], x[2])]
<1>0. NumNets \in Nat /\ Nets = 1 .. NumNets /\ p \in Values
  BY LadderConstants DEF Nets, Good
<1>1. Started(p, p, N, 0)
  <2>1. Rest(p, N, 0) = {n \in N : p.mapped[n] = 0}
    <3>1. \A n \in N : n > 0
      BY LadderConstants
    <3> QED BY <3>1 DEF Rest
  <2> QED BY <2>1 DEF Started, RoomFor
<1>2. F \in [(1 .. NumNets) \X Values -> Values]
  OBVIOUS
<1>3. \A i \in 1 .. NumNets, v \in Values : F[<<i, v>>] = G(i, v)
  OBVIOUS
<1> HIDE DEF F
<1>5. PICK it \in [0 .. NumNets -> Values] :
         it[0] = p /\ \A i \in 1 .. NumNets : it[i] = F[<<i, it[i - 1]>>]
  <2>1. CanFollow(Values, F, p, NumNets)
    BY <1>0, <1>2, Follows
  <2> QED BY <2>1 DEF CanFollow
<1>t. \A i \in 1 .. NumNets : i - 1 \in 0 .. NumNets /\ i \in 0 .. NumNets /\ i # 0
  BY <1>0
<1>i. \A i \in 1 .. NumNets : it[i] = G(i, it[i - 1])
  <2> SUFFICES ASSUME NEW i \in 1 .. NumNets PROVE it[i] = G(i, it[i - 1])
    OBVIOUS
  <2>1. it[i - 1] \in Values
    BY <1>5, <1>t
  <2> HIDE DEF G
  <2> QED BY <1>3, <1>5, <2>1
<1>s. \A i \in 1 .. NumNets : i \in N => StartDeferred(it[i - 1], i) \in Values
  <2>1. \A i \in 1 .. NumNets :
            /\ i \in N /\ StartDeferred(it[i - 1], i) \in Values
                  => it[i] = StartDeferred(it[i - 1], i)
            /\ i \notin N => it[i] = it[i - 1]
    BY <1>i
  <2> QED BY <1>1, <1>5, <2>1, StartAll
<1>6. it = [n \in 0 .. NumNets |-> IF n = 0 THEN p ELSE IF n \in N THEN StartDeferred(it[n - 1], n)
                                                         ELSE it[n - 1]]
  <2>1. ASSUME NEW n \in 0 .. NumNets
        PROVE  it[n] = IF n = 0 THEN p ELSE IF n \in N THEN StartDeferred(it[n - 1], n)
                                            ELSE it[n - 1]
    <3>1. CASE n = 0
      BY <1>5, <3>1
    <3>2. CASE n # 0
      <4>1. n \in 1 .. NumNets
        BY <1>0, <3>2
      <4> QED BY <1>i, <1>s, <3>2, <4>1
    <3> QED BY <3>1, <3>2
  <2> QED BY <1>5, <2>1
<1>7. \E r : r = [n \in 0 .. NumNets |-> IF n = 0 THEN p
                                         ELSE IF n \in N THEN StartDeferred(r[n - 1], n)
                                         ELSE r[n - 1]]
  BY <1>6
<1>8. PICK r : /\ r = [n \in 0 .. NumNets |-> IF n = 0 THEN p
                                              ELSE IF n \in N THEN StartDeferred(r[n - 1], n)
                                              ELSE r[n - 1]]
               /\ OfEach(StartDeferred, p, N) = r[NumNets]
  <2>1. OfEach(StartDeferred, p, N)
          = LET each[n \in 0 .. NumNets] ==
                    IF n = 0 THEN p ELSE IF n \in N THEN StartDeferred(each[n - 1], n)
                                         ELSE each[n - 1]
            IN  each[NumNets]
    BY DEF OfEach
  <2> QED BY <1>7, <2>1, Zenon
<1>9. r[0] = p /\ \A n \in 1 .. NumNets : r[n] = IF n \in N THEN StartDeferred(r[n - 1], n)
                                                 ELSE r[n - 1]
  <2>1. \A n \in 0 .. NumNets : r[n] = IF n = 0 THEN p
                                       ELSE IF n \in N THEN StartDeferred(r[n - 1], n)
                                       ELSE r[n - 1]
    BY <1>8
  <2>2. 0 \in 0 .. NumNets
    BY <1>0
  <2> QED BY <1>t, <2>1, <2>2
<1>10. \A i \in 0 .. NumNets : Started(p, r[i], N, i)
  BY <1>1, <1>9, StartAll
<1>11. Started(p, r[NumNets], N, NumNets)
  BY <1>0, <1>10
<1> QED BY <1>8, <1>11 DEF Started

-----------------------------------------------------------------------------
(* A connection that is disposed of and made again.                        *)

\* What is disposed of is let go.
LEMMA DisposedIs ==
    ASSUME NEW p, Good(p), NEW n \in Nets
    PROVE  LET q == DisposeNetwork(p, n) IN
           /\ Steady(q) /\ SameQueue(p, q) /\ q.policy = p.policy
           /\ Elsewhere(p, q, n) /\ q.told = p.told
           /\ q.mapped[n] = 0 /\ Unused(p) \subseteq Unused(q)
           /\ \A d \in Objs : d # p.mapped[n] => q.objs[d] = p.objs[d]
<1> DEFINE q == DisposeNetwork(p, n)
<1>0. Steady(p) /\ p \in Values
  BY DEF Good, Steady
<1>1. CASE p.mapped[n] = 0
  <2>1. q = p
    BY <1>1 DEF DisposeNetwork
  <2> QED BY <1>0, <1>1, <2>1 DEF SameQueue, Elsewhere
<1>2. CASE p.mapped[n] # 0
  <2> DEFINE c == p.mapped[n]
             a == Dispose(p, c)
  <2>1. /\ c \in Objs /\ p.objs[c].net = n /\ ~p.objs[c].intent /\ ~p.objs[c].disposed
        /\ CarriedOn(p, c)
    <3>1. p.mapped[n] \in Objs
      BY <1>0, <1>2, ValueFields, LadderConstants
    <3> QED BY <1>0, <1>2, <3>1 DEF Steady, Mapped, AllCarried
  <2>2. q = Unmap(a, n)
    BY <1>2 DEF DisposeNetwork
  <2> HIDE DEF c
  <2>3. /\ a \in Values
        /\ a.objs[c].disposed /\ ~a.objs[c].timer
        /\ a.objs[c].net = p.objs[c].net /\ a.objs[c].sock = p.objs[c].sock
        /\ \A d \in Objs \ {c} : a.objs[d] = p.objs[d]
        /\ a.mapped = p.mapped /\ a.launches = p.launches /\ a.gates = p.gates
        /\ a.pump = p.pump /\ a.policy = p.policy /\ a.told = p.told
    BY <1>0, <2>1, DisposeIs
  <2> HIDE DEF a, q
  <2>4. /\ q \in Values
        /\ \A m \in Nets : q.mapped[m] = IF m = n THEN 0 ELSE p.mapped[m]
        /\ q.objs = a.objs /\ q.launches = p.launches /\ q.gates = p.gates
        /\ q.pump = p.pump /\ q.policy = p.policy /\ q.told = p.told
    BY <2>2, <2>3, UnmapIs
  <2>5. Others(p, q, c, n)
    BY <2>3, <2>4 DEF Others
  <2>6. \A d \in Objs : Waits(q, d) <=> Waits(p, d)
    BY <2>4 DEF Waits, Queued
  <2>7. Tasks(q)
    <3>1. ASSUME NEW d \in Objs, NEW m \in Nets, q.mapped[m] = d
          PROVE  p.mapped[m] = d /\ q.objs[d] = p.objs[d]
      <4>1. m # n /\ p.mapped[m] = d
        BY <2>4, <3>1, LadderConstants
      <4>2. d # c
        BY <1>0, <2>1, <4>1, LadderConstants DEF Steady, Mapped
      <4> QED BY <2>3, <2>4, <4>1, <4>2
    <3>2. \A d \in Objs : q.objs[d].net = p.objs[d].net
      BY <2>3, <2>4
    <3>3. Tasks(p) /\ q.launches = p.launches
      BY <1>0, <2>4 DEF Steady
    <3> QED BY <1>0, <3>1, <3>2, <3>3, TasksStay
  <2>8. Belongs(q, c) /\ Idle(q, c)
    BY <2>1, <2>3, <2>4 DEF Belongs, Idle
  <2>9. Fits(q, c, n)
    BY <2>1, <2>4, LadderConstants DEF Fits
  <2>10. Steady(q)
    <3>1. /\ q.policy = p.policy /\ q.objs[c].net = n /\ q.mapped[n] = 0 /\ p.mapped[n] = c
      BY <2>1, <2>3, <2>4 DEF c
    <3> QED BY <1>0, <2>1, <2>4, <2>5, <2>6, <2>7, <2>8, <2>9, <3>1, OnlyOne
  <2>11. Elsewhere(p, q, n)
    BY <2>1, <2>5, ElsewhereOf
  <2>12. Unused(p) \subseteq Unused(q)
    <3>1. p.objs[c] # NoObj
      BY <2>1, LadderConstants DEF NoObj
    <3> QED BY <2>3, <2>4, <3>1 DEF Unused
  <2> QED BY <2>3, <2>4, <2>10, <2>11, <2>12 DEF SameQueue, q, c
<1> QED BY <1>1, <1>2

\* A connection that is made again.
LEMMA RestartIs ==
    ASSUME NEW p, Good(p), Armed(p), NEW n \in Nets, Unused(p) # {},
           \/ GateOpen(p, n)
           \/ p.mapped[n] # 0 => p.objs[p.mapped[n]].state = "disconnected"
    PROVE  LET q == RestartNetwork(p, n) IN Good(q) /\ Armed(q)
<1> DEFINE d == DisposeNetwork(p, n)
           q == RestartNetwork(p, n)
<1>1. /\ Steady(d) /\ SameQueue(p, d) /\ d.policy = p.policy
      /\ Elsewhere(p, d, n) /\ d.told = p.told
      /\ d.mapped[n] = 0 /\ Unused(p) \subseteq Unused(d)
      /\ \A c \in Objs : c # p.mapped[n] => d.objs[c] = p.objs[c]
  BY DisposedIs
<1>2. q = StartNetwork(d, n, FALSE)
  BY DEF RestartNetwork
<1> HIDE DEF d, q
<1>3. Armed(d) /\ Unused(d) # {}
  BY <1>1, StillArmed
<1>4. /\ Steady(q) /\ Armed(q) /\ Elsewhere(d, q, n)
      /\ q = d \/ Stands(q, n)
      /\ GateOpen(d, n) /\ d.mapped[n] = 0 => Stands(q, n)
  BY <1>1, <1>2, <1>3, StartedIs
<1>5. Elsewhere(p, q, n)
  BY <1>1, <1>4, ElsewhereAgain
<1>6. Stands(q, n)
  <2>1. CASE GateOpen(p, n)
    <3>1. GateOpen(d, n)
      BY <1>1, <2>1 DEF GateOpen, InstanceAllows, AccountAllows
    <3> QED BY <1>1, <1>4, <3>1
  <2>2. CASE ~GateOpen(p, n)
    <3> SUFFICES ASSUME q = d PROVE Stands(d, n)
      BY <1>4
    <3>1. Stands(p, n)
      BY DEF Good, AllStand
    <3>2. d.told[n] # "reconnecting"
      BY <1>1, <2>2, <3>1 DEF Stands
    <3>3. ASSUME d.told[n] \in {"connecting", "connected"}
          PROVE  \E c \in Objs : /\ d.objs[c].net = n /\ ~d.objs[c].disposed
                                 /\ d.objs[c].sock # "none"
      <4>1. PICK c \in Objs : /\ p.objs[c].net = n /\ ~p.objs[c].disposed
                              /\ p.objs[c].sock # "none"
        BY <1>1, <3>1, <3>3 DEF Stands
      <4>2. c # p.mapped[n]
        <5>1. CASE p.mapped[n] = 0
          BY <5>1, LadderConstants
        <5>2. CASE p.mapped[n] # 0
          <6>1. CarriedOn(p, p.mapped[n]) /\ p.objs[p.mapped[n]].state = "disconnected"
            BY <2>2, <5>2 DEF Good, AllCarried
          <6>2. p.objs[p.mapped[n]].sock = "none"
            BY <6>1 DEF CarriedOn
          <6> QED BY <4>1, <6>2
        <5> QED BY <5>1, <5>2
      <4> QED BY <1>1, <4>1, <4>2
    <3> QED BY <3>2, <3>3 DEF Stands
  <2> QED BY <2>1, <2>2
<1>7. AllStand(q)
  BY <1>5, <1>6, OthersStand
<1>8. Good(q)
  BY <1>4, <1>7 DEF Good, Steady
<1> QED BY <1>4, <1>8 DEF q

-----------------------------------------------------------------------------
(* What people and policies ask keeps the invariant.                       *)

NowFields == /\ Now.mapped = mapped /\ Now.objs = objs /\ Now.launches = launches
             /\ Now.gates = gates /\ Now.pump = pump /\ Now.policy = policy /\ Now.told = told

\* The state as a value has the state.
LEMMA NowHas == NowFields
  BY DEF Now, NowFields

\* The end of what somebody asked for.
LEMMA Intervened ==
    ASSUME LaddersInv, Intervenes, NEW q, Good(q), Armed(q), Becomes(q),
           UNCHANGED shut \/ (shut' = TRUE /\ \A n \in Nets : q.mapped[n] = 0)
    PROVE  LaddersInv'
<1>1. ~shut /\ asked < MaxAsked /\ asked' = asked + 1 /\ UNCHANGED thrown
  BY DEF Intervenes
<1>2. asked' \in 0 .. MaxAsked
  <2>1. asked \in 0 .. MaxAsked /\ MaxAsked \in Nat
    BY LadderConstants DEF LaddersInv
  <2> QED BY ONLY <1>1, <2>1
<1>3. Good(Now)' /\ Armed(Now)' /\ mapped' = q.mapped
  BY BecomesGood
<1>4. thrown' \in 0 .. MaxUnread
  <2>1. thrown \in 0 .. MaxUnread
    BY DEF LaddersInv
  <2> QED BY <1>1, <2>1
<1>5. shut' \in BOOLEAN /\ (shut' => \A n \in Nets : mapped'[n] = 0)
  <2>1. CASE UNCHANGED shut
    BY <1>1, <2>1 DEF LaddersInv
  <2>2. CASE shut' = TRUE /\ \A n \in Nets : q.mapped[n] = 0
    BY <1>3, <2>2
  <2> QED BY <2>1, <2>2
<1> QED BY <1>2, <1>3, <1>4, <1>5 DEF LaddersInv

\* The end of what nobody asked for.
LEMMA Changed ==
    ASSUME LaddersInv, NEW q, Good(q), Armed(q), Becomes(q), UNCHANGED <<shut, asked>>,
           thrown' \in 0 .. MaxUnread,
           \A n \in Nets : q.mapped[n] \in {0, mapped[n]}
    PROVE  LaddersInv'
<1>3. Good(Now)' /\ Armed(Now)' /\ mapped' = q.mapped
  BY BecomesGood
<1>4. asked' \in 0 .. MaxAsked /\ shut' \in BOOLEAN
  BY DEF LaddersInv
<1>5. shut' => \A n \in Nets : mapped'[n] = 0
  BY <1>3 DEF LaddersInv
<1> QED BY <1>3, <1>4, <1>5 DEF LaddersInv

\* Where all that differs is the policy, the gates and the timer.
LEMMA GoodSame ==
    ASSUME NEW p, Good(p), NEW q \in Values,
           q.mapped = p.mapped, q.objs = p.objs, q.launches = p.launches, q.told = p.told,
           Allowed(q)
    PROVE  Good(q)
<1>1. \A c \in Objs : Waits(q, c) <=> Waits(p, c)
  BY DEF Waits, Queued
<1>2. \A n \in Nets : p.mapped[n] # 0 => p.mapped[n] \in Objs
  BY ValueFields, LadderConstants DEF Good
<1>3. Mapped(q) /\ Tasks(q) /\ AllStand(q)
  BY DEF Good, Mapped, Tasks, AllStand, Stands
<1>4. AllCarried(q)
  BY <1>1, <1>2 DEF Good, AllCarried, CarriedOn
<1>5. AllOwned(q)
  BY <1>1 DEF Good, AllOwned, Belongs, Idle
<1> QED BY <1>3, <1>4, <1>5 DEF Good

\* The policy allows what it allowed.
LEMMA AllowedSame ==
    ASSUME NEW p, Allowed(p), NEW q, q.mapped = p.mapped, q.objs = p.objs,
           q.policy.paused = p.policy.paused, q.policy.list = p.policy.list
    PROVE  Allowed(q)
  BY DEF Allowed, AccountAllows

\* POST /:id/connect.
LEMMA UserConnectsInv ==
    ASSUME LaddersInv, NEW n \in Nets, UserConnects(n)
    PROVE  LaddersInv'
<1> DEFINE q == StartNetwork(Now, n, FALSE)
<1>0. Good(Now) /\ Armed(Now) /\ Steady(Now)
  BY DEF LaddersInv, Good, Steady
<1>1. Intervenes /\ UNCHANGED shut /\ Becomes(q) /\ RoomFor(Now, {n}) /\ Now.mapped[n] = 0
  BY NowHas DEF UserConnects, PersonAsks, NowFields
<1>2. Unused(Now) # {}
  <2> DEFINE A == Unused(Now)
  <2>1. {m \in {n} : Now.mapped[m] = 0} = {n}
    BY <1>1
  <2>2. Cardinality(A) >= Cardinality({n}) /\ Cardinality({n}) = 1
    BY <1>1, <2>1, FS_Singleton DEF RoomFor
  <2>3. IsFiniteSet(A) /\ Cardinality(A) \in Nat
    <3>1. {} \subseteq Nets /\ 0 \in Nat
      OBVIOUS
    <3> QED BY <3>1, RoomIsFinite
  <2> HIDE DEF A
  <2>4. Cardinality(A) # 0
    BY ONLY <2>2, <2>3
  <2>5. A # {}
    BY <2>4, FS_EmptySet
  <2> QED BY <2>5 DEF A
<1>3. /\ Steady(q) /\ Armed(q) /\ Elsewhere(Now, q, n)
      /\ q = Now \/ Stands(q, n)
  BY <1>0, <1>2, StartedIs
<1> HIDE DEF q
<1>4. AllStand(q)
  <2>1. Stands(q, n)
    BY <1>0, <1>3 DEF Good, AllStand
  <2> QED BY <1>0, <1>3, <2>1, OthersStand
<1>5. Good(q)
  BY <1>3, <1>4 DEF Good, Steady
<1> QED BY <1>1, <1>3, <1>5, Intervened

\* POST /:id/disconnect.
LEMMA UserDisconnectsInv ==
    ASSUME LaddersInv, NEW n \in Nets, UserDisconnects(n)
    PROVE  LaddersInv'
<1> DEFINE q == StopNetwork(Now, n)
<1>0. Good(Now) /\ Armed(Now) /\ Now \in Values /\ Mapped(Now) /\ Allowed(Now)
  BY DEF LaddersInv, Good
<1>1. Intervenes /\ UNCHANGED shut /\ Becomes(q)
  BY DEF UserDisconnects, PersonAsks
<1>2. LetGo(Now, q, {n})
  BY <1>0, StopOne
<1> HIDE DEF q
<1>3. Good(q)
  BY <1>0, <1>2, StoppedGood DEF Allowed
<1>4. Armed(q)
  BY <1>0, <1>2, StillArmed DEF LetGo, SameQueue
<1> QED BY <1>1, <1>3, <1>4, Intervened

\* POST /:id/reconnect, and a bouncer client that attaches.
LEMMA RestartedInv ==
    ASSUME LaddersInv, NEW n \in Nets, UserReconnects(n) \/ BouncerBinds(n)
    PROVE  LaddersInv'
<1> DEFINE q == RestartNetwork(Now, n)
<1>0. Good(Now) /\ Armed(Now)
  BY DEF LaddersInv
<1>1. Intervenes /\ UNCHANGED shut /\ Becomes(q) /\ Unused(Now) # {}
  BY DEF UserReconnects, BouncerBinds, PersonAsks
<1>2. \/ GateOpen(Now, n)
      \/ Now.mapped[n] # 0 => Now.objs[Now.mapped[n]].state = "disconnected"
  <2>1. CASE UserReconnects(n)
    BY <2>1, NowHas DEF UserReconnects, PersonAsks, RowRefused, GateOpen, NowFields
  <2>2. CASE BouncerBinds(n)
    BY <2>2, NowHas DEF BouncerBinds, NowFields
  <2> QED BY <2>1, <2>2
<1> HIDE DEF q
<1>3. Good(q) /\ Armed(q)
  BY <1>0, <1>1, <1>2, RestartIs DEF q
<1> QED BY <1>1, <1>3, Intervened

\* All is stopped, whatever the policy becomes.
LEMMA SuspendedIs ==
    ASSUME NEW o, Good(o), NEW p \in Values,
           p.mapped = o.mapped, p.objs = o.objs, p.told = o.told,
           p.launches = o.launches \/ p.launches = <<>>, Armed(p)
    PROVE  LET q == SuspendUser(p) IN
           Good(q) /\ Armed(q) /\ \A n \in Nets : q.mapped[n] = 0
<1> DEFINE q == SuspendUser(p)
<1>1. Mapped(p)
  BY DEF Good, Mapped
<1>2. LetGo(p, q, Nets)
  BY <1>1, StopEach DEF SuspendUser
<1> HIDE DEF q
<1>3. Good(q)
  <2>1. Nets \subseteq Nets /\ Nets \ Nets = {}
    OBVIOUS
  <2> QED BY <1>2, <2>1, StoppedGood
<1>4. Armed(q)
  BY <1>2, StillArmed DEF LetGo, SameQueue
<1>5. \A n \in Nets : q.mapped[n] = 0
  BY <1>2 DEF LetGo
<1> QED BY <1>3, <1>4, <1>5 DEF q

\* The policy replaced.
LEMMA PolicyFields ==
    ASSUME NEW p \in Values, NEW x,
           x \in [paused : BOOLEAN, closed : BOOLEAN, list : Lists \union {Unlisted}]
    PROVE  LET q == [p EXCEPT !.policy = x] IN
           /\ q \in Values /\ q.policy = x /\ SameQueue(p, q)
           /\ q.mapped = p.mapped /\ q.objs = p.objs /\ q.told = p.told
  BY DEF Values, SameQueue

\* An account is paused.
LEMMA AccountPausesInv ==
    ASSUME LaddersInv, AccountPauses
    PROVE  LaddersInv'
<1> DEFINE x == [policy EXCEPT !.paused = TRUE]
           p == [Now EXCEPT !.policy = x]
           q == SuspendUser(p)
<1>0. Good(Now) /\ Armed(Now) /\ Now \in Values
  BY DEF LaddersInv, Good
<1>1. Intervenes /\ UNCHANGED shut /\ Becomes(q)
  BY DEF AccountPauses, PersonAsks, Now
<1>2. x \in [paused : BOOLEAN, closed : BOOLEAN, list : Lists \union {Unlisted}]
  BY <1>0, ValueFields, NowHas DEF NowFields
<1> HIDE DEF x
<1>3. /\ p \in Values /\ SameQueue(Now, p)
      /\ p.mapped = Now.mapped /\ p.objs = Now.objs /\ p.told = Now.told
  BY <1>0, <1>2, PolicyFields
<1> HIDE DEF p
<1>4. Good(q) /\ Armed(q)
  <2>1. Armed(p) /\ p.launches = Now.launches
    BY <1>0, <1>3, StillArmed DEF SameQueue
  <2> QED BY <1>0, <1>3, <2>1, SuspendedIs
<1> QED BY <1>1, <1>4, Intervened

\* An account is resumed, or the process boots.
LEMMA AccountResumesInv ==
    ASSUME LaddersInv, AccountResumes
    PROVE  LaddersInv'
<1> DEFINE x == [policy EXCEPT !.paused = FALSE]
           p == [Now EXCEPT !.policy = x]
           q == InitForUser(p)
<1>0. Good(Now) /\ Armed(Now) /\ Now \in Values /\ Allowed(Now)
  BY DEF LaddersInv, Good
<1>1. Intervenes /\ UNCHANGED shut /\ Becomes(q) /\ policy.paused /\ RoomFor(Now, Nets)
  BY DEF AccountResumes, Now
<1>2. x \in [paused : BOOLEAN, closed : BOOLEAN, list : Lists \union {Unlisted}]
  BY <1>0, ValueFields, NowHas DEF NowFields
<1> HIDE DEF x
<1>3. /\ p \in Values /\ SameQueue(Now, p)
      /\ p.mapped = Now.mapped /\ p.objs = Now.objs /\ p.told = Now.told
  BY <1>0, <1>2, PolicyFields
<1> HIDE DEF p
<1>4. Good(p) /\ Armed(p)
  <2>1. \A n \in Nets : p.mapped[n] = 0
    BY <1>0, <1>1, <1>3, NowHas DEF Allowed, NowFields
  <2>2. Allowed(p)
    BY <2>1 DEF Allowed
  <2>3. p.launches = Now.launches
    BY <1>3 DEF SameQueue
  <2> QED BY <1>0, <1>3, <2>2, <2>3, GoodSame, StillArmed
<1>5. RoomFor(p, Nets)
  BY <1>1, <1>3 DEF RoomFor, Unused
<1>6. Good(q) /\ Armed(q)
  <2>1. Nets \subseteq Nets
    OBVIOUS
  <2> QED BY <1>4, <1>5, <2>1, StartEach DEF InitForUser
<1> QED BY <1>1, <1>6, Intervened

\* The instance is closed to other hosts, or opened.
LEMMA InstanceSwitchesInv ==
    ASSUME LaddersInv, InstanceSwitches
    PROVE  LaddersInv'
<1> DEFINE x == [policy EXCEPT !.closed = ~@]
           p == [Now EXCEPT !.policy = x]
<1>0. Good(Now) /\ Armed(Now) /\ Now \in Values /\ Allowed(Now)
  BY DEF LaddersInv, Good
<1>1. Intervenes /\ UNCHANGED shut /\ Becomes(p)
  BY DEF InstanceSwitches, Now
<1>2. /\ x \in [paused : BOOLEAN, closed : BOOLEAN, list : Lists \union {Unlisted}]
      /\ x.paused = Now.policy.paused /\ x.list = Now.policy.list
  BY <1>0, ValueFields, NowHas DEF NowFields
<1> HIDE DEF x
<1>3. /\ p \in Values /\ SameQueue(Now, p) /\ p.policy = x
      /\ p.mapped = Now.mapped /\ p.objs = Now.objs /\ p.told = Now.told
  BY <1>0, <1>2, PolicyFields
<1> HIDE DEF p
<1>4. Allowed(p)
  BY <1>0, <1>2, <1>3, AllowedSame
<1>5. Good(p) /\ Armed(p)
  <2>1. p.launches = Now.launches
    BY <1>3 DEF SameQueue
  <2> QED BY <1>0, <1>3, <1>4, <2>1, GoodSame, StillArmed
<1> QED BY <1>1, <1>5, Intervened

\* The process goes down.
LEMMA ShutdownInv ==
    ASSUME LaddersInv, Shutdown
    PROVE  LaddersInv'
<1> DEFINE h == [y \in Hosts |-> 0]
           g == [host |-> h, floor |-> 0]
           p == [Now EXCEPT !.launches = <<>>, !.pump = NoTimer, !.gates = g]
           q == SuspendUser(p)
<1>0. Good(Now) /\ Armed(Now) /\ Now \in Values
  BY DEF LaddersInv, Good
<1>1. Intervenes /\ shut' = TRUE /\ Becomes(q)
  BY DEF Shutdown
<1>2. /\ p \in Values /\ p.launches = <<>>
      /\ p.mapped = Now.mapped /\ p.objs = Now.objs /\ p.told = Now.told
  <2>1. h \in [Hosts -> 0 .. PerHost + Jitter] /\ 0 \in 0 .. Floor /\ NoTimer \in -1 .. Longest
    BY LadderConstants DEF NoTimer
  <2>2. <<>> \in Seq(TaskSet)
    OBVIOUS
  <2> HIDE DEF h
  <2>3. g \in [host : [Hosts -> 0 .. PerHost + Jitter], floor : 0 .. Floor]
    BY <2>1
  <2>4. p = [Now EXCEPT !.launches = <<>>, !.pump = NoTimer, !.gates = g]
    OBVIOUS
  <2> HIDE DEF g, p
  <2> QED BY <1>0, <2>1, <2>2, <2>3, <2>4 DEF Values
<1> HIDE DEF p
<1>3. Good(q) /\ Armed(q) /\ \A n \in Nets : q.mapped[n] = 0
  <2>1. Armed(p)
    BY <1>2 DEF Armed
  <2> QED BY <1>0, <1>2, <2>1, SuspendedIs
<1> QED BY <1>1, <1>3, Intervened

\* What the next list drops it does not start.
LEMMA DropsAreNotStarts ==
    ASSUME NEW p, NEW next, NEW n \in Starts(p, next)
    PROVE  n \notin Drops(p, next)
  BY DEF Starts, Drops

\* The account is held to another list.
LEMMA AccountRestrictedInv ==
    ASSUME LaddersInv, NEW next \in Lists, AccountRestricted(next)
    PROVE  LaddersInv'
<1> DEFINE x == [policy EXCEPT !.list = next]
           p == [Now EXCEPT !.policy = x]
           N == Drops(Now, next)
           M == Starts(Now, next)
           s == OfEach(StopNetwork, p, N)
           q == OfEach(StartDeferred, s, M)
<1>0. Good(Now) /\ Armed(Now) /\ Now \in Values /\ Mapped(Now) /\ Allowed(Now)
  BY DEF LaddersInv, Good
<1>1. Intervenes /\ UNCHANGED shut /\ Becomes(q) /\ RoomFor(Now, M)
  BY DEF AccountRestricted, RestrictUser, Now
<1>2. /\ x \in [paused : BOOLEAN, closed : BOOLEAN, list : Lists \union {Unlisted}]
      /\ x.paused = Now.policy.paused /\ x.list = next
  BY <1>0, ValueFields, NowHas DEF NowFields
<1> HIDE DEF x
<1>3. /\ p \in Values /\ SameQueue(Now, p) /\ p.policy = x
      /\ p.mapped = Now.mapped /\ p.objs = Now.objs /\ p.told = Now.told
  BY <1>0, <1>2, PolicyFields
<1> HIDE DEF p
<1>N. N \subseteq Nets /\ M \subseteq Nets
  BY DEF Drops, Starts
<1>4. LetGo(p, s, N)
  <2>1. Mapped(p)
    BY <1>0, <1>3 DEF Mapped
  <2> QED BY <1>3, <1>N, <2>1, StopEach
<1>5. ASSUME NEW n \in Nets \ N, Now.mapped[n] # 0
      PROVE  /\ ~p.policy.paused /\ AccountAllows(p, HostOf[n])
             /\ Now.objs[Now.mapped[n]].state # "disconnected"
                   => ~(p.policy.list.held /\ n \in Proxied)
  <2>1. ~Now.policy.paused
    BY <1>0, <1>5 DEF Allowed
  <2>2. next.held => n \notin Proxied /\ HostOf[n] \in next.hosts
    BY <1>5 DEF Drops
  <2>3. ~next.held => HostOf[n] \in next.hosts
    BY ReconnectConstants, LadderConstants DEF Unlisted
  <2> QED BY <1>2, <1>3, <2>1, <2>2, <2>3 DEF AccountAllows
<1> HIDE DEF s, q
<1>6. Good(s)
  <2>1. p.launches = Now.launches
    BY <1>3 DEF SameQueue
  <2> HIDE DEF N
  <2> QED BY <1>0, <1>3, <1>4, <1>5, <1>N, <2>1, StoppedGood
<1>7. Armed(s)
  <2>1. SameQueue(Now, s)
    BY <1>3, <1>4 DEF LetGo, SameQueue
  <2> QED BY <1>0, <2>1, StillArmed
<1>8. RoomFor(s, M)
  <2> DEFINE A == Unused(Now)
             B == Unused(s)
             X == {n \in M : Now.mapped[n] = 0}
  <2>1. {n \in M : s.mapped[n] = 0} = X
    <3>1. \A n \in M : n \notin N
      BY DropsAreNotStarts
    <3> QED BY <1>3, <1>4, <1>N, <3>1 DEF LetGo
  <2>2. A \subseteq B
    <3> SUFFICES ASSUME NEW c \in Objs, Now.objs[c] = NoObj PROVE s.objs[c] = NoObj
      BY DEF Unused
    <3>0. Now.objs[c] = NoObj
      OBVIOUS
    <3>1. \A n \in N : Now.mapped[n] # c
      <4>1. Now.objs[c].net = 0 /\ c # 0
        BY <3>0, LadderConstants DEF NoObj
      <4> HIDE DEF N, M
      <4> QED BY <1>0, <1>N, <4>1, LadderConstants DEF Mapped
    <3> QED BY <1>3, <1>4, <3>1 DEF LetGo
  <2>3. IsFiniteSet(A) /\ Cardinality(A) \in Nat /\ IsFiniteSet(B) /\ Cardinality(B) \in Nat
    <3>1. {} \subseteq Nets /\ 0 \in Nat
      OBVIOUS
    <3> QED BY <3>1, RoomIsFinite
  <2>4. IsFiniteSet(X) /\ Cardinality(X) \in Nat
    <3>1. NumNets \in Nat /\ X \subseteq 1 .. NumNets
      BY <1>N, LadderConstants DEF Nets
    <3>2. IsFiniteSet(1 .. NumNets)
      BY <3>1, FS_Interval
    <3> HIDE DEF X, M, N
    <3>3. IsFiniteSet(X)
      BY <3>1, <3>2, FS_Subset
    <3> QED BY <3>3, FS_CardinalityType
  <2>5. Cardinality(A) >= Cardinality(X)
    BY <1>1 DEF RoomFor
  <2> HIDE DEF A, B, X, M
  <2>6. Cardinality(A) <= Cardinality(B)
    BY <2>2, <2>3, FS_Subset
  <2>7. Cardinality(B) >= Cardinality(X)
    BY ONLY <2>3, <2>4, <2>5, <2>6
  <2> QED BY <2>1, <2>7 DEF RoomFor, B
<1>9. Good(q) /\ Armed(q)
  <2> HIDE DEF M
  <2> QED BY <1>6, <1>7, <1>8, <1>N, StartEach DEF q
<1> QED BY <1>1, <1>9, Intervened

-----------------------------------------------------------------------------
(* What a socket brings and what a timer does keeps the invariant.         *)

Lives(p, c) == LET k == p.objs[c] IN
    ~k.intent /\ ~k.disposed /\ (k.sock # "none" \/ k.timer \/ Waits(p, c))

\* Whose an object is.
LEMMA LivesInTheMap ==
    ASSUME NEW p, Good(p), NEW c \in Objs, p.objs[c].sock # "none" \/ p.objs[c].timer
    PROVE  /\ p.objs[c].net \in Nets
           /\ p.objs[c].timer => Lives(p, c)
           /\ Lives(p, c) => p.mapped[p.objs[c].net] = c /\ CarriedOn(p, c)
<1>1. Belongs(p, c) /\ Idle(p, c)
  BY DEF Good, AllOwned
<1>2. p.objs[c].net \in Nets
  BY <1>1 DEF Belongs, Idle
<1>3. p.objs[c].timer => Lives(p, c)
  BY <1>1 DEF Idle, Lives
<1>4. ASSUME Lives(p, c) PROVE p.mapped[p.objs[c].net] = c /\ CarriedOn(p, c)
  <2>1. p.mapped[p.objs[c].net] = c /\ c # 0
    BY <1>1, <1>4, LadderConstants DEF Belongs, Lives
  <2> QED BY <1>2, <2>1 DEF Good, AllCarried
<1> QED BY <1>2, <1>3, <1>4

\* q is p but for the object c of n, which has moved on in its place.
Moves(p, q, c, n) ==
    LET k == p.objs[c]
        j == q.objs[c] IN
    /\ q \in Values /\ SameQueue(p, q) /\ q.policy = p.policy /\ q.mapped = p.mapped
    /\ \A d \in Objs \ {c} : q.objs[d] = p.objs[d]
    /\ \A m \in Nets \ {n} : q.told[m] = p.told[m]
    /\ k.net = n /\ j.net = n /\ j.intent = k.intent /\ j.disposed = k.disposed
    /\ j.timer => ~j.intent /\ ~j.disposed
    /\ j.sock # "none" \/ j.timer => k.sock # "none" \/ k.timer \/ Waits(p, c)
    /\ p.mapped[n] = c =>
          /\ CarriedOn(q, c)
          /\ Waits(p, c) => j.state = k.state
          /\ k.state = "disconnected" => j.state = "disconnected"
    /\ Stands(q, n)

\* One object moves, in its own network.
LEMMA OneObjectMoves ==
    ASSUME NEW p, Good(p), Armed(p), NEW c \in Objs, NEW n \in Nets, NEW q,
           Moves(p, q, c, n)
    PROVE  Good(q) /\ Armed(q)
<1>m. /\ q \in Values /\ SameQueue(p, q) /\ q.policy = p.policy /\ q.mapped = p.mapped
      /\ \A d \in Objs \ {c} : q.objs[d] = p.objs[d]
      /\ \A m \in Nets \ {n} : q.told[m] = p.told[m]
      /\ p.objs[c].net = n /\ q.objs[c].net = n
      /\ q.objs[c].intent = p.objs[c].intent /\ q.objs[c].disposed = p.objs[c].disposed
      /\ q.objs[c].timer => ~q.objs[c].intent /\ ~q.objs[c].disposed
      /\ q.objs[c].sock # "none" \/ q.objs[c].timer =>
            p.objs[c].sock # "none" \/ p.objs[c].timer \/ Waits(p, c)
      /\ p.mapped[n] = c =>
            /\ CarriedOn(q, c)
            /\ Waits(p, c) => q.objs[c].state = p.objs[c].state
            /\ p.objs[c].state = "disconnected" => q.objs[c].state = "disconnected"
      /\ Stands(q, n)
  BY DEF Moves
<1> USE <1>m
<1>0. Steady(p) /\ p \in Values
  BY DEF Good, Steady
<1>1. Others(p, q, c, n)
  BY DEF Others
<1>2. \A d \in Objs : Waits(q, d) <=> Waits(p, d)
  BY DEF SameQueue, Waits, Queued
<1>3. Tasks(q)
  <2>0. Tasks(p) /\ q.launches = p.launches
    BY <1>0 DEF Steady, SameQueue
  <2>1. ASSUME NEW d \in Objs, Waits(p, d)
        PROVE  /\ q.objs[d].net = p.objs[d].net
               /\ \A m \in Nets : q.mapped[m] = d =>
                     p.mapped[m] = d /\ q.objs[d].state = p.objs[d].state
    <3>1. CASE d # c
      BY <3>1
    <3>2. CASE d = c
      <4>1. \A m \in Nets : p.mapped[m] = c => m = n
        BY <1>0, LadderConstants DEF Steady, Mapped
      <4> QED BY <2>1, <3>2, <4>1
    <3> QED BY <3>1, <3>2
  <2> QED BY <1>0, <2>0, <2>1, TasksStay
<1>4. Belongs(q, c) /\ Idle(q, c)
  <2>1. Belongs(p, c) /\ Idle(p, c)
    BY <1>0 DEF Steady, AllOwned
  <2> QED BY <1>2, <2>1 DEF Belongs, Idle
<1>5. Fits(q, c, n)
  <2> SUFFICES ASSUME q.mapped[n] = c
               PROVE  /\ ~q.objs[c].intent /\ ~q.objs[c].disposed /\ CarriedOn(q, c)
                      /\ ~q.policy.paused /\ AccountAllows(q, HostOf[n])
                      /\ q.objs[c].state # "disconnected"
                            => ~(q.policy.list.held /\ n \in Proxied)
    BY DEF Fits
  <2>1. p.mapped[n] = c /\ c # 0
    BY LadderConstants
  <2>2. ~p.objs[c].intent /\ ~p.objs[c].disposed
    BY <1>0, <2>1 DEF Steady, Mapped
  <2>3. /\ ~p.policy.paused /\ AccountAllows(p, HostOf[n])
        /\ p.objs[c].state # "disconnected" => ~(p.policy.list.held /\ n \in Proxied)
    BY <1>0, <2>1 DEF Steady, Allowed
  <2> QED BY <2>1, <2>2, <2>3 DEF AccountAllows
<1>6. Steady(q)
  <2>1. /\ q.mapped[n] \in {0, c, p.mapped[n]} /\ p.mapped[n] \in {0, c, q.mapped[n]}
        /\ p.objs[c].net \in {0, n} /\ q.policy.paused = p.policy.paused
        /\ q.policy.list = p.policy.list
    OBVIOUS
  <2> QED BY <1>0, <1>1, <1>2, <1>3, <1>4, <1>5, <2>1, OnlyOne
<1>7. AllStand(q)
  <2>1. Elsewhere(p, q, n)
    <3>1. p.objs[c].net \in {0, n}
      OBVIOUS
    <3> QED BY <1>1, <3>1, ElsewhereOf
  <2> QED BY <2>1, OthersStand
<1> QED BY <1>6, <1>7, StillArmed DEF Good, Steady

\* What was told of a network, where what it says of an object that moves on is
\* still so.
LEMMA StillStands ==
    ASSUME NEW p, Good(p), NEW n \in Nets, NEW q, q.mapped = p.mapped, q.told[n] = p.told[n],
           NEW c \in Objs, \A d \in Objs \ {c} : q.objs[d] = p.objs[d],
           q.objs[c].net = p.objs[c].net, q.objs[c].state = p.objs[c].state,
           q.objs[c].disposed = p.objs[c].disposed, q.objs[c].sock = p.objs[c].sock
    PROVE  Stands(q, n)
<1>1. Stands(p, n)
  BY DEF Good, AllStand
<1>2. p.mapped[n] # 0 => p.mapped[n] \in Objs
  BY ValueFields, LadderConstants DEF Good
<1>3. \A d \in Objs : /\ q.objs[d].net = p.objs[d].net /\ q.objs[d].state = p.objs[d].state
                      /\ q.objs[d].disposed = p.objs[d].disposed
                      /\ q.objs[d].sock = p.objs[d].sock
  OBVIOUS
<1> QED BY <1>1, <1>2, <1>3 DEF Stands

\* 001 comes in.
LEMMA RegistersInv ==
    ASSUME LaddersInv, NEW c \in Objs, Registers(c)
    PROVE  LaddersInv'
<1> DEFINE k == objs[c]
           j == [k EXCEPT !.sock = "open", !.terminal = FALSE, !.sasl = FALSE,
                          !.ban = FALSE, !.streak = 0]
           p == [Now EXCEPT !.objs[c] = j]
           q == SetState(p, c, "connected")
           n == k.net
<1>0. Good(Now) /\ Armed(Now) /\ Now \in Values /\ Now.objs[c] = k /\ k \in ObjSet
  <2>1. Good(Now) /\ Armed(Now) /\ Now \in Values /\ Now.objs[c] = k
    BY NowHas DEF LaddersInv, Good, NowFields
  <2> QED BY <2>1, ValueFields
<1>1. Becomes(q) /\ UNCHANGED <<shut, thrown, asked>>
      /\ k.sock = "dialing" /\ ~k.disposed
  BY DEF Registers, Changes, Reads, Now
<1>2. /\ n \in Nets
      /\ k.timer => ~k.intent
      /\ ~k.intent => CarriedOn(Now, c)
  BY <1>0, <1>1, LivesInTheMap DEF Lives
<1>3. /\ j \in ObjSet /\ j.net = n /\ j.sock = "open" /\ ~j.terminal
      /\ j.timer = k.timer /\ j.intent = k.intent /\ j.disposed = k.disposed
  <2>1. 0 \in 0 .. MaxStreak
    BY LadderConstants
  <2> QED BY <1>0, <1>1, <2>1 DEF ObjSet
<1> HIDE DEF j
<1>4. /\ p \in Values /\ p.objs[c] = j
      /\ \A d \in Objs \ {c} : p.objs[d] = Now.objs[d]
      /\ p.mapped = Now.mapped /\ p.launches = Now.launches /\ p.gates = Now.gates
      /\ p.pump = Now.pump /\ p.policy = Now.policy /\ p.told = Now.told
  BY <1>0, <1>3, PutObj
<1> HIDE DEF p
<1>5. /\ q \in Values /\ q.objs[c] = [j EXCEPT !.state = "connected"]
      /\ \A d \in Objs \ {c} : q.objs[d] = p.objs[d]
      /\ q.mapped = p.mapped /\ q.launches = p.launches /\ q.gates = p.gates
      /\ q.pump = p.pump /\ q.policy = p.policy
      /\ \A m \in Nets : q.told[m] = IF ~j.disposed /\ m = j.net THEN "connected" ELSE p.told[m]
  <2>1. "connected" \in NetStates
    BY DEF NetStates
  <2> QED BY <1>4, <2>1, SetStateIs
<1> HIDE DEF q
<1>6. /\ q.objs[c].net = n /\ q.objs[c].sock = "open" /\ ~q.objs[c].terminal
      /\ q.objs[c].timer = k.timer /\ q.objs[c].intent = k.intent
      /\ q.objs[c].disposed = k.disposed
      /\ q.objs[c].state = "connected"
  BY <1>3, <1>5 DEF ObjSet
<1> HIDE DEF n
<1>7. Waits(q, c) <=> Waits(Now, c)
  BY <1>4, <1>5 DEF Waits, Queued
<1>8. ASSUME Now.mapped[n] = c
      PROVE  /\ CarriedOn(q, c)
             /\ Waits(Now, c) => q.objs[c].state = Now.objs[c].state
             /\ Now.objs[c].state = "disconnected" => q.objs[c].state = "disconnected"
  <2>1. ~k.intent
    BY <1>0, <1>2, <1>8, LadderConstants DEF Good, Mapped
  <2>2. k.state = "connecting" /\ ~k.timer /\ ~Waits(Now, c)
    BY <1>0, <1>1, <1>2, <2>1 DEF CarriedOn
  <2>3. CarriedOn(q, c)
    BY <1>6, <1>7, <2>2 DEF CarriedOn
  <2> QED BY <1>0, <2>2, <2>3
<1>9. Stands(q, n)
  <2>1. q.told[n] = "connected"
    BY <1>1, <1>2, <1>3, <1>5
  <2> QED BY <1>1, <1>6, <2>1 DEF Stands
<1>10. Good(q) /\ Armed(q)
  <2>1. /\ SameQueue(Now, q) /\ q.policy = Now.policy /\ q.mapped = Now.mapped
        /\ \A d \in Objs \ {c} : q.objs[d] = Now.objs[d]
        /\ \A m \in Nets \ {n} : q.told[m] = Now.told[m]
    BY <1>3, <1>4, <1>5 DEF SameQueue
  <2>2. /\ Now.objs[c].net = n /\ q.objs[c].intent = Now.objs[c].intent
        /\ q.objs[c].disposed = Now.objs[c].disposed
        /\ q.objs[c].timer => ~q.objs[c].intent /\ ~q.objs[c].disposed
    <3>1. Now.objs[c].net = n
      BY <1>0 DEF n
    <3>2. q.objs[c].timer => ~q.objs[c].intent /\ ~q.objs[c].disposed
      BY <1>1, <1>2, <1>6
    <3> HIDE DEF k
    <3> QED BY <1>0, <1>1, <1>6, <3>1, <3>2
  <2>3. Now.objs[c].sock # "none"
    BY <1>0, <1>1
  <2>4. /\ Good(Now) /\ Armed(Now) /\ n \in Nets /\ q \in Values /\ q.objs[c].net = n
        /\ q.objs[c].sock # "none" \/ q.objs[c].timer =>
              Now.objs[c].sock # "none" \/ Now.objs[c].timer \/ Waits(Now, c)
    BY <1>0, <1>2, <1>5, <1>6, <2>3
  <2>5. Now.mapped[n] = c =>
            /\ CarriedOn(q, c)
            /\ Waits(Now, c) => q.objs[c].state = Now.objs[c].state
            /\ Now.objs[c].state = "disconnected" => q.objs[c].state = "disconnected"
    BY <1>8
  <2> HIDE DEF k
  <2>6. Moves(Now, q, c, n)
    BY <1>9, <2>1, <2>2, <2>4, <2>5 DEF Moves
  <2> QED BY <1>0, <1>2, <2>6, OneObjectMoves
<1>11. \A m \in Nets : q.mapped[m] \in {0, mapped[m]}
  BY <1>4, <1>5, NowHas DEF NowFields
<1>12. thrown' \in 0 .. MaxUnread
  BY <1>1 DEF LaddersInv
<1> QED BY <1>1, <1>10, <1>11, <1>12, Changed

\* What is only noted of an object, for its close.
LEMMA Noted ==
    ASSUME LaddersInv, NEW c \in Objs, Judges(c), NEW j \in ObjSet,
           j.net = objs[c].net, j.state = objs[c].state, j.sock = objs[c].sock,
           j.timer = objs[c].timer, j.intent = objs[c].intent,
           j.disposed = objs[c].disposed, j.terminal = objs[c].terminal,
           Becomes([Now EXCEPT !.objs[c] = j]), UNCHANGED <<shut, thrown, asked>>
    PROVE  LaddersInv'
<1> DEFINE q == [Now EXCEPT !.objs[c] = j]
           k == objs[c]
           n == k.net
<1>0. Good(Now) /\ Armed(Now) /\ Now \in Values /\ Now.objs[c] = k
  BY NowHas DEF LaddersInv, Good, NowFields
<1>1. k.sock # "none" /\ ~k.disposed /\ ~k.intent
  BY DEF Judges, Reads
<1> HIDE DEF k
<1>2. n \in Nets /\ CarriedOn(Now, c)
  BY <1>0, <1>1, LivesInTheMap DEF Lives
<1>3. /\ q \in Values /\ q.objs[c] = j
      /\ \A d \in Objs \ {c} : q.objs[d] = Now.objs[d]
      /\ q.mapped = Now.mapped /\ q.launches = Now.launches /\ q.gates = Now.gates
      /\ q.pump = Now.pump /\ q.policy = Now.policy /\ q.told = Now.told
  BY <1>0, PutObj
<1>j. /\ j.net = k.net /\ j.state = k.state /\ j.sock = k.sock /\ j.timer = k.timer
      /\ j.intent = k.intent /\ j.disposed = k.disposed /\ j.terminal = k.terminal
  BY DEF k
<1>b. Becomes(q)
  OBVIOUS
<1> HIDE DEF q, n
<1>4. CarriedOn(q, c)
  BY <1>0, <1>2, <1>3, <1>j DEF CarriedOn, Waits, Queued
<1>5. Stands(q, n)
  BY <1>0, <1>2, <1>3, <1>j, StillStands
<1>6. Moves(Now, q, c, n)
  <2>1. SameQueue(Now, q)
    BY <1>3 DEF SameQueue
  <2>2. k.net = n
    BY DEF n
  <2> QED BY <1>0, <1>1, <1>3, <1>4, <1>5, <1>j, <2>1, <2>2 DEF Moves
<1>7. Good(q) /\ Armed(q)
  BY <1>0, <1>2, <1>6, OneObjectMoves
<1>8. \A m \in Nets : q.mapped[m] \in {0, mapped[m]}
  BY <1>3, NowHas DEF NowFields
<1>9. thrown' \in 0 .. MaxUnread
  BY DEF LaddersInv
<1> QED BY <1>7, <1>8, <1>9, <1>b, Changed

\* A SASL rejection.
LEMMA SaslRejectedInv ==
    ASSUME LaddersInv, NEW c \in Objs, SaslRejected(c)
    PROVE  LaddersInv'
<1> DEFINE k == objs[c]
           s == IF k.streak < MaxStreak THEN k.streak + 1 ELSE k.streak
           j == [k EXCEPT !.ban = FALSE, !.sasl = TRUE, !.streak = s]
<1>0. k \in ObjSet
  BY NowHas, ValueFields DEF LaddersInv, Good, NowFields
<1>1. Judges(c) /\ Becomes([Now EXCEPT !.objs[c] = j]) /\ UNCHANGED <<shut, thrown, asked>>
  BY DEF SaslRejected, Changes, Now
<1>2. s \in 0 .. MaxStreak
  <2>1. k.streak \in 0 .. MaxStreak /\ MaxStreak \in Nat
    BY <1>0, LadderConstants DEF ObjSet
  <2> QED BY <2>1
<1> HIDE DEF s
<1>3. /\ j \in ObjSet
      /\ j.net = k.net /\ j.state = k.state /\ j.sock = k.sock /\ j.timer = k.timer
      /\ j.intent = k.intent /\ j.disposed = k.disposed /\ j.terminal = k.terminal
  BY <1>0, <1>2 DEF ObjSet
<1> HIDE DEF j
<1> QED BY <1>1, <1>3, Noted

\* A line that announces a ban, or any other.
LEMMA ServerSaysInv ==
    ASSUME LaddersInv, NEW c \in Objs, ServerBans(c) \/ ServerSpeaks(c)
    PROVE  LaddersInv'
<1> DEFINE k == objs[c]
           j(b) == [k EXCEPT !.ban = b]
<1>0. k \in ObjSet
  BY NowHas, ValueFields DEF LaddersInv, Good, NowFields
<1>1. PICK b \in BOOLEAN : /\ Judges(c) /\ Becomes([Now EXCEPT !.objs[c] = j(b)])
                           /\ UNCHANGED <<shut, thrown, asked>>
  <2>1. CASE ServerBans(c)
    BY <2>1 DEF ServerBans, Changes, Now
  <2>2. CASE ServerSpeaks(c)
    BY <2>2 DEF ServerSpeaks, Changes, Now
  <2> QED BY <2>1, <2>2
<1>3. /\ j(b) \in ObjSet
      /\ j(b).net = k.net /\ j(b).state = k.state /\ j(b).sock = k.sock /\ j(b).timer = k.timer
      /\ j(b).intent = k.intent /\ j(b).disposed = k.disposed /\ j(b).terminal = k.terminal
  BY <1>0 DEF ObjSet
<1> HIDE DEF j
<1> QED BY <1>1, <1>3, Noted

\* What the close makes of what the server last said.
LEMMA PromotedIs ==
    ASSUME NEW k \in ObjSet
    PROVE  LET j == Promoted(k) IN
           /\ j \in ObjSet /\ j.net = k.net /\ j.state = k.state /\ j.sock = k.sock
           /\ j.timer = k.timer /\ j.intent = k.intent /\ j.disposed = k.disposed
<1> DEFINE b == k.terminal \/ k.ban \/ (k.sasl /\ k.streak >= MaxStreak)
<1>1. b \in BOOLEAN
  OBVIOUS
<1>2. Promoted(k) = [k EXCEPT !.terminal = b, !.sasl = FALSE, !.ban = FALSE]
  BY DEF Promoted
<1> HIDE DEF b
<1> QED BY <1>1, <1>2 DEF ObjSet

\* What a retry that is due to be waited for leaves.
LEMMA WarrantedIs ==
    ASSUME NEW p \in Values, NEW c \in Objs, NEW n \in Nets, p.objs[c].net = n
    PROVE  LET q == ScheduleReconnectIfWarranted(p, c)
               k == p.objs[c]
               j == q.objs[c] IN
           /\ q \in Values /\ SameQueue(p, q) /\ q.policy = p.policy /\ q.mapped = p.mapped
           /\ \A d \in Objs \ {c} : q.objs[d] = p.objs[d]
           /\ \A m \in Nets \ {n} : q.told[m] = p.told[m]
           /\ j.net = n /\ j.sock = k.sock /\ j.intent = k.intent /\ j.disposed = k.disposed
           /\ j.terminal = k.terminal
           /\ k.disposed \/ k.intent \/ k.timer => q = p
           /\ ~k.disposed /\ ~k.intent /\ ~k.timer =>
                 /\ k.terminal => /\ ~j.timer /\ j.state = "disconnected"
                                  /\ q.told[n] = "disconnected"
                 /\ ~k.terminal => /\ j.timer /\ j.state = "reconnecting"
                                   /\ q.told[n] = "reconnecting"
<1> DEFINE q == ScheduleReconnectIfWarranted(p, c)
           k == p.objs[c]
<1>0. k \in ObjSet
  BY ValueFields
<1>1. CASE k.disposed \/ k.intent \/ k.timer
  <2>1. q = p
    BY <1>1 DEF ScheduleReconnectIfWarranted
  <2> QED BY <1>1, <2>1 DEF SameQueue
<1>2. CASE ~(k.disposed \/ k.intent \/ k.timer) /\ k.terminal
  <2>1. q = SetState(p, c, "disconnected") /\ "disconnected" \in NetStates
    BY <1>2 DEF ScheduleReconnectIfWarranted, NetStates
  <2> HIDE DEF q
  <2>2. /\ q \in Values /\ q.objs[c] = [k EXCEPT !.state = "disconnected"]
        /\ \A d \in Objs \ {c} : q.objs[d] = p.objs[d]
        /\ q.mapped = p.mapped /\ q.launches = p.launches /\ q.gates = p.gates
        /\ q.pump = p.pump /\ q.policy = p.policy
        /\ \A m \in Nets : q.told[m] = IF ~k.disposed /\ m = k.net THEN "disconnected" ELSE p.told[m]
    BY <2>1, SetStateIs
  <2>3. /\ q.objs[c].net = k.net /\ q.objs[c].sock = k.sock /\ q.objs[c].intent = k.intent
        /\ q.objs[c].disposed = k.disposed /\ q.objs[c].terminal = k.terminal
        /\ q.objs[c].timer = k.timer /\ q.objs[c].state = "disconnected"
    BY <1>0, <2>2 DEF ObjSet
  <2> QED BY <1>2, <2>2, <2>3 DEF SameQueue, q
<1>3. CASE ~(k.disposed \/ k.intent \/ k.timer) /\ ~k.terminal
  <2> DEFINE j == [k EXCEPT !.timer = TRUE]
             a == [p EXCEPT !.objs[c] = j]
  <2>0. /\ j \in ObjSet /\ j.net = k.net /\ j.sock = k.sock /\ j.intent = k.intent
        /\ j.disposed = k.disposed /\ j.terminal = k.terminal /\ j.timer
    BY <1>0 DEF ObjSet
  <2>1. q = SetState(a, c, "reconnecting") /\ "reconnecting" \in NetStates
    BY <1>3 DEF ScheduleReconnectIfWarranted, NetStates
  <2> HIDE DEF q, j
  <2>a. /\ a \in Values /\ a.objs[c] = j
        /\ \A d \in Objs \ {c} : a.objs[d] = p.objs[d]
        /\ a.mapped = p.mapped /\ a.launches = p.launches /\ a.gates = p.gates
        /\ a.pump = p.pump /\ a.policy = p.policy /\ a.told = p.told
    BY <2>0, PutObj
  <2> HIDE DEF a
  <2>2. /\ q \in Values /\ q.objs[c] = [j EXCEPT !.state = "reconnecting"]
        /\ \A d \in Objs \ {c} : q.objs[d] = a.objs[d]
        /\ q.mapped = a.mapped /\ q.launches = a.launches /\ q.gates = a.gates
        /\ q.pump = a.pump /\ q.policy = a.policy
        /\ \A m \in Nets : q.told[m] = IF ~j.disposed /\ m = j.net THEN "reconnecting" ELSE a.told[m]
    BY <2>1, <2>a, SetStateIs
  <2>3. /\ q.objs[c].net = k.net /\ q.objs[c].sock = k.sock /\ q.objs[c].intent = k.intent
        /\ q.objs[c].disposed = k.disposed /\ q.objs[c].terminal = k.terminal
        /\ q.objs[c].timer /\ q.objs[c].state = "reconnecting"
    BY <2>0, <2>2 DEF ObjSet
  <2> QED BY <1>3, <2>0, <2>2, <2>3, <2>a DEF SameQueue, q
<1> QED BY <1>1, <1>2, <1>3

\* A close: what nobody has ended is retried, or has given up.
LEMMA SocketClosesInv ==
    ASSUME LaddersInv, NEW c \in Objs, SocketCloses(c)
    PROVE  LaddersInv'
<1> DEFINE k == objs[c]
           n == k.net
           i == [k EXCEPT !.sock = "none"]
           a == [Now EXCEPT !.objs[c] = i]
           b == SetState(a, c, "disconnected")
           j == Promoted(b.objs[c])
           p == [b EXCEPT !.objs[c] = j]
           q == ScheduleReconnectIfWarranted(p, c)
<1>0. Good(Now) /\ Armed(Now) /\ Now \in Values /\ Now.objs[c] = k /\ k \in ObjSet
  <2>1. Good(Now) /\ Armed(Now) /\ Now \in Values /\ Now.objs[c] = k
    BY NowHas DEF LaddersInv, Good, NowFields
  <2> QED BY <2>1, ValueFields
<1>1. Becomes(q) /\ UNCHANGED <<shut, thrown, asked>> /\ k.sock # "none"
  BY DEF SocketCloses, Changes, Now
<1>2. /\ n \in Nets
      /\ k.timer => ~k.intent /\ ~k.disposed
      /\ ~k.intent /\ ~k.disposed => CarriedOn(Now, c) /\ Now.mapped[n] = c
  BY <1>0, <1>1, LivesInTheMap DEF Lives
<1>3. ~k.timer
  BY <1>0, <1>1, <1>2 DEF CarriedOn
<1>i. /\ i \in ObjSet /\ i.sock = "none" /\ i.net = n /\ i.timer = k.timer
      /\ i.intent = k.intent /\ i.disposed = k.disposed
  BY <1>0 DEF ObjSet
<1> HIDE DEF i, q
<1>a. /\ a \in Values /\ a.objs[c] = i
      /\ \A d \in Objs \ {c} : a.objs[d] = Now.objs[d]
      /\ a.mapped = Now.mapped /\ a.launches = Now.launches /\ a.gates = Now.gates
      /\ a.pump = Now.pump /\ a.policy = Now.policy /\ a.told = Now.told
  BY <1>0, <1>i, PutObj
<1> HIDE DEF a
<1>b. /\ b \in Values /\ b.objs[c] = [i EXCEPT !.state = "disconnected"]
      /\ \A d \in Objs \ {c} : b.objs[d] = Now.objs[d]
      /\ b.mapped = Now.mapped /\ b.launches = Now.launches /\ b.gates = Now.gates
      /\ b.pump = Now.pump /\ b.policy = Now.policy
      /\ \A m \in Nets : b.told[m] = IF ~k.disposed /\ m = n THEN "disconnected"
                                     ELSE Now.told[m]
  <2>1. "disconnected" \in NetStates
    BY DEF NetStates
  <2> HIDE DEF n, k
  <2>2. /\ b \in Values /\ b.objs[c] = [i EXCEPT !.state = "disconnected"]
        /\ \A d \in Objs \ {c} : b.objs[d] = a.objs[d]
        /\ b.mapped = a.mapped /\ b.launches = a.launches /\ b.gates = a.gates
        /\ b.pump = a.pump /\ b.policy = a.policy
        /\ \A m \in Nets : b.told[m] = IF ~i.disposed /\ m = i.net THEN "disconnected"
                                       ELSE a.told[m]
    BY <1>a, <2>1, SetStateIs
  <2> HIDE DEF b
  <2> QED BY <1>a, <1>i, <2>2
<1> HIDE DEF b
<1>j. /\ j \in ObjSet /\ j.sock = "none" /\ j.net = n /\ ~j.timer /\ j.state = "disconnected"
      /\ j.intent = k.intent /\ j.disposed = k.disposed
  <2> DEFINE e == b.objs[c]
  <2>1. /\ e \in ObjSet /\ e.sock = "none" /\ e.net = n /\ ~e.timer /\ e.state = "disconnected"
        /\ e.intent = k.intent /\ e.disposed = k.disposed
    BY <1>3, <1>b, <1>i DEF ObjSet, NetStates
  <2> HIDE DEF e
  <2>2. /\ Promoted(e) \in ObjSet /\ Promoted(e).net = e.net /\ Promoted(e).state = e.state
        /\ Promoted(e).sock = e.sock /\ Promoted(e).timer = e.timer
        /\ Promoted(e).intent = e.intent /\ Promoted(e).disposed = e.disposed
    BY <2>1, PromotedIs
  <2> QED BY <2>1, <2>2 DEF e
<1> HIDE DEF j
<1>p. /\ p \in Values /\ p.objs[c] = j
      /\ \A d \in Objs \ {c} : p.objs[d] = b.objs[d]
      /\ p.mapped = b.mapped /\ p.launches = b.launches /\ p.gates = b.gates
      /\ p.pump = b.pump /\ p.policy = b.policy /\ p.told = b.told
  BY <1>b, <1>j, PutObj
<1> HIDE DEF p, n
<1>q. /\ q \in Values /\ SameQueue(p, q) /\ q.policy = p.policy /\ q.mapped = p.mapped
      /\ \A d \in Objs \ {c} : q.objs[d] = p.objs[d]
      /\ \A m \in Nets \ {n} : q.told[m] = p.told[m]
      /\ q.objs[c].net = n /\ q.objs[c].sock = j.sock /\ q.objs[c].intent = j.intent
      /\ q.objs[c].disposed = j.disposed /\ q.objs[c].terminal = j.terminal
      /\ j.disposed \/ j.intent \/ j.timer => q = p
      /\ ~j.disposed /\ ~j.intent /\ ~j.timer =>
            /\ j.terminal => /\ ~q.objs[c].timer /\ q.objs[c].state = "disconnected"
                             /\ q.told[n] = "disconnected"
            /\ ~j.terminal => /\ q.objs[c].timer /\ q.objs[c].state = "reconnecting"
                              /\ q.told[n] = "reconnecting"
  <2>1. p.objs[c].net = n
    BY <1>j, <1>p
  <2> QED BY <1>2, <1>p, <2>1, WarrantedIs DEF q
<1> HIDE DEF k
<1>4. /\ SameQueue(Now, q) /\ q.policy = Now.policy /\ q.mapped = Now.mapped
      /\ \A d \in Objs \ {c} : q.objs[d] = Now.objs[d]
      /\ \A m \in Nets \ {n} : q.told[m] = Now.told[m]
      /\ q.objs[c].net = n /\ q.objs[c].sock = "none"
      /\ q.objs[c].intent = k.intent /\ q.objs[c].disposed = k.disposed
  BY <1>b, <1>j, <1>p, <1>q DEF SameQueue
<1>5. q.objs[c].timer => ~k.intent /\ ~k.disposed
  BY <1>j, <1>p, <1>q
<1>6. ASSUME Now.mapped[n] = c
      PROVE  /\ CarriedOn(q, c)
             /\ Waits(Now, c) => q.objs[c].state = k.state
             /\ k.state = "disconnected" => q.objs[c].state = "disconnected"
  <2>1. ~k.intent /\ ~k.disposed
    BY <1>0, <1>2, <1>6, LadderConstants DEF Good, Mapped
  <2>2. /\ k.state # "disconnected" /\ ~Waits(Now, c)
    BY <1>0, <1>1, <1>2, <2>1 DEF CarriedOn
  <2>3. ~Waits(q, c)
    BY <1>4, <2>2 DEF SameQueue, Waits, Queued
  <2>4. CarriedOn(q, c)
    BY <1>4, <1>j, <1>q, <2>1, <2>3 DEF CarriedOn
  <2> QED BY <2>2, <2>4
<1>7. Stands(q, n)
  <2>1. CASE k.disposed
    <3>0. q = p /\ q.told[n] = Now.told[n]
      BY <1>2, <1>b, <1>j, <1>p, <1>q, <2>1
    <3>1. Stands(Now, n)
      BY <1>0, <1>2 DEF Good, AllStand
    <3>2. Now.mapped[n] # 0 => Now.mapped[n] # c /\ Now.mapped[n] \in Objs
      <4>1. Now.mapped[n] # 0 => Now.mapped[n] \in Objs
        BY <1>0, <1>2, ValueFields, LadderConstants
      <4>2. Now.mapped[n] # 0 => Now.mapped[n] # c
        BY <1>0, <1>2, <2>1 DEF Good, Mapped
      <4> QED BY <4>1, <4>2
    <3> QED BY <1>0, <1>4, <2>1, <3>0, <3>1, <3>2 DEF Stands
  <2>2. CASE ~k.disposed /\ k.intent
    <3>1. q.told[n] = "disconnected"
      BY <1>2, <1>b, <1>j, <1>p, <1>q, <2>2
    <3> QED BY <3>1 DEF Stands
  <2>3. CASE ~k.disposed /\ ~k.intent
    <3>1. Now.mapped[n] = c /\ c # 0
      BY <1>2, <2>3, LadderConstants
    <3>2. \/ q.told[n] = "disconnected"
          \/ q.told[n] = "reconnecting" /\ q.objs[c].state = "reconnecting"
      BY <1>j, <1>q, <2>3
    <3> QED BY <1>4, <3>1, <3>2 DEF Stands
  <2> QED BY <2>1, <2>2, <2>3
<1>8. Moves(Now, q, c, n)
  <2>1. k.net = n
    BY DEF n
  <2> QED BY <1>0, <1>1, <1>4, <1>5, <1>6, <1>7, <1>q, <2>1 DEF Moves
<1>9. Good(q) /\ Armed(q)
  BY <1>0, <1>2, <1>8, OneObjectMoves
<1>10. \A m \in Nets : q.mapped[m] \in {0, mapped[m]}
  BY <1>4, NowHas DEF NowFields
<1>11. thrown' \in 0 .. MaxUnread
  BY <1>1 DEF LaddersInv
<1> QED BY <1>1, <1>9, <1>10, <1>11, Changed

\* A backoff that is over: the retry takes its turn in the launch queue.
LEMMA BackoffEndsInv ==
    ASSUME LaddersInv, NEW c \in Objs, BackoffEnds(c)
    PROVE  LaddersInv'
<1> DEFINE k == objs[c]
           n == k.net
           j == [k EXCEPT !.timer = FALSE]
           p == [Now EXCEPT !.objs[c] = j]
           q == Schedule(p, c, "retry")
           t == [obj |-> c, kind |-> "retry", net |-> n]
<1>0. Good(Now) /\ Armed(Now) /\ Now \in Values /\ Now.objs[c] = k /\ k \in ObjSet
      /\ Steady(Now)
  <2>1. Good(Now) /\ Armed(Now) /\ Now \in Values /\ Now.objs[c] = k /\ Steady(Now)
    BY NowHas DEF LaddersInv, Good, Steady, NowFields
  <2> QED BY <2>1, ValueFields
<1>t. k.timer
  BY DEF BackoffEnds
<1>1. /\ n \in Nets /\ ~k.intent /\ ~k.disposed
      /\ CarriedOn(Now, c) /\ Now.mapped[n] = c
  BY <1>0, <1>t, LivesInTheMap DEF Lives
<1>2. /\ k.sock = "none" /\ k.state = "reconnecting" /\ ~k.terminal /\ ~Waits(Now, c)
  BY <1>0, <1>1, <1>t DEF CarriedOn
<1>3. Becomes(q) /\ UNCHANGED <<shut, thrown, asked>>
  BY <1>1 DEF BackoffEnds, Changes, Now
<1>j. /\ j \in ObjSet /\ j.sock = "none" /\ j.net = n /\ ~j.timer /\ j.state = "reconnecting"
      /\ ~j.intent /\ ~j.disposed /\ ~j.terminal
  BY <1>0, <1>1, <1>2 DEF ObjSet
<1> HIDE DEF j, n
<1>p. /\ p \in Values /\ p.objs[c] = j
      /\ \A d \in Objs \ {c} : p.objs[d] = Now.objs[d]
      /\ p.mapped = Now.mapped /\ p.launches = Now.launches /\ p.gates = Now.gates
      /\ p.pump = Now.pump /\ p.policy = Now.policy /\ p.told = Now.told
  BY <1>0, <1>j, PutObj
<1> HIDE DEF p, q, k
<1>q. /\ q \in Values /\ Armed(q) /\ q.launches = Append(Now.launches, t)
      /\ q.mapped = Now.mapped /\ q.objs = p.objs /\ q.gates = Now.gates
      /\ q.policy = Now.policy /\ q.told = Now.told
  <2>1. p.objs[c].net = n /\ n \in Nets
    BY <1>1, <1>j, <1>p
  <2>2. q = Schedule(p, c, "retry")
    BY DEF q
  <2>3. /\ q \in Values /\ Armed(q)
        /\ q.launches = Append(p.launches, [obj |-> c, kind |-> "retry", net |-> p.objs[c].net])
        /\ q.mapped = p.mapped /\ q.objs = p.objs /\ q.gates = p.gates
        /\ q.policy = p.policy /\ q.told = p.told
    BY <1>p, <2>1, <2>2, ScheduleIs
  <2> QED BY <1>p, <2>1, <2>3
<1>4. t \in TaskSet /\ t.obj = c /\ t.net = n /\ t.kind = "retry"
  BY <1>1 DEF TaskSet
<1> HIDE DEF t
<1>5. Waits(q, c) /\ \A d \in Objs \ {c} : Waits(q, d) <=> Waits(Now, d)
  BY <1>0, <1>4, <1>q, OneMoreTask
<1>6. Tasks(q)
  <2>1. /\ \A d \in Objs \ {t.obj} : q.objs[d] = Now.objs[d]
        /\ \A m \in Nets \ {t.net} : q.mapped[m] = Now.mapped[m]
        /\ q.mapped[t.net] = t.obj /\ q.mapped[t.net] = Now.mapped[t.net]
        /\ q.objs[t.obj].net = t.net
        /\ t.kind = "retry" /\ q.objs[t.obj].state = "reconnecting"
        /\ ~Waits(Now, t.obj)
    BY <1>1, <1>2, <1>4, <1>j, <1>p, <1>q
  <2>2. Tasks(Now)
    BY <1>0 DEF Steady
  <2> QED BY <1>0, <1>4, <1>q, <2>1, <2>2, TasksGrow
<1>7. Others(Now, q, c, n)
  BY <1>p, <1>q DEF Others
<1>8. Belongs(q, c) /\ Idle(q, c)
  BY <1>1, <1>j, <1>p, <1>q DEF Belongs, Idle
<1>9. Fits(q, c, n)
  <2>1. CarriedOn(q, c)
    BY <1>5, <1>j, <1>p, <1>q DEF CarriedOn
  <2>2. /\ ~Now.policy.paused /\ AccountAllows(Now, HostOf[n])
        /\ ~(Now.policy.list.held /\ n \in Proxied)
    <3>1. Now.mapped[n] # 0 /\ Now.objs[Now.mapped[n]].state # "disconnected"
      BY <1>0, <1>1, <1>2, LadderConstants
    <3> QED BY <1>0, <1>1, <3>1 DEF Steady, Allowed
  <2> QED BY <1>j, <1>p, <1>q, <2>1, <2>2 DEF Fits, AccountAllows
<1>n. Now.objs[c].net = n
  BY <1>0 DEF n
<1>10. Steady(q)
  <2>1. /\ q.mapped[n] = c /\ Now.mapped[n] = c /\ q.policy = Now.policy /\ q.objs[c].net = n
    BY <1>1, <1>j, <1>p, <1>q
  <2> QED BY <1>0, <1>1, <1>5, <1>6, <1>7, <1>8, <1>9, <1>n, <1>q, <2>1, OnlyOne
<1>11. AllStand(q)
  <2>1. Elsewhere(Now, q, n)
    BY <1>1, <1>7, <1>n, ElsewhereOf
  <2>2. Stands(q, n)
    <3>1. /\ q.objs[c].net = Now.objs[c].net /\ q.objs[c].state = Now.objs[c].state
          /\ q.objs[c].sock = Now.objs[c].sock
      BY <1>0, <1>2, <1>j, <1>n, <1>p, <1>q
    <3>2. Stands(Now, n)
      BY <1>0, <1>1 DEF Good, AllStand
    <3>3. \A d \in Objs : Now.objs[d].sock # "none" => q.objs[d] = Now.objs[d]
      BY <1>0, <1>2, <1>p, <1>q
    <3>4. q.mapped = Now.mapped /\ q.told = Now.told /\ Now.mapped[n] = c
      BY <1>1, <1>q
    <3> QED BY <3>1, <3>2, <3>3, <3>4 DEF Stands
  <2> QED BY <1>0, <1>1, <2>1, <2>2, OthersStand
<1>12. Good(q)
  BY <1>10, <1>11 DEF Good, Steady
<1>13. \A m \in Nets : q.mapped[m] \in {0, mapped[m]}
  BY <1>q, NowHas DEF NowFields
<1>14. thrown' \in 0 .. MaxUnread
  BY <1>3 DEF LaddersInv
<1> QED BY <1>3, <1>12, <1>13, <1>14, <1>q, Changed

\* One taken out of a sequence.
LEMMA RemoveAtIs ==
    ASSUME NEW S, NEW s \in Seq(S), NEW i \in 1 .. Len(s)
    PROVE  LET r == RemoveAt(s, i) IN
           /\ r \in Seq(S) /\ Len(r) = Len(s) - 1
           /\ \A j \in 1 .. Len(s) - 1 : r[j] = IF j < i THEN s[j] ELSE s[j + 1]
<1> DEFINE n == Len(s)
           a == SubSeq(s, 1, i - 1)
           b == SubSeq(s, i + 1, n)
           r == RemoveAt(s, i)
<1>1. n \in Nat /\ i \in 1 .. n /\ i \in Nat
  BY LenProperties
<1>2. \A j \in 1 .. n : s[j] \in S
  BY ElementOfSeq
<1>3. /\ a \in Seq(S) /\ Len(a) = i - 1
      /\ \A j \in 1 .. i - 1 : a[j] = s[j]
  <2>1. 1 \in Int /\ i - 1 \in Int /\ \A j \in 1 .. i - 1 : s[j] \in S
    BY <1>1, <1>2
  <2>2. /\ a \in Seq(S) /\ Len(a) = IF 1 <= i - 1 THEN (i - 1) - 1 + 1 ELSE 0
        /\ \A j \in 1 .. (i - 1) - 1 + 1 : a[j] = s[1 + j - 1]
    BY <2>1, SubSeqProperties
  <2> HIDE DEF a
  <2>3. \A j \in 1 .. i - 1 : j \in 1 .. (i - 1) - 1 + 1 /\ 1 + j - 1 = j
    BY <1>1
  <2> QED BY <1>1, <2>2, <2>3
<1>4. /\ b \in Seq(S) /\ Len(b) = n - i
      /\ \A j \in 1 .. n - i : b[j] = s[i + j]
  <2>1. i + 1 \in Int /\ n \in Int /\ \A j \in i + 1 .. n : s[j] \in S
    BY <1>1, <1>2
  <2>2. /\ b \in Seq(S) /\ Len(b) = IF i + 1 <= n THEN n - (i + 1) + 1 ELSE 0
        /\ \A j \in 1 .. n - (i + 1) + 1 : b[j] = s[(i + 1) + j - 1]
    BY <2>1, SubSeqProperties
  <2> HIDE DEF b
  <2>3. \A j \in 1 .. n - i : j \in 1 .. n - (i + 1) + 1 /\ (i + 1) + j - 1 = i + j
    BY <1>1
  <2> QED BY <1>1, <2>2, <2>3
<1>5. r = a \o b
  BY DEF RemoveAt
<1> HIDE DEF a, b, r, n
<1>6. /\ r \in Seq(S) /\ Len(r) = Len(a) + Len(b)
      /\ \A j \in 1 .. Len(a) + Len(b) : r[j] = IF j <= Len(a) THEN a[j] ELSE b[j - Len(a)]
  BY <1>3, <1>4, <1>5, ConcatProperties
<1>7. Len(a) + Len(b) = n - 1
  BY <1>1, <1>3, <1>4
<1>8. ASSUME NEW j \in 1 .. n - 1 PROVE r[j] = IF j < i THEN s[j] ELSE s[j + 1]
  <2>1. r[j] = IF j <= i - 1 THEN a[j] ELSE b[j - (i - 1)]
    BY <1>3, <1>6, <1>7
  <2>2. CASE j < i
    <3>1. j \in 1 .. i - 1 /\ j <= i - 1
      BY <1>1, <2>2
    <3> QED BY <1>3, <2>1, <2>2, <3>1
  <2>3. CASE ~(j < i)
    <3>1. j - (i - 1) \in 1 .. n - i /\ ~(j <= i - 1) /\ i + (j - (i - 1)) = j + 1
      BY <1>1, <2>3
    <3> QED BY <1>4, <2>1, <2>3, <3>1
  <2> QED BY <2>2, <2>3
<1> QED BY <1>6, <1>7, <1>8 DEF n, r

\* A task that is taken leaves none of its object.
LEMMA TaskTaken ==
    ASSUME NEW p \in Values, Tasks(p), NEW i \in DOMAIN p.launches, NEW q \in Values,
           q.launches = RemoveAt(p.launches, i), q.objs = p.objs, q.mapped = p.mapped
    PROVE  LET c == p.launches[i].obj IN
           /\ ~Waits(q, c) /\ \A d \in Objs \ {c} : Waits(q, d) <=> Waits(p, d)
           /\ Tasks(q)
<1> DEFINE s == p.launches
           r == q.launches
           n == Len(s)
           from(j) == IF j < i THEN j ELSE j + 1
<1>1. /\ s \in Seq(TaskSet) /\ n \in Nat /\ DOMAIN s = 1 .. n /\ i \in 1 .. n
  BY ValueFields, LenProperties
<1>2. /\ r \in Seq(TaskSet) /\ Len(r) = n - 1
      /\ \A j \in 1 .. n - 1 : r[j] = IF j < i THEN s[j] ELSE s[j + 1]
  <2>1. r = RemoveAt(s, i)
    OBVIOUS
  <2> HIDE DEF s, r
  <2> QED BY <1>1, <2>1, RemoveAtIs
<1>3. DOMAIN r = 1 .. n - 1
  BY <1>2, LenProperties
<1> HIDE DEF s, r, n
<1>4. ASSUME NEW j \in DOMAIN r
      PROVE  /\ from(j) \in DOMAIN s /\ from(j) # i /\ r[j] = s[from(j)]
  BY <1>1, <1>2, <1>3
<1>5. ASSUME NEW m \in DOMAIN s, m # i PROVE \E j \in DOMAIN r : r[j] = s[m]
  <2>1. CASE m < i
    <3>1. m \in 1 .. n - 1
      BY <1>1, <2>1
    <3> QED BY <1>2, <1>3, <2>1, <3>1
  <2>2. CASE ~(m < i)
    <3>1. m - 1 \in 1 .. n - 1 /\ ~(m - 1 < i) /\ (m - 1) + 1 = m
      BY <1>1, <1>5, <2>2
    <3>2. r[m - 1] = s[m]
      BY <1>2, <3>1
    <3> QED BY <1>3, <3>1, <3>2
  <2> QED BY <2>1, <2>2
<1>6. \A j, l \in DOMAIN r : from(j) = from(l) => j = l
  BY <1>1, <1>3
<1> HIDE DEF from
<1>7. \A m, l \in DOMAIN s : s[m].obj = s[l].obj => m = l
  BY DEF Tasks, s
<1>8. ~Waits(q, s[i].obj)
  BY <1>1, <1>4, <1>7 DEF Waits, Queued, r
<1>9. ASSUME NEW d \in Objs, d # s[i].obj PROVE Waits(q, d) <=> Waits(p, d)
  <2>1. ASSUME NEW j \in DOMAIN r, r[j].obj = d PROVE \E m \in DOMAIN s : s[m].obj = d
    BY <1>4, <2>1
  <2>2. ASSUME NEW m \in DOMAIN s, s[m].obj = d PROVE \E j \in DOMAIN r : r[j].obj = d
    <3>1. m # i
      BY <1>9, <2>2
    <3> QED BY <1>5, <2>2, <3>1
  <2> QED BY <2>1, <2>2 DEF Waits, Queued, r, s
<1>10. Tasks(q)
  <2> SUFFICES ASSUME NEW j \in DOMAIN r
               PROVE  LET t == r[j] IN
                      /\ q.objs[t.obj].net = t.net
                      /\ q.mapped[t.net] = t.obj =>
                            (t.kind = "retry" <=> q.objs[t.obj].state = "reconnecting")
                      /\ \A l \in DOMAIN r : r[l].obj = t.obj => l = j
    BY DEF Tasks, r
  <2>1. from(j) \in DOMAIN s /\ r[j] = s[from(j)]
    BY <1>4
  <2>2. LET t == s[from(j)] IN
        /\ p.objs[t.obj].net = t.net
        /\ p.mapped[t.net] = t.obj =>
              (t.kind = "retry" <=> p.objs[t.obj].state = "reconnecting")
    BY <2>1 DEF Tasks, s
  <2>3. ASSUME NEW l \in DOMAIN r, r[l].obj = r[j].obj PROVE l = j
    BY <1>4, <1>6, <1>7, <2>1, <2>3
  <2> QED BY <2>1, <2>2, <2>3
<1> QED BY <1>8, <1>9, <1>10 DEF s

\* q is o without the task i, which is being run.
Taken(o, q, i) ==
    /\ q \in Values /\ q.launches = RemoveAt(o.launches, i)
    /\ q.objs = o.objs /\ q.mapped = o.mapped /\ q.policy = o.policy /\ q.told = o.told

\* What is known of a task that is run.
LEMMA TakenHas ==
    ASSUME NEW o, Good(o), NEW i \in DOMAIN o.launches, NEW q, Taken(o, q, i)
    PROVE  LET t == o.launches[i]
               c == t.obj
               n == t.net
               k == o.objs[c] IN
           /\ c \in Objs /\ n \in Nets /\ k.net = n /\ t.kind \in {"start", "retry"}
           /\ ~Waits(q, c) /\ \A d \in Objs \ {c} : Waits(q, d) <=> Waits(o, d)
           /\ Tasks(q) /\ Others(o, q, c, n)
           /\ ~k.intent /\ ~k.disposed => o.mapped[n] = c
           /\ o.mapped[n] = c =>
                 /\ ~k.intent /\ ~k.disposed /\ k.sock = "none" /\ ~k.timer /\ ~k.terminal
                 /\ ~o.policy.paused /\ AccountAllows(o, HostOf[n])
                 /\ t.kind = "retry" => k.state = "reconnecting"
                                        /\ ~(o.policy.list.held /\ n \in Proxied)
<1> DEFINE t == o.launches[i]
           c == t.obj
           n == t.net
           k == o.objs[c]
<1>0. o \in Values /\ Mapped(o) /\ AllCarried(o) /\ AllOwned(o) /\ Tasks(o) /\ Allowed(o)
  BY DEF Good
<1>1. t \in TaskSet
  BY <1>0, ValueFields, ElementOfSeq
<1>2. c \in Objs /\ n \in Nets /\ c # 0 /\ t.kind \in {"start", "retry"}
  BY <1>1, LadderConstants DEF TaskSet
<1>3. /\ ~Waits(q, c) /\ \A d \in Objs \ {c} : Waits(q, d) <=> Waits(o, d)
      /\ Tasks(q)
  BY <1>0, TaskTaken DEF Taken
<1>4. /\ k.net = n
      /\ o.mapped[n] = c => (t.kind = "retry" <=> k.state = "reconnecting")
  BY <1>0 DEF Tasks
<1>5. Waits(o, c)
  BY DEF Waits, Queued
<1>6. Others(o, q, c, n)
  BY DEF Others, Taken
<1> HIDE DEF c, n
<1>7. ~k.intent /\ ~k.disposed => o.mapped[n] = c
  BY <1>0, <1>2, <1>4, <1>5 DEF AllOwned, Belongs
<1>8. ASSUME o.mapped[n] = c
      PROVE  /\ ~k.intent /\ ~k.disposed /\ k.sock = "none" /\ ~k.timer /\ ~k.terminal
             /\ ~o.policy.paused /\ AccountAllows(o, HostOf[n])
             /\ t.kind = "retry" => k.state = "reconnecting"
                                    /\ ~(o.policy.list.held /\ n \in Proxied)
  <2>1. ~k.intent /\ ~k.disposed /\ CarriedOn(o, c)
    BY <1>0, <1>2, <1>8 DEF Mapped, AllCarried
  <2>2. /\ k.sock = "none" /\ ~k.timer /\ ~k.terminal
    BY <1>5, <2>1 DEF CarriedOn
  <2>3. /\ ~o.policy.paused /\ AccountAllows(o, HostOf[n])
        /\ k.state # "disconnected" => ~(o.policy.list.held /\ n \in Proxied)
    BY <1>0, <1>2, <1>8 DEF Allowed
  <2> QED BY <1>4, <1>8, <2>1, <2>2, <2>3
<1> QED BY <1>2, <1>3, <1>4, <1>6, <1>7, <1>8 DEF c, n

\* The task of an object that has been let go does nothing.
LEMMA LeftAlone ==
    ASSUME NEW o, Good(o), NEW i \in DOMAIN o.launches, NEW q, Taken(o, q, i),
           o.mapped[o.launches[i].net] # o.launches[i].obj
    PROVE  Good(q)
<1> DEFINE t == o.launches[i]
           c == t.obj
           n == t.net
           k == o.objs[c]
<1>1. /\ c \in Objs /\ n \in Nets /\ k.net = n
      /\ ~Waits(q, c) /\ \A d \in Objs \ {c} : Waits(q, d) <=> Waits(o, d)
      /\ Tasks(q) /\ Others(o, q, c, n)
      /\ ~k.intent /\ ~k.disposed => o.mapped[n] = c
      /\ o.mapped[n] # c
  BY TakenHas
<1> HIDE DEF c, n
<1>2. q \in Values /\ q.objs = o.objs /\ q.mapped = o.mapped /\ q.policy = o.policy
      /\ q.told = o.told
  BY DEF Taken
<1>3. Steady(o)
  BY DEF Good, Steady
<1>4. Belongs(q, c) /\ Idle(q, c)
  <2>1. Idle(o, c)
    BY <1>1, <1>3 DEF Steady, AllOwned
  <2> QED BY <1>1, <1>2, <2>1 DEF Belongs, Idle
<1>5. Fits(q, c, n)
  BY <1>1, <1>2 DEF Fits
<1>6. Steady(q)
  <2>1. /\ q.policy.paused = o.policy.paused /\ q.policy.list = o.policy.list
        /\ q.mapped[n] \in {0, c, o.mapped[n]} /\ o.mapped[n] \in {0, c, q.mapped[n]}
        /\ o.objs[c].net \in {0, n} /\ q.objs[c].net = n
    BY <1>1, <1>2
  <2> QED BY <1>1, <1>2, <1>3, <1>4, <1>5, <2>1, OnlyOne
<1>7. AllStand(q)
  BY <1>2 DEF Good, AllStand, Stands
<1> QED BY <1>6, <1>7 DEF Good, Steady

\* A task that dials.
LEMMA TaskDials ==
    ASSUME NEW o, Good(o), NEW i \in DOMAIN o.launches, NEW q, Taken(o, q, i),
           o.mapped[o.launches[i].net] = o.launches[i].obj
    PROVE  LET r == Connect(q, o.launches[i].obj) IN
           Good(r) /\ \A m \in Nets : r.mapped[m] \in {0, o.mapped[m]}
<1> DEFINE t == o.launches[i]
           c == t.obj
           n == t.net
           k == o.objs[c]
           r == Connect(q, c)
<1>1. /\ c \in Objs /\ n \in Nets /\ k.net = n
      /\ ~Waits(q, c) /\ \A d \in Objs \ {c} : Waits(q, d) <=> Waits(o, d)
      /\ Tasks(q) /\ Others(o, q, c, n)
      /\ ~k.disposed /\ ~o.policy.paused /\ AccountAllows(o, HostOf[n])
      /\ o.mapped[n] = c
  BY TakenHas
<1> HIDE DEF c, n
<1>2. q \in Values /\ q.objs = o.objs /\ q.mapped = o.mapped /\ q.policy = o.policy
  BY DEF Taken
<1>3. Steady(o)
  BY DEF Good, Steady
<1>4. /\ Steady(r) /\ Elsewhere(o, r, n) /\ Stands(r, n) /\ r.mapped[n] \in {0, c}
  <2>1. /\ q.policy.paused = o.policy.paused /\ q.policy.list = o.policy.list
        /\ ~q.policy.paused /\ AccountAllows(q, HostOf[n])
        /\ o.mapped[n] \in {0, c} /\ q.mapped[n] = c
        /\ o.objs[c].net \in {0, n} /\ q.objs[c].net = n /\ ~q.objs[c].disposed
    BY <1>1, <1>2 DEF AccountAllows
  <2> QED BY <1>1, <1>2, <1>3, <2>1, Dialled
<1> HIDE DEF r
<1>5. AllStand(r)
  BY <1>1, <1>4, OthersStand
<1>6. Good(r)
  BY <1>4, <1>5 DEF Good, Steady
<1>7. \A m \in Nets : r.mapped[m] \in {0, o.mapped[m]}
  BY <1>1, <1>4 DEF Elsewhere
<1> QED BY <1>6, <1>7 DEF r, c

\* A retry whose policy cannot be read waits for the next one.
LEMMA TaskThrows ==
    ASSUME NEW o, Good(o), NEW i \in DOMAIN o.launches, NEW q, Taken(o, q, i),
           o.mapped[o.launches[i].net] = o.launches[i].obj, o.launches[i].kind = "retry"
    PROVE  LET r == ScheduleReconnectIfWarranted(q, o.launches[i].obj) IN
           Good(r) /\ \A m \in Nets : r.mapped[m] \in {0, o.mapped[m]}
<1> DEFINE t == o.launches[i]
           c == t.obj
           n == t.net
           k == o.objs[c]
           r == ScheduleReconnectIfWarranted(q, c)
<1>1. /\ c \in Objs /\ n \in Nets /\ k.net = n
      /\ ~Waits(q, c) /\ \A d \in Objs \ {c} : Waits(q, d) <=> Waits(o, d)
      /\ Tasks(q) /\ Others(o, q, c, n)
      /\ ~k.intent /\ ~k.disposed /\ k.sock = "none" /\ ~k.timer /\ ~k.terminal
      /\ ~o.policy.paused /\ AccountAllows(o, HostOf[n])
      /\ ~(o.policy.list.held /\ n \in Proxied)
      /\ o.mapped[n] = c
  BY TakenHas
<1> HIDE DEF c, n
<1>2. q \in Values /\ q.objs = o.objs /\ q.mapped = o.mapped /\ q.policy = o.policy
      /\ q.told = o.told
  BY DEF Taken
<1>3. Steady(o) /\ c # 0
  BY <1>1, LadderConstants DEF Good, Steady
<1>4. /\ r \in Values /\ SameQueue(q, r) /\ r.policy = o.policy /\ r.mapped = o.mapped
      /\ \A d \in Objs \ {c} : r.objs[d] = o.objs[d]
      /\ \A m \in Nets \ {n} : r.told[m] = o.told[m]
      /\ r.objs[c].net = n /\ r.objs[c].sock = "none" /\ ~r.objs[c].intent
      /\ ~r.objs[c].disposed /\ ~r.objs[c].terminal
      /\ r.objs[c].timer /\ r.objs[c].state = "reconnecting"
      /\ r.told[n] = "reconnecting"
  BY <1>1, <1>2, WarrantedIs
<1> HIDE DEF r
<1>5. \A d \in Objs : Waits(r, d) <=> Waits(q, d)
  BY <1>4 DEF SameQueue, Waits, Queued
<1>6. Tasks(r)
  <2>1. ASSUME NEW d \in Objs, Waits(q, d)
        PROVE  /\ r.objs[d].net = q.objs[d].net
               /\ \A m \in Nets : r.mapped[m] = d =>
                     q.mapped[m] = d /\ r.objs[d].state = q.objs[d].state
    <3>1. d # c
      BY <1>1, <2>1
    <3> QED BY <1>2, <1>4, <3>1
  <2> QED BY <1>1, <1>2, <1>4, <2>1, TasksStay DEF SameQueue
<1>7. Others(o, r, c, n)
  BY <1>4 DEF Others
<1>8. Belongs(r, c) /\ Idle(r, c)
  BY <1>1, <1>4 DEF Belongs, Idle
<1>9. Fits(r, c, n)
  <2>1. CarriedOn(r, c)
    BY <1>1, <1>4, <1>5 DEF CarriedOn
  <2> QED BY <1>1, <1>4, <2>1 DEF Fits, AccountAllows
<1>10. Steady(r)
  <2>1. /\ r.policy.paused = o.policy.paused /\ r.policy.list = o.policy.list
        /\ r.mapped[n] \in {0, c, o.mapped[n]} /\ o.mapped[n] \in {0, c, r.mapped[n]}
        /\ o.objs[c].net \in {0, n}
        /\ \A d \in Objs \ {c} : Waits(r, d) <=> Waits(o, d)
    BY <1>1, <1>4, <1>5
  <2> QED BY <1>1, <1>3, <1>4, <1>6, <1>7, <1>8, <1>9, <2>1, OnlyOne
<1>11. AllStand(r)
  <2>1. Elsewhere(o, r, n)
    BY <1>1, <1>7, ElsewhereOf
  <2>2. Stands(r, n)
    BY <1>1, <1>3, <1>4 DEF Stands
  <2> QED BY <1>1, <2>1, <2>2, OthersStand
<1> QED BY <1>4, <1>10, <1>11 DEF Good, Steady, r, c

\* A retry that the policy refuses lets the connection go.
LEMMA TaskRefused ==
    ASSUME NEW o, Good(o), NEW i \in DOMAIN o.launches, NEW q, Taken(o, q, i),
           o.mapped[o.launches[i].net] = o.launches[i].obj
    PROVE  LET r == StopReconnecting(Unmap(q, o.launches[i].net), o.launches[i].obj) IN
           Good(r) /\ \A m \in Nets : r.mapped[m] \in {0, o.mapped[m]}
<1> DEFINE t == o.launches[i]
           c == t.obj
           n == t.net
           k == o.objs[c]
           j == [k EXCEPT !.timer = FALSE]
           u == Unmap(q, n)
           a == [u EXCEPT !.objs[c] = j]
           r == StopReconnecting(u, c)
<1>1. /\ c \in Objs /\ n \in Nets /\ k.net = n
      /\ ~Waits(q, c) /\ \A d \in Objs \ {c} : Waits(q, d) <=> Waits(o, d)
      /\ Tasks(q) /\ Others(o, q, c, n)
      /\ ~k.intent /\ ~k.disposed /\ k.sock = "none" /\ ~k.timer /\ ~k.terminal
      /\ o.mapped[n] = c
  BY TakenHas
<1> HIDE DEF c, n
<1>2. q \in Values /\ q.objs = o.objs /\ q.mapped = o.mapped /\ q.policy = o.policy
      /\ q.told = o.told
  BY DEF Taken
<1>3. Steady(o) /\ c # 0 /\ k \in ObjSet
  <2>1. Steady(o) /\ c # 0 /\ o \in Values
    BY <1>1, LadderConstants DEF Good, Steady
  <2> QED BY <1>1, <2>1, ValueFields
<1>j. /\ j \in ObjSet /\ j.net = n /\ j.sock = "none" /\ ~j.timer /\ ~j.disposed
  BY <1>1, <1>3 DEF ObjSet
<1>u. /\ u \in Values
      /\ \A m \in Nets : u.mapped[m] = IF m = n THEN 0 ELSE o.mapped[m]
      /\ u.objs = o.objs /\ u.launches = q.launches /\ u.gates = q.gates
      /\ u.pump = q.pump /\ u.policy = o.policy /\ u.told = o.told
  BY <1>1, <1>2, UnmapIs
<1>r. r = SetState(a, c, "disconnected")
  <2> HIDE DEF u
  <2>1. r = SetState([u EXCEPT !.objs[c].timer = FALSE], c, "disconnected")
    BY DEF StopReconnecting
  <2>2. [u EXCEPT !.objs[c].timer = FALSE] = [u EXCEPT !.objs[c] = [u.objs[c] EXCEPT !.timer = FALSE]]
    OBVIOUS
  <2>3. u.objs[c] = k
    BY <1>u
  <2> QED BY <2>1, <2>2, <2>3
<1> HIDE DEF u, j, r
<1>a. /\ a \in Values /\ a.objs[c] = j
      /\ \A d \in Objs \ {c} : a.objs[d] = u.objs[d]
      /\ a.mapped = u.mapped /\ a.launches = u.launches /\ a.gates = u.gates
      /\ a.pump = u.pump /\ a.policy = u.policy /\ a.told = u.told
  BY <1>1, <1>j, <1>u, PutObj
<1> HIDE DEF a
<1>s. /\ r \in Values /\ r.objs[c] = [j EXCEPT !.state = "disconnected"]
      /\ \A d \in Objs \ {c} : r.objs[d] = a.objs[d]
      /\ r.mapped = a.mapped /\ r.launches = a.launches /\ r.gates = a.gates
      /\ r.pump = a.pump /\ r.policy = a.policy
      /\ \A m \in Nets : r.told[m] = IF ~j.disposed /\ m = j.net THEN "disconnected"
                                     ELSE a.told[m]
  <2>1. "disconnected" \in NetStates
    BY DEF NetStates
  <2> QED BY <1>1, <1>a, <1>r, <2>1, SetStateIs
<1>4. /\ SameQueue(q, r) /\ r.policy = o.policy
      /\ \A m \in Nets : r.mapped[m] = IF m = n THEN 0 ELSE o.mapped[m]
      /\ \A d \in Objs \ {c} : r.objs[d] = o.objs[d]
      /\ \A m \in Nets \ {n} : r.told[m] = o.told[m]
      /\ r.objs[c].net = n /\ r.objs[c].sock = "none" /\ ~r.objs[c].timer
      /\ r.told[n] = "disconnected"
  <2>1. /\ r.objs[c].net = n /\ r.objs[c].sock = "none" /\ ~r.objs[c].timer
    BY <1>j, <1>s DEF ObjSet
  <2> QED BY <1>1, <1>a, <1>j, <1>s, <1>u, <2>1 DEF SameQueue
<1>5. \A d \in Objs : Waits(r, d) <=> Waits(q, d)
  BY <1>4 DEF SameQueue, Waits, Queued
<1>6. Tasks(r)
  <2>1. ASSUME NEW d \in Objs, Waits(q, d)
        PROVE  /\ r.objs[d].net = q.objs[d].net
               /\ \A m \in Nets : r.mapped[m] = d =>
                     q.mapped[m] = d /\ r.objs[d].state = q.objs[d].state
    <3>1. d # c /\ d # 0
      BY <1>1, <2>1, LadderConstants
    <3> QED BY <1>2, <1>4, <3>1
  <2> QED BY <1>1, <1>2, <1>4, <2>1, TasksStay DEF SameQueue
<1>7. Others(o, r, c, n)
  BY <1>4 DEF Others
<1>8. Belongs(r, c) /\ Idle(r, c)
  BY <1>1, <1>4, <1>5 DEF Belongs, Idle
<1>9. Fits(r, c, n)
  BY <1>1, <1>3, <1>4 DEF Fits
<1>10. Steady(r)
  <2>1. /\ r.policy.paused = o.policy.paused /\ r.policy.list = o.policy.list
        /\ r.mapped[n] \in {0, c, o.mapped[n]} /\ o.mapped[n] \in {0, c, r.mapped[n]}
        /\ o.objs[c].net \in {0, n}
        /\ \A d \in Objs \ {c} : Waits(r, d) <=> Waits(o, d)
    BY <1>1, <1>4, <1>5
  <2> QED BY <1>1, <1>3, <1>4, <1>6, <1>7, <1>8, <1>9, <1>s, <2>1, OnlyOne
<1>11. AllStand(r)
  <2>1. Elsewhere(o, r, n)
    BY <1>1, <1>7, ElsewhereOf
  <2>2. Stands(r, n)
    BY <1>4 DEF Stands
  <2> QED BY <1>1, <2>1, <2>2, OthersStand
<1> QED BY <1>4, <1>10, <1>11 DEF Good, Steady, r, u, c, n

\* A task that is run.
LEMMA RunsTaskIs ==
    ASSUME NEW o, Good(o), NEW i \in DOMAIN o.launches, NEW q, Taken(o, q, i),
           NEW fails \in BOOLEAN
    PROVE  LET r == RunsTask(o.launches[i], q, fails) IN
           Good(r) /\ \A m \in Nets : r.mapped[m] \in {0, o.mapped[m]}
<1> DEFINE t == o.launches[i]
           c == t.obj
           n == t.net
           k == o.objs[c]
           r == RunsTask(t, q, fails)
<1>1. /\ k.net = n /\ t.kind \in {"start", "retry"}
      /\ ~k.intent /\ ~k.disposed <=> o.mapped[n] = c
  BY TakenHas
<1>2. q.objs = o.objs /\ q.mapped = o.mapped
  BY DEF Taken
<1>3. CASE o.mapped[n] # c
  <2>1. r = q
    BY <1>1, <1>2, <1>3 DEF RunsTask, Launch, Retry
  <2> QED BY <1>2, <1>3, <2>1, LeftAlone
<1>4. CASE o.mapped[n] = c
  <2>1. CASE t.kind = "start"
    <3>1. r = Connect(q, c)
      BY <1>1, <1>2, <1>4, <2>1 DEF RunsTask, Launch
    <3> QED BY <1>4, <3>1, TaskDials
  <2>2. CASE t.kind = "retry" /\ fails
    <3>1. r = ScheduleReconnectIfWarranted(q, c)
      BY <1>1, <1>2, <1>4, <2>2 DEF RunsTask, Retry
    <3>2. LET s == ScheduleReconnectIfWarranted(q, o.launches[i].obj) IN
          Good(s) /\ \A m \in Nets : s.mapped[m] \in {0, o.mapped[m]}
      <4>1. o.launches[i].kind = "retry"
        BY <2>2
      <4> QED BY <1>4, <4>1, TaskThrows
    <3> QED BY <3>1, <3>2
  <2>3. CASE t.kind = "retry" /\ ~fails /\ GateOpen(q, n)
    <3>1. r = Connect(q, c)
      BY <1>1, <1>2, <1>4, <2>3 DEF RunsTask, Retry, GateReconnect
    <3> QED BY <1>4, <3>1, TaskDials
  <2>4. CASE t.kind = "retry" /\ ~fails /\ ~GateOpen(q, n)
    <3>1. r = StopReconnecting(Unmap(q, n), c)
      BY <1>1, <1>2, <1>4, <2>4 DEF RunsTask, Retry, GateReconnect
    <3> QED BY <1>4, <3>1, TaskRefused
  <2> QED BY <1>1, <2>1, <2>2, <2>3, <2>4
<1> QED BY <1>3, <1>4

\* The timer is armed again, for what is left.
LEMMA PumpIsDone ==
    ASSUME NEW r, Good(r)
    PROVE  LET q == SchedulePump([r EXCEPT !.pump = NoTimer]) IN
           Good(q) /\ Armed(q) /\ q.mapped = r.mapped
<1> DEFINE p == [r EXCEPT !.pump = NoTimer]
           q == SchedulePump(p)
<1>1. r \in Values /\ Allowed(r) /\ NoTimer \in -1 .. Longest
  BY LadderConstants DEF Good, NoTimer
<1>2. /\ p \in Values /\ p.mapped = r.mapped /\ p.objs = r.objs /\ p.launches = r.launches
      /\ p.policy = r.policy /\ p.told = r.told
  BY <1>1 DEF Values
<1> HIDE DEF p
<1>3. /\ q \in Values /\ Armed(q)
      /\ q.mapped = r.mapped /\ q.objs = r.objs /\ q.launches = r.launches
      /\ q.policy = r.policy /\ q.told = r.told
  BY <1>2, SchedulePumpIs
<1> HIDE DEF q
<1>4. Allowed(q)
  BY <1>1, <1>3, AllowedSame
<1>5. Good(q)
  BY <1>3, <1>4, GoodSame
<1> QED BY <1>3, <1>5 DEF p, q

\* The timer of the launch queue fires.
LEMMA PumpInv ==
    ASSUME LaddersInv, Pump
    PROVE  LaddersInv'
<1>0. Good(Now) /\ Now \in Values
  BY DEF LaddersInv, Good
<1>1. UNCHANGED <<shut, asked>>
  BY DEF Pump
<1>2. CASE Ready = {}
  <2> DEFINE q == SchedulePump([Now EXCEPT !.pump = NoTimer])
  <2>1. Becomes(q) /\ UNCHANGED thrown
    BY <1>2 DEF Pump
  <2>2. Good(q) /\ Armed(q) /\ q.mapped = mapped
    BY <1>0, PumpIsDone, NowHas DEF NowFields
  <2> HIDE DEF q
  <2>3. thrown' \in 0 .. MaxUnread
    BY <2>1 DEF LaddersInv
  <2>4. \A n \in Nets : q.mapped[n] \in {0, mapped[n]}
    BY <2>2
  <2> QED BY <1>1, <2>1, <2>2, <2>3, <2>4, Changed
<1>3. CASE Ready # {}
  <2> DEFINE i == Min(Ready)
             t == launches[i]
  <2>1. i \in DOMAIN Now.launches
    <3>1. Ready \subseteq DOMAIN launches /\ DOMAIN launches = 1 .. Len(launches)
          /\ Len(launches) \in Nat
      BY <1>0, ValueFields, LenProperties, NowHas DEF Ready, NowFields
    <3>2. Ready \subseteq Nat
      BY <3>1
    <3> QED BY <1>3, <3>1, <3>2, LeastIs, NowHas DEF NowFields
  <2>2. PICK jitter \in 0 .. Jitter, fails \in BOOLEAN :
            /\ fails => thrown < MaxUnread
            /\ Becomes(SchedulePump([Launched(i, jitter, fails) EXCEPT !.pump = NoTimer]))
            /\ thrown' = IF fails THEN thrown + 1 ELSE thrown
    BY <1>3 DEF Pump
  <2> HIDE DEF i
  <2> DEFINE h == [gates.host EXCEPT ![HostOf[t.net]] = PerHost + jitter]
             g == [host |-> h, floor |-> Floor]
             l == RemoveAt(launches, i)
             q == [Now EXCEPT !.launches = l, !.gates = g]
             r == Launched(i, jitter, fails)
             s == SchedulePump([r EXCEPT !.pump = NoTimer])
  <2>3. r = RunsTask(t, q, fails) /\ t = Now.launches[i]
    BY DEF Launched, Now
  <2>4. Taken(Now, q, i)
    <3>1. t.net \in Nets
      <4>1. t \in TaskSet
        BY <1>0, <2>1, <2>3, ValueFields, ElementOfSeq
      <4> QED BY <4>1 DEF TaskSet
    <3>2. h \in [Hosts -> 0 .. PerHost + Jitter]
      <4>1. HostOf[t.net] \in Hosts /\ PerHost \in Nat /\ Jitter \in Nat
        BY <3>1, LadderConstants
      <4>2. PerHost + jitter \in 0 .. PerHost + Jitter
        BY <4>1
      <4>3. gates.host \in [Hosts -> 0 .. PerHost + Jitter]
        BY <1>0, ValueFields, NowHas DEF NowFields
      <4> QED BY <4>1, <4>2, <4>3
    <3> HIDE DEF h
    <3>3. g \in [host : [Hosts -> 0 .. PerHost + Jitter], floor : 0 .. Floor]
      BY <3>2, LadderConstants
    <3> HIDE DEF g, t
    <3>4. l \in Seq(TaskSet)
      <4>1. launches \in Seq(TaskSet) /\ i \in 1 .. Len(launches)
        BY <1>0, <2>1, ValueFields, LenProperties, NowHas DEF NowFields
      <4> QED BY <4>1, RemoveAtIs
    <3>l. l = RemoveAt(Now.launches, i)
      BY NowHas DEF NowFields
    <3> HIDE DEF l
    <3>5. /\ q \in Values /\ q.launches = l /\ q.objs = Now.objs /\ q.mapped = Now.mapped
          /\ q.policy = Now.policy /\ q.told = Now.told
      BY <1>0, <3>3, <3>4 DEF Values
    <3> QED BY <3>5, <3>l DEF Taken
  <2> HIDE DEF q, r, t
  <2>5. Good(r) /\ \A m \in Nets : r.mapped[m] \in {0, mapped[m]}
    <3>1. Now.mapped = mapped
      BY NowHas DEF NowFields
    <3> QED BY <1>0, <2>1, <2>3, <2>4, <3>1, RunsTaskIs
  <2>6. Good(s) /\ Armed(s) /\ s.mapped = r.mapped
    BY <2>5, PumpIsDone
  <2>b. Becomes(s)
    BY <2>2 DEF r
  <2> HIDE DEF s
  <2>7. thrown' \in 0 .. MaxUnread
    <3>1. thrown \in 0 .. MaxUnread /\ MaxUnread \in Nat
      BY LadderConstants DEF LaddersInv
    <3> QED BY <2>2, <3>1
  <2> QED BY <1>1, <2>5, <2>6, <2>7, <2>b, Changed
<1> QED BY <1>2, <1>3
-----------------------------------------------------------------------------
(* Time, the first state, and every step.                                  *)

\* A wait gets shorter, and no shorter than nothing.
LEMMA LessIs ==
    ASSUME NEW N \in Nat, NEW t \in 0 .. N
    PROVE  Less(t) \in 0 .. N /\ Less(t) <= t
  BY DEF Less

\* The gates open as fast as the timer runs.
LEMMA ReadyInFalls ==
    ASSUME NEW p \in Values, NEW q, NEW t, t.net \in Nets,
           q.gates.floor = Less(p.gates.floor),
           \A h \in Hosts : q.gates.host[h] = Less(p.gates.host[h])
    PROVE  ReadyIn(q, t) = Less(ReadyIn(p, t))
<1> DEFINE h == HostOf[t.net]
           a == p.gates.floor
           b == p.gates.host[h]
<1>1. h \in Hosts
  BY LadderConstants
<1>2. a \in Nat /\ b \in Nat
  <2>1. a \in 0 .. Floor /\ b \in 0 .. PerHost + Jitter
    BY <1>1, ValueFields
  <2>2. 0 .. Floor \subseteq Nat /\ 0 .. PerHost + Jitter \subseteq Nat
    BY LadderConstants
  <2> QED BY <2>1, <2>2
<1>3. ReadyIn(q, t) = MaxOf(Less(a), Less(b)) /\ ReadyIn(p, t) = MaxOf(a, b)
  BY <1>1 DEF ReadyIn
<1> HIDE DEF a, b
<1>4. MaxOf(Less(a), Less(b)) = Less(MaxOf(a, b))
  BY ONLY <1>2 DEF MaxOf, Less
<1> QED BY <1>3, <1>4

\* A tick goes by.
LEMMA TickInv ==
    ASSUME LaddersInv, Tick
    PROVE  LaddersInv'
<1> DEFINE g == [host |-> [h \in Hosts |-> Less(gates.host[h])], floor |-> Less(gates.floor)]
           q == Now'
<1>0. Good(Now) /\ Armed(Now) /\ Now \in Values /\ Allowed(Now)
  BY DEF LaddersInv, Good
<1>1. /\ pump' = Less(pump) /\ gates' = g
      /\ UNCHANGED <<mapped, objs, launches, policy, shut, told, thrown, asked>>
  BY DEF Tick
<1>2. gates \in [host : [Hosts -> 0 .. PerHost + Jitter], floor : 0 .. Floor]
      /\ pump \in -1 .. Longest
  BY <1>0, ValueFields, NowHas DEF NowFields
<1>3. g \in [host : [Hosts -> 0 .. PerHost + Jitter], floor : 0 .. Floor]
  <2>1. \A h \in Hosts : Less(gates.host[h]) \in 0 .. PerHost + Jitter
    <3>1. ASSUME NEW h \in Hosts PROVE gates.host[h] \in 0 .. PerHost + Jitter
      BY <1>2
    <3>2. PerHost + Jitter \in Nat
      BY LadderConstants
    <3> QED BY <3>1, <3>2, LessIs
  <2>2. Less(gates.floor) \in 0 .. Floor
    <3>1. gates.floor \in 0 .. Floor /\ Floor \in Nat
      BY <1>2, LadderConstants
    <3> QED BY <3>1, LessIs
  <2> QED BY <2>1, <2>2
<1>4. Less(pump) \in -1 .. Longest
  <2>1. Longest \in Nat
    BY LadderConstants
  <2> QED BY ONLY <1>2, <2>1 DEF Less
<1>5. /\ q.mapped = Now.mapped /\ q.objs = Now.objs /\ q.launches = Now.launches
      /\ q.gates = g /\ q.pump = Less(Now.pump) /\ q.policy = Now.policy
      /\ q.told = Now.told
  BY <1>1 DEF Now
<1>6. q \in Values
  <2>1. q = [mapped |-> mapped', objs |-> objs', launches |-> launches', gates |-> gates',
             pump |-> pump', policy |-> policy', told |-> told']
    BY DEF Now
  <2>2. /\ mapped \in [Nets -> 0 .. MaxObjs] /\ objs \in [Objs -> ObjSet]
        /\ launches \in Seq(TaskSet) /\ told \in [Nets -> NetStates]
        /\ policy \in [paused : BOOLEAN, closed : BOOLEAN, list : Lists \union {Unlisted}]
    BY <1>0, ValueFields, NowHas DEF NowFields
  <2> HIDE DEF g, q
  <2> QED BY <1>1, <1>3, <1>4, <2>1, <2>2 DEF Values
<1>7. Armed(q)
  <2>1. SUFFICES ASSUME Now.launches # <<>>
                 PROVE  q.pump \in 0 .. Soonest(q)
    BY <1>5 DEF Armed
  <2>2. Now.pump \in 0 .. Soonest(Now)
    BY <1>0, <2>1 DEF Armed
  <2>3. PICK i \in DOMAIN q.launches : Soonest(q) = ReadyIn(q, q.launches[i])
    <3> HIDE DEF q
    <3> QED BY <1>5, <1>6, <2>1, SoonestIs
  <2> DEFINE t == q.launches[i]
  <2>4. i \in DOMAIN Now.launches /\ t = Now.launches[i]
    BY <1>5
  <2>5. t.net \in Nets
    <3>1. t \in TaskSet
      BY <1>0, <2>4, ValueFields, ElementOfSeq
    <3> QED BY <3>1 DEF TaskSet
  <2>6. ReadyIn(q, t) = Less(ReadyIn(Now, t))
    <3>1. /\ q.gates.floor = Less(Now.gates.floor)
          /\ \A h \in Hosts : q.gates.host[h] = Less(Now.gates.host[h])
      BY <1>5, NowHas DEF NowFields
    <3> HIDE DEF q, t
    <3> QED BY <1>0, <2>5, <3>1, ReadyInFalls
  <2>7. ReadyIn(Now, t) \in Nat /\ Soonest(Now) <= ReadyIn(Now, t) /\ Soonest(Now) \in Nat
    <3>1. Soonest(Now) \in 0 .. Longest /\ ReadyIn(Now, t) \in Nat
          /\ Soonest(Now) <= ReadyIn(Now, t)
      BY <1>0, <2>1, <2>4, SoonestIs
    <3>2. Longest \in Nat
      BY LadderConstants
    <3> QED BY ONLY <3>1, <3>2
  <2> DEFINE u == Now.pump
             s == Soonest(Now)
             w == ReadyIn(Now, t)
  <2>8. Less(u) \in 0 .. Less(w)
    <3>1. u \in 0 .. s /\ s \in Nat /\ w \in Nat /\ s <= w
      BY <2>2, <2>7
    <3> HIDE DEF u, s, w
    <3> QED BY ONLY <3>1 DEF Less
  <2> QED BY <1>5, <2>3, <2>6, <2>8
<1>8. Good(q)
  <2>1. Allowed(q)
    BY <1>0, <1>5, AllowedSame
  <2> HIDE DEF q
  <2> QED BY <1>0, <1>5, <1>6, <2>1, GoodSame
<1> QED BY <1>1, <1>7, <1>8 DEF LaddersInv

\* Nothing is mapped, and nothing waits.
LEMMA InitInv ==
    ASSUME ReconnectInit
    PROVE  LaddersInv
<1>1. Now = [mapped |-> [n \in Nets |-> 0], objs |-> [c \in Objs |-> NoObj],
             launches |-> <<>>, gates |-> [host |-> [h \in Hosts |-> 0], floor |-> 0],
             pump |-> NoTimer,
             policy |-> [paused |-> TRUE, closed |-> FALSE, list |-> Unlisted],
             told |-> [n \in Nets |-> "disconnected"]]
  BY DEF ReconnectInit, Now
<1>2. Now \in Values
  <2>1. NoObj \in ObjSet /\ "disconnected" \in NetStates
    BY NoObjType DEF NetStates
  <2>2. NoTimer \in -1 .. Longest /\ 0 \in 0 .. PerHost + Jitter /\ 0 \in 0 .. Floor
        /\ 0 \in 0 .. MaxObjs
    BY LadderConstants DEF NoTimer
  <2>3. <<>> \in Seq(TaskSet)
    OBVIOUS
  <2> QED BY <1>1, <2>1, <2>2, <2>3 DEF Values
<1>3. /\ \A n \in Nets : Now.mapped[n] = 0
      /\ \A n \in Nets : Now.told[n] = "disconnected"
      /\ \A c \in Objs : Now.objs[c] = NoObj
      /\ Now.launches = <<>>
  BY <1>1
<1>4. \A c \in Objs : ~Waits(Now, c)
  BY <1>3 DEF Waits, Queued
<1>5. AllOwned(Now)
  BY <1>3, <1>4 DEF AllOwned, Belongs, Idle, NoObj
<1>6. Mapped(Now) /\ AllCarried(Now) /\ Allowed(Now)
  BY <1>3 DEF Mapped, AllCarried, Allowed
<1>7. Tasks(Now)
  BY <1>3 DEF Tasks
<1>8. AllStand(Now)
  BY <1>3 DEF AllStand, Stands
<1>9. Good(Now) /\ Armed(Now)
  BY <1>2, <1>3, <1>5, <1>6, <1>7, <1>8 DEF Good, Armed
<1>10. shut = FALSE /\ thrown = 0 /\ asked = 0
  BY DEF ReconnectInit
<1>11. 0 \in 0 .. MaxUnread /\ 0 \in 0 .. MaxAsked
  BY LadderConstants
<1> QED BY <1>9, <1>10, <1>11 DEF LaddersInv

\* No step breaks it.
LEMMA LaddersStep ==
    ASSUME LaddersInv, [ReconnectNext]_reconnectVars
    PROVE  LaddersInv'
<1>1. CASE UNCHANGED reconnectVars
  BY <1>1 DEF reconnectVars, LaddersInv, Now
<1>2. ASSUME NEW n \in Nets, PersonStep(n) PROVE LaddersInv'
  BY <1>2, UserConnectsInv, UserDisconnectsInv, RestartedInv DEF PersonStep
<1>3. ASSUME NEW c \in Objs, SocketStep(c) PROVE LaddersInv'
  BY <1>3, RegistersInv, SaslRejectedInv, ServerSaysInv, SocketClosesInv DEF SocketStep
<1>4. ASSUME NEW c \in Objs, BackoffEnds(c) PROVE LaddersInv'
  BY <1>4, BackoffEndsInv
<1>5. CASE PolicyStep
  BY <1>5, AccountPausesInv, AccountResumesInv, InstanceSwitchesInv, ShutdownInv,
     AccountRestrictedInv DEF PolicyStep
<1>6. CASE Pump
  BY <1>6, PumpInv
<1>7. CASE Tick
  BY <1>7, TickInv
<1> QED BY <1>1, <1>2, <1>3, <1>4, <1>5, <1>6, <1>7 DEF ReconnectNext

\* What the invariant says of a mapped connection.
LEMMA MappedIs ==
    ASSUME LaddersInv, NEW n \in Nets, mapped[n] # 0
    PROVE  LET c == mapped[n] IN
           /\ c \in Objs /\ objs[c] \in ObjSet /\ objs[c].net = n
           /\ ~objs[c].intent /\ ~objs[c].disposed /\ CarriedOn(Now, c)
<1>1. Now \in Values /\ Mapped(Now) /\ AllCarried(Now)
  BY DEF LaddersInv, Good
<1>2. mapped \in [Nets -> 0 .. MaxObjs] /\ objs \in [Objs -> ObjSet]
  BY <1>1, ValueFields, NowHas DEF NowFields
<1>3. mapped[n] \in Objs
  BY <1>2, LadderConstants
<1> QED BY <1>1, <1>2, <1>3, NowHas DEF Mapped, AllCarried, NowFields

\* A place in the queue is the only one of its object.
LEMMA PlaceIs ==
    ASSUME LaddersInv, NEW c, NEW i \in Queued(Now, c)
    PROVE  /\ i \in DOMAIN launches /\ launches[i] \in TaskSet /\ launches[i].obj = c
           /\ c \in Objs /\ objs[c].net = launches[i].net /\ launches[i].net \in Nets
           /\ mapped[launches[i].net] = c =>
                 (launches[i].kind = "retry" <=> objs[c].state = "reconnecting")
           /\ Queued(Now, c) = {i}
<1>1. Now \in Values /\ Tasks(Now)
  BY DEF LaddersInv, Good
<1>2. i \in DOMAIN launches /\ launches[i].obj = c
  BY NowHas DEF Queued, NowFields
<1>3. launches[i] \in TaskSet
  BY <1>1, <1>2, ValueFields, ElementOfSeq, NowHas DEF NowFields
<1>4. /\ objs[c].net = launches[i].net
      /\ mapped[launches[i].net] = c =>
            (launches[i].kind = "retry" <=> objs[c].state = "reconnecting")
      /\ \A j \in DOMAIN launches : launches[j].obj = c => j = i
  BY <1>1, <1>2, NowHas DEF Tasks, NowFields
<1>5. Queued(Now, c) = {i}
  BY <1>2, <1>4, NowHas DEF Queued, NowFields
<1> QED BY <1>2, <1>3, <1>4, <1>5 DEF TaskSet

\* A retry that waits is one that the state of a mapped connection tells.
LEMMA RetriesIs ==
    ASSUME LaddersInv, NEW n \in Nets, mapped[n] # 0
    PROVE  /\ Retries(mapped[n]) <=> objs[mapped[n]].state = "reconnecting"
<1> DEFINE c == mapped[n]
           k == objs[c]
<1>1. /\ c \in Objs /\ k.net = n /\ CarriedOn(Now, c) /\ Now.objs = objs
  BY MappedIs, NowHas DEF NowFields
<1>2. \A i \in Queued(Now, c) : launches[i].kind = "retry" <=> k.state = "reconnecting"
  BY <1>1, PlaceIs
<1>3. Waits(Now, c) <=> \E i \in Queued(Now, c) : TRUE
  BY DEF Waits
<1> HIDE DEF c
<1> QED BY <1>1, <1>2, <1>3 DEF Retries, CarriedOn, c

\* Exactly one thing carries a mapped connection on.
LEMMA LaddersCarry ==
    ASSUME LaddersInv
    PROVE  OneWayBack
<1>1. SUFFICES ASSUME NEW n \in Nets, mapped[n] # 0
               PROVE  Ways(mapped[n]) = IF objs[mapped[n]].terminal THEN 0 ELSE 1
  BY DEF OneWayBack
<1> DEFINE c == mapped[n]
           k == objs[c]
           Q == Queued(Now, c)
<1>2. CarriedOn(Now, c) /\ Now.objs = objs
  BY <1>1, MappedIs, NowHas DEF NowFields
<1>3. Cardinality(Q) = IF Waits(Now, c) THEN 1 ELSE 0
  <2>1. CASE Q = {}
    BY <2>1, FS_EmptySet DEF Waits
  <2>2. CASE Q # {}
    <3>1. PICK i \in Q : TRUE
      BY <2>2
    <3>2. Q = {i}
      BY <3>1, PlaceIs
    <3> HIDE DEF Q
    <3>3. Cardinality(Q) = 1
      BY <3>2, FS_Singleton
    <3> QED BY <2>2, <3>3 DEF Waits, Q
  <2> QED BY <2>1, <2>2
<1>4. Ways(c) = (IF k.sock # "none" THEN 1 ELSE 0) + (IF k.timer THEN 1 ELSE 0)
                + (IF Waits(Now, c) THEN 1 ELSE 0)
  BY <1>3 DEF Ways
<1> HIDE DEF c, Q
<1> QED BY <1>2, <1>4 DEF CarriedOn, c

\* What nobody has ended and goes on by itself is in the map.
LEMMA LaddersOwn ==
    ASSUME LaddersInv
    PROVE  NoOrphan
<1>1. SUFFICES ASSUME NEW c \in Objs, Wanted(c)
               PROVE  LET n == objs[c].net IN
                      /\ mapped[n] = c /\ ~shut /\ ~policy.paused
                      /\ AccountAllows(Now, HostOf[n])
                      /\ ~(policy.list.held /\ n \in Proxied)
  BY DEF NoOrphan
<1> DEFINE n == objs[c].net
           k == objs[c]
<1>2. AllOwned(Now) /\ Allowed(Now)
  BY DEF LaddersInv, Good
<1>3. /\ ~k.intent /\ ~k.disposed
      /\ k.sock # "none" \/ k.timer \/ Waits(Now, c)
      /\ k.sock # "none" \/ Retries(c)
  BY <1>1 DEF Wanted, Retries, Waits
<1>4. n \in Nets /\ mapped[n] = c
  BY <1>2, <1>3, NowHas DEF AllOwned, Belongs, NowFields
<1>5. c # 0 /\ mapped[n] # 0
  BY <1>4, LadderConstants
<1>6. k.state # "disconnected"
  <2>1. CASE k.sock # "none"
    BY <1>4, <1>5, <2>1, MappedIs, NowHas DEF CarriedOn, NowFields
  <2>2. CASE Retries(c)
    BY <1>4, <1>5, <2>2, RetriesIs
  <2> QED BY <1>3, <2>1, <2>2
<1>7. ~shut
  BY <1>4, <1>5 DEF LaddersInv
<1>8. /\ ~policy.paused /\ AccountAllows(Now, HostOf[n])
      /\ ~(policy.list.held /\ n \in Proxied)
  BY <1>2, <1>4, <1>5, <1>6, NowHas DEF Allowed, NowFields
<1> QED BY <1>4, <1>7, <1>8

\* What the clients were told still stands.
LEMMA LaddersStand ==
    ASSUME LaddersInv
    PROVE  NeverPinned
<1>1. SUFFICES ASSUME NEW n \in Nets
               PROVE  /\ told[n] = "reconnecting" =>
                          mapped[n] # 0 /\ ~objs[mapped[n]].disposed /\ Retries(mapped[n])
                      /\ told[n] \in {"connecting", "connected"} =>
                          \E c \in Objs : /\ objs[c].net = n /\ ~objs[c].disposed
                                          /\ objs[c].sock # "none"
  BY DEF NeverPinned
<1>2. Stands(Now, n)
  BY DEF LaddersInv, Good, AllStand
<1>3. told[n] = "reconnecting" =>
          mapped[n] # 0 /\ objs[mapped[n]].state = "reconnecting"
  BY <1>2, NowHas DEF Stands, NowFields
<1>4. told[n] = "reconnecting" =>
          mapped[n] # 0 /\ ~objs[mapped[n]].disposed /\ Retries(mapped[n])
  BY <1>3, MappedIs, RetriesIs
<1>5. told[n] \in {"connecting", "connected"} =>
          \E c \in Objs : /\ objs[c].net = n /\ ~objs[c].disposed /\ objs[c].sock # "none"
  BY <1>2, NowHas DEF Stands, NowFields
<1> QED BY <1>4, <1>5

-----------------------------------------------------------------------------
(* The theorems.                                                           *)

\* The invariant holds of every behaviour.
THEOREM LaddersHold == ReconnectSpec => []LaddersInv
<1>1. ReconnectInit => LaddersInv
  BY InitInv
<1>2. LaddersInv /\ [ReconnectNext]_reconnectVars => LaddersInv'
  BY LaddersStep
<1> QED BY <1>1, <1>2, PTL DEF ReconnectSpec

\* Every variable of the ladders keeps its type: a counter of rejections never
\* passes its limit, no gate waits longer than it was set, and every launch is of
\* an object that exists (ircConnection.ts, connectScheduler.ts).
THEOREM LaddersKeepTypes == ReconnectSpec => []ReconnectTypeOK
<1>1. LaddersInv => ReconnectTypeOK
  <2>1. SUFFICES ASSUME LaddersInv PROVE ReconnectTypeOK
    OBVIOUS
  <2>2. Now \in Values /\ shut \in BOOLEAN /\ thrown \in 0 .. MaxUnread
        /\ asked \in 0 .. MaxAsked
    BY <2>1 DEF LaddersInv, Good
  <2>3. /\ mapped \in [Nets -> 0 .. MaxObjs] /\ objs \in [Objs -> ObjSet]
        /\ launches \in Seq(TaskSet) /\ pump \in -1 .. Longest
        /\ gates \in [host : [Hosts -> 0 .. PerHost + Jitter], floor : 0 .. Floor]
        /\ policy \in [paused : BOOLEAN, closed : BOOLEAN,
                       list : Lists \union {Unlisted}]
        /\ told \in [Nets -> NetStates]
    BY <2>2, ValueFields, NowHas DEF NowFields
  <2> QED BY <2>2, <2>3 DEF ReconnectTypeOK, ObjSet, TaskSet, Longest
<1> QED BY <1>1, LaddersHold, PTL

\* A mapped connection that has not given up has exactly one of a socket, a
\* backoff timer and a place in the launch queue, whatever people ask, policies
\* refuse and sockets do: it is never stranded, and never dials twice
\* (ircConnection.ts, scheduleReconnectIfWarranted).
THEOREM OneWayUp == ReconnectSpec => []OneWayBack
<1> QED BY LaddersCarry, LaddersHold, PTL

\* No socket and no retry outlives the decision that ended it: what goes on by
\* itself is the connection the map holds, of an account that may have it
\* (ircManager.ts, stopNetwork, disposeNetwork, connectGate).
THEOREM NobodyIsOrphaned == ReconnectSpec => []NoOrphan
<1> QED BY LaddersOwn, LaddersHold, PTL

\* While a launch waits the timer is armed, for no later than the first of them
\* may go, through every arming, firing and passing of time
\* (connectScheduler.ts, schedulePump).
THEOREM PumpStaysArmed == ReconnectSpec => []PumpIsArmed
<1>1. LaddersInv => PumpIsArmed
  BY NowHas DEF LaddersInv, Armed, PumpIsArmed, NowFields
<1> QED BY <1>1, LaddersHold, PTL

\* What the clients were last told of a network is never left to stand for
\* nothing: "reconnecting" has a retry of the mapped connection behind it, and
\* "connecting" and "connected" a socket (ircConnection.ts, stopReconnecting).
THEOREM NothingIsPinned == ReconnectSpec => []NeverPinned
<1> QED BY LaddersStand, LaddersHold, PTL

-----------------------------------------------------------------------------
(* The two together, as the suite runs them.                               *)

\* The instance that TLC explores runs one of the two and leaves the other as it
\* was, so that what is proved of each is so of it.
THEOREM SuiteRunsBoth == ConnectionsSpec => Spec /\ ReconnectSpec
<1>1. ConnectionsInit => Init /\ ReconnectInit
  BY DEF ConnectionsInit
<1>2. [ConnectionsNext]_allVars => [Next]_vars /\ [ReconnectNext]_reconnectVars
  <2>1. ConnectionsNext => (Next \/ UNCHANGED vars)
                           /\ (ReconnectNext \/ UNCHANGED reconnectVars)
    BY Zenon DEF ConnectionsNext
  <2>2. UNCHANGED allVars => UNCHANGED vars /\ UNCHANGED reconnectVars
    BY Zenon DEF allVars
  <2> QED BY <2>1, <2>2
<1> QED BY <1>1, <1>2, PTL DEF ConnectionsSpec, Spec, ReconnectSpec

\* A process's connections keep their types, walks and ladders alike.
THEOREM SuiteKeepsTypes == ConnectionsSpec => []ConnectionsTypeOK
<1>1. TypeOK /\ ReconnectTypeOK => ConnectionsTypeOK
  BY DEF ConnectionsTypeOK
<1> QED BY <1>1, SuiteRunsBoth, RestoreTypeOK, LaddersKeepTypes, PTL

=============================================================================
