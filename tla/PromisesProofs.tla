--------------------------- MODULE PromisesProofs ---------------------------
(***************************************************************************)
(* What the two abstract specifications amount to, for any constants.      *)
(*   - Backlog, which every LineBuffer keeps (QueuesProofs): a hole is     *)
(*     always adjacent to the lines still held, and no line leaves         *)
(*     unaccounted for;                                                    *)
(*   - MessageLog, which the relay keeps: on a socket whose mark still     *)
(*     stands, rows are unrepeated, in order, and skip nothing that was    *)
(*     not shed.                                                           *)
(***************************************************************************)
EXTENDS Backlog, MessageLog, TLAPS

-----------------------------------------------------------------------------
(* One LineBuffer.                                                         *)

\* The parts of the properties are inductive only together: a line shed into
\* an open hole stays accounted for because the hole ends where it was.
Live == buf.gap.last # 0 =>
            /\ 1 <= buf.gap.first /\ buf.gap.first <= buf.gap.last
            /\ buf.gap.last + 1 = buf.first
            /\ buf.first < buf.next

Accounted ==
    \A q \in 1 .. LastSeq(buf) :
        q <= acked \/ q \in Pending(buf) \/ q \in GapSeqs(buf) \/ q \in told

BacklogInv == TypeOK /\ (~disposed => Live /\ Accounted)

-----------------------------------------------------------------------------
(* The operations on one buffer.                                           *)

WellFormed(b) ==
    /\ b \in BufferType
    /\ b.first <= b.next
    /\ b.gap.last # 0 =>
           /\ 1 <= b.gap.first /\ b.gap.first <= b.gap.last
           /\ b.gap.last + 1 = b.first
           /\ b.first < b.next

Held(b) == Pending(b) \union GapSeqs(b)

\* LineBuffer.push keeps what was held and adds the new line, which the cap
\* can never shed.
LEMMA PushKeeps ==
    ASSUME NEW b, WellFormed(b)
    PROVE  /\ WellFormed(Pushed(b))
           /\ Held(Pushed(b)) = Held(b) \union {LastSeq(b) + 1}
           /\ LastSeq(Pushed(b)) = LastSeq(b) + 1
  BY DEF WellFormed, BufferType, Gap, Pushed, Held, Pending, GapSeqs, LastSeq

\* LineBuffer.dropOldest, any number of times, moves lines from the front of
\* the backlog into the hole and loses track of none.
LEMMA ShedKeeps ==
    ASSUME NEW b, WellFormed(b), NEW k \in ShedCounts(b) 
    PROVE  /\ WellFormed(Shed(b, k))
           /\ Held(Shed(b, k)) = Held(b)
           /\ LastSeq(Shed(b, k)) = LastSeq(b)
<1>1. CASE k = 0
  BY <1>1 DEF Shed
<1>2. CASE k # 0
  <2> DEFINE c == Shed(b, k)
  <2>1. k \in Nat /\ 1 <= k /\ k <= b.next - b.first - 1
    BY <1>2 DEF ShedCounts, PendingLen, WellFormed, BufferType
  <2> DEFINE g == [first |-> IF b.gap.last = 0 THEN b.first ELSE b.gap.first,
                   last  |-> b.first + k - 1]
  <2>a. b \in [first : Nat \ {0}, next : Nat \ {0}, gap : Gap] /\ b.gap \in Gap
    BY DEF WellFormed, BufferType
  <2>b. c = [b EXCEPT !.first = @ + k, !.gap = g]
    BY <1>2 DEF Shed
  <2>c. g \in Gap /\ b.first + k \in Nat \ {0}
    BY <2>1, <2>a DEF Gap
  <2>d. c.first = b.first + k /\ c.next = b.next /\ c.gap = g
    BY <2>a, <2>b
  <2>e. c \in [first : Nat \ {0}, next : Nat \ {0}, gap : Gap]
    <3> HIDE DEF g
    <3> QED BY <2>a, <2>b, <2>c
  <2>2. /\ c.first = b.first + k
        /\ c.next = b.next
        /\ c.gap.first = IF b.gap.last = 0 THEN b.first ELSE b.gap.first
        /\ c.gap.last = b.first + k - 1
        /\ c \in BufferType
    BY <2>d, <2>e DEF BufferType
  <2>3. WellFormed(c)
    BY <2>1, <2>2 DEF WellFormed, BufferType, Gap
  <2>4. Held(c) = Held(b)
    BY <2>1, <2>2 DEF WellFormed, BufferType, Gap, Held, Pending, GapSeqs
  <2>5. LastSeq(c) = LastSeq(b)
    BY <2>2 DEF LastSeq
  <2> QED BY <2>3, <2>4, <2>5
<1> QED BY <1>1, <1>2

\* LineBuffer.ack of q lets go of nothing past q.
LEMMA AckKeeps ==
    ASSUME NEW b, WellFormed(b), NEW q \in Nat
    PROVE  /\ WellFormed(Acked(b, q))
           /\ \A s \in Held(b) : s <= q \/ s \in Held(Acked(b, q))
           /\ LastSeq(Acked(b, q)) = LastSeq(b)
<1> DEFINE c == Acked(b, q)
           n == IF q < b.first THEN b.first ELSE IF q < b.next THEN q + 1 ELSE b.next
           g == AckedGap(b.gap, q)
<1>a. b \in [first : Nat \ {0}, next : Nat \ {0}, gap : Gap] /\ b.gap \in Gap
  BY DEF WellFormed, BufferType
<1>b. g \in Gap
  <2>1. CASE q >= b.gap.last
    BY <2>1 DEF AckedGap, NoGap, Gap
  <2>2. CASE q < b.gap.last
    BY <1>a, <2>2 DEF AckedGap, Gap
  <2> QED BY <1>a, <2>1, <2>2 DEF Gap
<1>c. n \in Nat \ {0}
  BY <1>a
<1>d. c = [b EXCEPT !.first = n, !.gap = g]
  BY DEF Acked
<1>e. c.first = n /\ c.next = b.next /\ c.gap = g
  BY <1>a, <1>d
<1>f. c \in [first : Nat \ {0}, next : Nat \ {0}, gap : Gap]
  <2> HIDE DEF n, g
  <2> QED BY <1>a, <1>b, <1>c, <1>d
<1>1. /\ c.first = IF q < b.first THEN b.first ELSE IF q < b.next THEN q + 1 ELSE b.next
      /\ c.next = b.next
      /\ c.gap = AckedGap(b.gap, q)
      /\ AckedGap(b.gap, q) \in Gap
      /\ c \in BufferType
  BY <1>b, <1>e, <1>f DEF BufferType
<1>2. WellFormed(c)
  BY <1>1 DEF WellFormed, BufferType, Gap, AckedGap, NoGap
<1>3. ASSUME NEW s \in Held(b) PROVE s <= q \/ s \in Held(c)
  BY <1>1 DEF WellFormed, BufferType, Gap, AckedGap, NoGap, Held, Pending, GapSeqs
<1>4. LastSeq(c) = LastSeq(b)
  BY <1>1 DEF LastSeq
<1> QED BY <1>2, <1>3, <1>4

\* LineBuffer.takeGap gives away the hole and nothing else.
LEMMA TakeKeeps ==
    ASSUME NEW b, WellFormed(b)
    PROVE  /\ WellFormed(GapTaken(b))
           /\ Held(b) = Held(GapTaken(b)) \union GapSeqs(b)
           /\ LastSeq(GapTaken(b)) = LastSeq(b)
  BY DEF WellFormed, BufferType, Gap, GapTaken, NoGap, Held, Pending, GapSeqs, LastSeq

-----------------------------------------------------------------------------
(* The inductive invariant.                                                *)

\* While it lives, a backlog is well formed.
LEMMA LiveIsWellFormed ==
    ASSUME BacklogInv, ~disposed PROVE WellFormed(buf)
  BY DEF BacklogInv, TypeOK, Live, WellFormed

\* What is held is accounted for.
LEMMA AccountedByHeld ==
    ASSUME BacklogInv, ~disposed
    PROVE  \A q \in 1 .. LastSeq(buf) : q <= acked \/ q \in Held(buf) \/ q \in told
  BY DEF BacklogInv, Accounted, Held

\* What the step lemmas conclude, turned back into the invariant.
LEMMA FromHeld ==
    ASSUME WellFormed(buf'), acked' \in 0 .. LastSeq(buf'), told' \in SUBSET Nat,
           disposed' \in BOOLEAN,
           \A q \in 1 .. LastSeq(buf') :
               q <= acked' \/ q \in Held(buf') \/ q \in told'
    PROVE  BacklogInv'
  BY DEF BacklogInv, TypeOK, Live, Accounted, WellFormed, Held

\* An empty backlog.
LEMMA InitBacklogInv == Init => BacklogInv
<1> SUFFICES ASSUME Init PROVE BacklogInv
  OBVIOUS
<1>1. EmptyBuffer \in BufferType
  BY DEF EmptyBuffer, NoGap, BufferType, Gap
<1>2. buf = EmptyBuffer /\ acked = 0 /\ told = {} /\ disposed = FALSE
  BY DEF Init
<1>3. TypeOK
  <2>1. buf.first = 1 /\ buf.next = 1
    BY <1>2 DEF EmptyBuffer
  <2>2. acked \in 0 .. LastSeq(buf)
    BY <1>2, <2>1 DEF LastSeq
  <2>3. buf \in BufferType /\ buf.first <= buf.next
    BY <1>1, <1>2, <2>1
  <2>4. told \in SUBSET Nat /\ disposed \in BOOLEAN
    BY <1>2
  <2> QED BY <2>2, <2>3, <2>4 DEF TypeOK
<1>4. Live /\ Accounted
  BY <1>2 DEF Live, Accounted, LastSeq, EmptyBuffer, NoGap
<1> QED BY <1>3, <1>4 DEF BacklogInv

\* Every operation keeps the invariant.
LEMMA NextBacklogInv == BacklogInv /\ [Next]_vars => BacklogInv'
<1> SUFFICES ASSUME BacklogInv, [Next]_vars PROVE BacklogInv'
  OBVIOUS
<1>t. acked \in 0 .. LastSeq(buf) /\ told \in SUBSET Nat /\ disposed \in BOOLEAN
  BY DEF BacklogInv, TypeOK
<1>s. ASSUME ~disposed PROVE LastSeq(buf) \in Nat
  BY <1>s, LiveIsWellFormed DEF WellFormed, BufferType, LastSeq
<1>1. CASE Receive
  <2> DEFINE b == Pushed(buf)
  <2>1. PICK k \in ShedCounts(b) : buf' = Shed(b, k)
    BY <1>1 DEF Receive
  <2>2. ~disposed /\ UNCHANGED <<acked, told, disposed>>
    BY <1>1 DEF Receive
  <2>3. /\ WellFormed(b)
        /\ Held(b) = Held(buf) \union {LastSeq(buf) + 1}
        /\ LastSeq(b) = LastSeq(buf) + 1
    BY <2>2, LiveIsWellFormed, PushKeeps
  <2>4. WellFormed(buf') /\ Held(buf') = Held(b) /\ LastSeq(buf') = LastSeq(b)
    BY <2>1, <2>3, ShedKeeps
  <2>5. ASSUME NEW q \in 1 .. LastSeq(buf')
        PROVE  q <= acked' \/ q \in Held(buf') \/ q \in told'
    BY <1>s, <2>2, <2>3, <2>4, AccountedByHeld
  <2>6. acked' \in 0 .. LastSeq(buf')
    BY <1>t, <1>s, <2>2, <2>3, <2>4
  <2> QED BY <1>t, <2>2, <2>4, <2>5, <2>6, FromHeld
<1>2. CASE Squeeze
  <2>1. PICK k \in ShedCounts(buf) : buf' = Shed(buf, k)
    BY <1>2 DEF Squeeze
  <2>2. ~disposed /\ UNCHANGED <<acked, told, disposed>>
    BY <1>2 DEF Squeeze
  <2>3. WellFormed(buf') /\ Held(buf') = Held(buf) /\ LastSeq(buf') = LastSeq(buf)
    BY <2>1, <2>2, LiveIsWellFormed, ShedKeeps
  <2> QED BY <1>t, <2>2, <2>3, AccountedByHeld, FromHeld
<1>3. CASE Ack
  <2>1. PICK q \in 0 .. buf.next : buf' = Acked(buf, q) /\ acked' = Reached(q)
    BY <1>3 DEF Ack
  <2>2. ~disposed /\ UNCHANGED <<told, disposed>>
    BY <1>3 DEF Ack
  <2>3. q \in Nat
    BY <2>1, <2>2, LiveIsWellFormed DEF WellFormed, BufferType
  <2>4. /\ WellFormed(buf')
        /\ \A s \in Held(buf) : s <= q \/ s \in Held(buf')
        /\ LastSeq(buf') = LastSeq(buf)
    BY <2>1, <2>2, <2>3, LiveIsWellFormed, AckKeeps
  <2>5. /\ acked' \in 0 .. LastSeq(buf)
        /\ acked <= acked'
        /\ \A s \in 1 .. LastSeq(buf) : s <= q => s <= acked'
    BY <1>t, <1>s, <2>1, <2>2, <2>3 DEF Reached
  <2>6. ASSUME NEW s \in 1 .. LastSeq(buf')
        PROVE  s <= acked' \/ s \in Held(buf') \/ s \in told'
    <3>1. s \in Nat /\ s \in 1 .. LastSeq(buf) /\ (s <= acked \/ s \in Held(buf) \/ s \in told)
      BY <1>s, <2>2, <2>4, AccountedByHeld
    <3>2. s <= acked => s <= acked'
      BY <1>t, <1>s, <2>2, <2>5, <3>1
    <3> QED BY <2>2, <2>4, <2>5, <3>1, <3>2
  <2> QED BY <1>t, <2>2, <2>4, <2>5, <2>6, FromHeld
<1>4. CASE TakeGap
  <2>1. /\ ~disposed
        /\ told' = told \union GapSeqs(buf)
        /\ buf' = GapTaken(buf)
        /\ UNCHANGED <<acked, disposed>>
    BY <1>4 DEF TakeGap
  <2>2. WellFormed(buf)
    BY <2>1, LiveIsWellFormed
  <2>3. /\ WellFormed(buf')
        /\ Held(buf) = Held(buf') \union GapSeqs(buf)
        /\ LastSeq(buf') = LastSeq(buf)
    BY <2>1, <2>2, TakeKeeps
  <2>4. told' \in SUBSET Nat
    <3>1. buf.gap \in Gap
      BY <2>2 DEF WellFormed, BufferType
    <3>2. GapSeqs(buf) \subseteq Nat
      BY <3>1 DEF Gap, GapSeqs
    <3> QED BY <1>t, <2>1, <3>2
  <2> QED BY <1>t, <2>1, <2>3, <2>4, AccountedByHeld, FromHeld
<1>5. CASE Dispose
  <2>1. disposed' = TRUE /\ buf' = [buf EXCEPT !.first = buf.next]
          /\ UNCHANGED <<acked, told>>
    BY <1>5 DEF Dispose
  <2> QED BY <2>1 DEF BacklogInv, TypeOK, BufferType, LastSeq
<1>6. CASE UNCHANGED vars
  BY <1>6 DEF vars, BacklogInv, TypeOK, Live, Accounted, LastSeq, Pending, GapSeqs
<1> QED BY <1>1, <1>2, <1>3, <1>4, <1>5, <1>6 DEF Next

\* So it always holds.
LEMMA AlwaysBacklogInv == Spec => []BacklogInv
  BY InitBacklogInv, NextBacklogInv, PTL DEF Spec

-----------------------------------------------------------------------------
(* The theorems.                                                           *)

\* The buffer's counters keep their ranges: never more acked or dropped than
\* was handed out (LineBuffer.ack's clamp).
THEOREM BacklogTypeOK == Spec => []TypeOK
<1>1. BacklogInv => TypeOK
  BY DEF BacklogInv
<1> QED BY <1>1, AlwaysBacklogInv, PTL

\* The recorded hole of a live buffer is non-empty, ends where the held lines
\* begin, and at least one line is held after it (LineBuffer.dropOldest and
\* ack): what EngineUpstream.flush relies on when it sends the hole first.
THEOREM BacklogGapBeforePending == Spec => []GapBeforePending
<1>1. BacklogInv => GapBeforePending
  BY DEF BacklogInv, Live, GapBeforePending
<1> QED BY <1>1, AlwaysBacklogInv, PTL

\* Every line given to a live buffer is acked, held, in the recorded hole or
\* in a hole handed over: shedding and acking together never lose the trace
\* of a line (engine/lineBuffer.ts:8-9).
THEOREM BacklogNoSilentHole == Spec => []NoSilentHole
<1>1. BacklogInv => NoSilentHole
  BY DEF BacklogInv, Accounted, NoSilentHole
<1> QED BY <1>1, AlwaysBacklogInv, PTL

-----------------------------------------------------------------------------
(* The log of the rows.                                                    *)

LogInv == LogTypeOK /\ StoredInOrder /\ NoneSkipped

\* Appending one row (storeTx) adds it to what is stored and moves nothing.
LEMMA AppendedRow ==
    ASSUME NEW n \in Sockets, NEW s \in Lines, rows \in Seq(Sockets \X Lines),
           rows' = Append(rows, <<n, s>>)
    PROVE  /\ rows' \in Seq(Sockets \X Lines)
           /\ DOMAIN rows' = 1 .. Len(rows) + 1
           /\ \A i \in DOMAIN rows : rows'[i] = rows[i]
           /\ rows'[Len(rows) + 1] = <<n, s>>
           /\ Stored' = Stored \union {<<n, s>>}
<1>1. /\ rows' \in Seq(Sockets \X Lines)
      /\ DOMAIN rows' = 1 .. Len(rows) + 1
      /\ DOMAIN rows = 1 .. Len(rows)
      /\ \A i \in DOMAIN rows : rows'[i] = rows[i]
      /\ rows'[Len(rows) + 1] = <<n, s>>
      /\ Len(rows) \in Nat
  OBVIOUS
<1>2. Stored' = {rows'[i] : i \in DOMAIN rows'} /\ Stored = {rows[i] : i \in DOMAIN rows}
  BY DEF Stored, ToSet
<1>3. Stored' = Stored \union {<<n, s>>}
  BY <1>1, <1>2
<1> QED BY <1>1, <1>3

\* An empty log.
LEMMA InitLogInv == LogInit => LogInv
  BY DEF LogInit, LogInv, LogTypeOK, StoredInOrder, NoneSkipped

\* Every step keeps the invariant.
LEMMA NextLogInv == LogInv /\ [LogNext]_logVars => LogInv'
<1> SUFFICES ASSUME LogInv, [LogNext]_logVars PROVE LogInv'
  OBVIOUS
<1>t. /\ rows \in Seq(Sockets \X Lines)
      /\ holes \in SUBSET (Sockets \X Lines)
      /\ forgot \in SUBSET Sockets
      /\ DOMAIN rows = 1 .. Len(rows) /\ Len(rows) \in Nat
      /\ \A i \in DOMAIN rows : /\ rows[i] \in Sockets \X Lines
                               /\ rows[i] \in Stored
                               /\ rows[i] = <<rows[i][1], rows[i][2]>>
                               /\ rows[i][2] \in Lines
  BY DEF LogInv, LogTypeOK, Stored, ToSet
<1>1. ASSUME NEW n \in Sockets, NEW s \in Lines, Store(n, s) PROVE LogInv'
  <2>1. /\ \A t \in Lines : <<n, t>> \in Stored => t < s
        /\ \A t \in Lines : t < s => <<n, t>> \in Stored \union holes
        /\ rows' = Append(rows, <<n, s>>)
        /\ holes' = holes /\ forgot' = forgot
    BY <1>1 DEF Store
  <2>2. /\ rows' \in Seq(Sockets \X Lines)
        /\ DOMAIN rows' = 1 .. Len(rows) + 1
        /\ \A i \in DOMAIN rows : rows'[i] = rows[i]
        /\ rows'[Len(rows) + 1] = <<n, s>>
        /\ Stored' = Stored \union {<<n, s>>}
    BY <1>t, <2>1, AppendedRow
  <2>3. LogTypeOK'
    BY <1>t, <2>1, <2>2 DEF LogTypeOK
  <2>4. StoredInOrder'
    <3> SUFFICES ASSUME NEW i \in DOMAIN rows', NEW j \in DOMAIN rows', i < j,
                        rows'[i][1] = rows'[j][1], rows'[i][1] \notin forgot
                 PROVE  rows'[i][2] < rows'[j][2]
      BY <2>1 DEF StoredInOrder
    <3>1. i \in DOMAIN rows
      BY <1>t, <2>2
    <3>2. CASE j \in DOMAIN rows
      BY <2>2, <3>1, <3>2 DEF LogInv, StoredInOrder
    <3>3. CASE j = Len(rows) + 1
      <4>1. rows'[j][1] = n /\ rows'[j][2] = s
        BY <2>2, <3>3
      <4>2. rows'[i] = rows[i]
        BY <2>2, <3>1
      <4>3. <<n, rows[i][2]>> \in Stored /\ rows[i][2] \in Lines
        BY <1>t, <3>1, <4>1, <4>2
      <4> QED BY <2>1, <4>1, <4>2, <4>3
    <3> QED BY <1>t, <2>2, <3>2, <3>3
  <2>5. NoneSkipped'
    <3> SUFFICES ASSUME NEW i \in DOMAIN rows', rows'[i][1] \notin forgot,
                        NEW t \in Lines, t < rows'[i][2]
                 PROVE  <<rows'[i][1], t>> \in Stored' \union holes
      BY <2>1 DEF NoneSkipped
    <3>1. CASE i \in DOMAIN rows
      BY <2>2, <3>1 DEF LogInv, NoneSkipped
    <3>2. CASE i = Len(rows) + 1
      BY <2>1, <2>2, <3>2
    <3> QED BY <1>t, <2>2, <3>1, <3>2
  <2> QED BY <2>3, <2>4, <2>5 DEF LogInv
<1>2. ASSUME NEW n \in Sockets, NEW s \in Lines, Repeat(n, s) PROVE LogInv'
  <2>1. /\ n \in forgot
        /\ rows' = Append(rows, <<n, s>>)
        /\ holes' = holes /\ forgot' = forgot
    BY <1>2 DEF Repeat
  <2>2. /\ rows' \in Seq(Sockets \X Lines)
        /\ DOMAIN rows' = 1 .. Len(rows) + 1
        /\ \A i \in DOMAIN rows : rows'[i] = rows[i]
        /\ rows'[Len(rows) + 1] = <<n, s>>
        /\ Stored' = Stored \union {<<n, s>>}
    BY <1>t, <2>1, AppendedRow
  <2>3. \A i \in DOMAIN rows' : rows'[i][1] \notin forgot' => i \in DOMAIN rows
    BY <1>t, <2>1, <2>2
  <2>4. LogTypeOK'
    BY <1>t, <2>1, <2>2 DEF LogTypeOK
  <2>5. StoredInOrder'
    <3> SUFFICES ASSUME NEW i \in DOMAIN rows', NEW j \in DOMAIN rows', i < j,
                        rows'[i][1] = rows'[j][1], rows'[i][1] \notin forgot'
                 PROVE  rows'[i][2] < rows'[j][2]
      BY DEF StoredInOrder
    <3>1. i \in DOMAIN rows /\ j \in DOMAIN rows
      BY <2>3
    <3> QED BY <2>1, <2>2, <3>1 DEF LogInv, StoredInOrder
  <2>6. NoneSkipped'
    <3> SUFFICES ASSUME NEW i \in DOMAIN rows', rows'[i][1] \notin forgot',
                        NEW t \in Lines, t < rows'[i][2]
                 PROVE  <<rows'[i][1], t>> \in Stored' \union holes'
      BY DEF NoneSkipped
    <3>1. i \in DOMAIN rows
      BY <2>3
    <3> QED BY <2>1, <2>2, <3>1 DEF LogInv, NoneSkipped
  <2> QED BY <2>4, <2>5, <2>6 DEF LogInv
<1>3. ASSUME NEW n \in Sockets, NEW S \in SUBSET Lines, ShedLines(n, S) PROVE LogInv'
  <2>1. holes' = holes \union ({n} \X S) /\ rows' = rows /\ forgot' = forgot
    BY <1>3 DEF ShedLines
  <2>2. Stored' = Stored /\ holes' \in SUBSET (Sockets \X Lines)
    BY <1>t, <2>1 DEF Stored
  <2> QED BY <1>t, <2>1, <2>2 DEF LogInv, LogTypeOK, StoredInOrder, NoneSkipped
<1>4. ASSUME NEW S \in SUBSET Sockets, Forget(S) PROVE LogInv'
  <2>1. forgot' = forgot \union S /\ rows' = rows /\ holes' = holes
    BY <1>4 DEF Forget
  <2>2. Stored' = Stored /\ forgot' \in SUBSET Sockets
    BY <1>t, <2>1 DEF Stored
  <2> QED BY <1>t, <2>1, <2>2 DEF LogInv, LogTypeOK, StoredInOrder, NoneSkipped
<1>5. CASE UNCHANGED logVars
  BY <1>5 DEF logVars, LogInv, LogTypeOK, StoredInOrder, NoneSkipped, Stored
<1> QED BY <1>1, <1>2, <1>3, <1>4, <1>5 DEF LogNext

\* So it always holds.
LEMMA AlwaysLogInv == LogSpec => []LogInv
  BY InitLogInv, NextLogInv, PTL DEF LogSpec

\* Rows of one socket are stored in the order of its lines while its mark
\* stands (db/engineMarks storeUnderMark).
THEOREM LogInOrder == LogSpec => []StoredInOrder
<1>1. LogInv => StoredInOrder
  BY DEF LogInv
<1> QED BY <1>1, AlwaysLogInv, PTL

\* No line is stored twice while its socket's mark stands: "whichever process
\* gets there second stores nothing" (db/engineMarks.ts:25-29).
THEOREM LogStoredOnce ==
    ASSUME Lines \subseteq Nat
    PROVE  LogSpec => []StoredOnce
<1>1. LogInv => StoredOnce
  <2> SUFFICES ASSUME LogInv, NEW i \in DOMAIN rows, NEW j \in DOMAIN rows,
                      i < j, rows[i] = rows[j], rows[i][1] \notin forgot
               PROVE  FALSE
    BY DEF StoredOnce
  <2>1. rows[i][2] < rows[i][2]
    BY DEF LogInv, StoredInOrder
  <2>2. rows \in Seq(Sockets \X Lines)
    BY DEF LogInv, LogTypeOK
  <2>3. rows[i] \in Sockets \X Lines
    BY <2>2
  <2>4. rows[i][2] \in Nat
    BY <2>3
  <2> QED BY <2>1, <2>4
<1> QED BY <1>1, AlwaysLogInv, PTL

\* What is stored of a socket has no unexplained hole before it: each earlier
\* line is stored or was shed by the engine's backlog.
THEOREM LogNoneSkipped == LogSpec => []NoneSkipped
<1>1. LogInv => NoneSkipped
  BY DEF LogInv
<1> QED BY <1>1, AlwaysLogInv, PTL


=============================================================================
