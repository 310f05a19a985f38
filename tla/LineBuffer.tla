----------------------------- MODULE LineBuffer -----------------------------
(***************************************************************************)
(* server/engine/lineBuffer.ts: the per-connection backlogs of the engine  *)
(* and the byte budget they share.  Every counter of the code (bytes per   *)
(* buffer, used over all of them) is kept incrementally, as the code keeps *)
(* it, so that a drift between the counters and the lines is visible.      *)
(*                                                                         *)
(* A line is its size; buffers are numbered in the order they register.    *)
(***************************************************************************)
EXTENDS Integers, Sequences

CONSTANTS
    NumBuffers,   \* connections ever opened: buffers 1 .. NumBuffers
    Sizes,        \* the sizes a line may have, CRLF included
    MaxBytes,     \* the ceiling of one buffer
    BudgetMax,    \* the ceiling of all of them together
    MaxSeq        \* bound: lines per connection

ASSUME BufferConstants ==
    /\ NumBuffers \in Nat \ {0}
    /\ Sizes \subseteq Nat \ {0}
    /\ MaxBytes \in Nat \ {0}
    /\ BudgetMax \in Nat /\ BudgetMax >= MaxBytes
    /\ MaxSeq \in Nat

Buffers == 1 .. NumBuffers

VARIABLES
    mem,       \* [lines, bytes, gap : per buffer, used : the budget]
    nextSeq,   \* per buffer
    created,   \* how many buffers have been constructed
    disposed,  \* the buffers whose connection has ended
    acked,     \* history: highest seq acked, per buffer
    told       \* history: seqs of the holes handed over, per buffer

bufferVars == <<mem, nextSeq, created, disposed, acked, told>>

NoGap == [first |-> 0, last |-> 0]

Registered == (1 .. created) \ disposed

\* Definitions marked `fault' are plausible mistakes in the definition that
\* follows them; each breaks a property below when put in its place.

-----------------------------------------------------------------------------
(* The two shedding loops.                                                 *)

\* fault: the budget is not told
DropOldestKeepingUsed(m, b) ==
    LET old == Head(m.lines[b]) IN
    [m EXCEPT !.lines[b] = Tail(@),
              !.bytes[b] = @ - old.size,
              !.gap[b]   = [first |-> IF @.last = 0 THEN old.seq ELSE @.first,
                            last  |-> old.seq]]

\* fault: every shed opens a hole of its own
DropOldestForgetting(m, b) ==
    LET old == Head(m.lines[b]) IN
    [m EXCEPT !.lines[b] = Tail(@),
              !.bytes[b] = @ - old.size,
              !.used     = @ - old.size,
              !.gap[b]   = [first |-> old.seq, last |-> old.seq]]

\* LineBuffer.dropOldest
DropOldest(m, b) ==
    LET old == Head(m.lines[b]) IN
    [m EXCEPT !.lines[b] = Tail(@),
              !.bytes[b] = @ - old.size,
              !.used     = @ - old.size,
              !.gap[b]   = [first |-> IF @.last = 0 THEN old.seq ELSE @.first,
                            last  |-> old.seq]]

\* Body applied n times: a loop that ends within n turns and then idles.
Iterate(Body(_), m, n) ==
    LET it[i \in 0 .. n] == IF i = 0 THEN m ELSE Body(it[i - 1]) IN it[n]

\* The buffer's own ceiling: LineBuffer.push's while.
TrimOnce(m, b) ==
    IF Len(m.lines[b]) > 1 /\ m.bytes[b] > MaxBytes THEN DropOldest(m, b) ELSE m
Trim(m, b) == Iterate(LAMBDA s : TrimOnce(s, b), m, Len(m.lines[b]))

Multi(m) == {b \in Registered : Len(m.lines[b]) > 1}

\* The first registered of the buffers with the most bytes.
Largest(m) ==
    CHOOSE b \in Multi(m) :
        \A c \in Multi(m) : \/ m.bytes[c] < m.bytes[b]
                            \/ m.bytes[c] = m.bytes[b] /\ b <= c

Total(f) ==
    LET sum[i \in 0 .. Len(f)] == IF i = 0 THEN 0 ELSE sum[i - 1] + f[i]
    IN  sum[Len(f)]
TotalLines(m) == Total([b \in Buffers |-> Len(m.lines[b])])

\* A turn of its while.  In place of Reclaim, a fault: `if' for `while'.
ReclaimOnce(m) ==
    IF m.used > BudgetMax /\ Multi(m) # {} THEN DropOldest(m, Largest(m)) ELSE m

\* ByteBudget.reclaim
Reclaim(m) == Iterate(ReclaimOnce, m, TotalLines(m))

-----------------------------------------------------------------------------

BuffersInit ==
    /\ mem = [lines |-> [b \in Buffers |-> <<>>],
              bytes |-> [b \in Buffers |-> 0],
              gap   |-> [b \in Buffers |-> NoGap],
              used  |-> 0]
    /\ nextSeq = [b \in Buffers |-> 1]
    /\ created = 0
    /\ disposed = {}
    /\ acked = [b \in Buffers |-> 0]
    /\ told = [b \in Buffers |-> {}]

\* The constructor registers the buffer with the budget.
Create ==
    /\ created < NumBuffers
    /\ created' = created + 1
    /\ UNCHANGED <<mem, nextSeq, disposed, acked, told>>

Stored(b, size) ==
    [mem EXCEPT !.lines[b] = Append(@, [seq |-> nextSeq[b], size |-> size]),
                !.bytes[b] = @ + size,
                !.used     = @ + size]

Push(b, size) ==
    /\ b \in Registered
    /\ nextSeq[b] <= MaxSeq
    /\ mem' = Reclaim(Trim(Stored(b, size), b))
    /\ nextSeq' = [nextSeq EXCEPT ![b] = @ + 1]
    /\ UNCHANGED <<created, disposed, acked, told>>

\* The hole after an ack of q.
AckGap(g, q) ==
    IF q >= g.last THEN NoGap
    ELSE IF q >= g.first THEN [g EXCEPT !.first = q + 1]
    ELSE g

\* The highest line acked so far, of those there are.
Reached(b, q) ==
    LET covered == IF q < nextSeq[b] THEN q ELSE nextSeq[b] - 1
    IN  IF covered > acked[b] THEN covered ELSE acked[b]

Releases(l, q) == l.seq <= q

\* The lines at the front that an ack of q releases: LineBuffer.ack's while.
Leading(lines, q) ==
    CHOOSE n \in 0 .. Len(lines) :
        /\ \A i \in 1 .. n : Releases(lines[i], q)
        /\ n < Len(lines) => ~Releases(lines[n + 1], q)

Bytes(lines) == Total([i \in DOMAIN lines |-> lines[i].size])

Ack(b, q) ==
    LET lines == mem.lines[b]
        n     == Leading(lines, q)
        freed == Bytes(SubSeq(lines, 1, n))
    IN  /\ b \in Registered
        /\ mem' = [mem EXCEPT !.lines[b] = SubSeq(lines, n + 1, Len(lines)),
                              !.bytes[b] = @ - freed,
                              !.used     = @ - freed,
                              !.gap[b]   = AckGap(@, q)]
        /\ acked' = [acked EXCEPT ![b] = Reached(b, q)]
        /\ UNCHANGED <<nextSeq, created, disposed, told>>

TakeGap(b) ==
    /\ b \in Registered
    /\ mem.gap[b].last # 0
    /\ told' = [told EXCEPT ![b] = @ \union (mem.gap[b].first .. mem.gap[b].last)]
    /\ mem' = [mem EXCEPT !.gap[b] = NoGap]
    /\ UNCHANGED <<nextSeq, created, disposed, acked>>

\* fault: release is called for the lines and again for their total
DisposeReleasingTwice(b) ==
    /\ b \in Registered
    /\ mem' = [mem EXCEPT !.lines[b] = <<>>,
                          !.bytes[b] = 0,
                          !.used     = @ - 2 * mem.bytes[b]]
    /\ disposed' = disposed \union {b}
    /\ UNCHANGED <<nextSeq, created, acked, told>>

Dispose(b) ==
    /\ b \in Registered
    /\ mem' = [mem EXCEPT !.lines[b] = <<>>,
                          !.bytes[b] = 0,
                          !.used     = @ - mem.bytes[b]]
    /\ disposed' = disposed \union {b}
    /\ UNCHANGED <<nextSeq, created, acked, told>>

\* An ack may name a line its buffer never had.
BuffersNext ==
    \/ Create
    \/ \E b \in Buffers, size \in Sizes : Push(b, size)
    \/ \E b \in Buffers : \E q \in 1 .. MaxSeq : Ack(b, q)
    \/ \E b \in Buffers : TakeGap(b)
    \/ \E b \in Buffers : Dispose(b)

BuffersSpec == BuffersInit /\ [][BuffersNext]_bufferVars

-----------------------------------------------------------------------------
(* Properties.                                                             *)

Line == [seq : 1 .. MaxSeq, size : Sizes]

\* Types; the byte counters never go below zero, and only a buffer that was
\* made is disposed of (LineBuffer, ByteBudget).
BuffersTypeOK ==
    /\ \A b \in Buffers : mem.lines[b] \in Seq(Line)
    /\ mem.bytes \in [Buffers -> Nat]
    /\ mem.used \in Nat
    /\ nextSeq \in [Buffers -> 1 .. MaxSeq + 1]
    /\ created \in 0 .. NumBuffers
    /\ disposed \subseteq 1 .. created
    /\ acked \in [Buffers -> 0 .. MaxSeq]
    /\ told \in [Buffers -> SUBSET (1 .. MaxSeq)]

\* The counters never drift from the lines they count, whatever sequence of
\* pushes, sheds, acks and disposals ran: a leak in `used' would shed other
\* people's backlogs for the life of the engine (lineBuffer.ts:71-154).
BudgetAccounted ==
    /\ \A b \in Buffers : mem.bytes[b] = Bytes(mem.lines[b])
    /\ mem.used = Total([b \in Buffers |-> Bytes(mem.lines[b])])

\* After every operation the total fits, or nothing is left to shed: each
\* registered buffer is down to its one protected line (ByteBudget.reclaim).
\* And no buffer exceeds its own ceiling with more than that one line.
BudgetBound ==
    /\ mem.used <= BudgetMax \/ \A b \in Registered : Len(mem.lines[b]) <= 1
    /\ \A b \in Registered : mem.bytes[b] <= MaxBytes \/ Len(mem.lines[b]) = 1

\* Each buffer keeps the promise of Backlog, whatever the others do to it
\* through the shared budget.
Abstraction(b) == INSTANCE Backlog WITH
    buf <- [first |-> nextSeq[b] - Len(mem.lines[b]),
            next  |-> nextSeq[b],
            gap   |-> mem.gap[b]],
    acked <- acked[b],
    told <- told[b],
    disposed <- b \in disposed

EveryBufferIsABacklog ==
    /\ \A b \in Buffers : Abstraction(b)!Init
    /\ [][\A b \in Buffers :
             Abstraction(b)!Next \/ UNCHANGED Abstraction(b)!vars]_bufferVars

=============================================================================
