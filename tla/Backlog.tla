------------------------------ MODULE Backlog ------------------------------
(***************************************************************************)
(* What one LineBuffer promises its connection: every line it was given is *)
(* acked, still held, or inside a hole it can name.  LineBuffer is shown   *)
(* to implement this for each of its buffers (QueuesProofs), and           *)
(* PromisesProofs proves what follows from it.                             *)
(***************************************************************************)
EXTENDS BacklogOps

-----------------------------------------------------------------------------
(* The abstract specification of one buffer.  `acked' and `told' are       *)
(* history: the highest ack, and the seqs of the holes handed over.        *)

VARIABLES buf, acked, told, disposed

vars == <<buf, acked, told, disposed>>

Init ==
    /\ buf = EmptyBuffer
    /\ acked = 0
    /\ told = {}
    /\ disposed = FALSE

\* A line arrives; this buffer's own cap or the shared budget may shed.
Receive ==
    /\ ~disposed
    /\ \E k \in ShedCounts(Pushed(buf)) : buf' = Shed(Pushed(buf), k)
    /\ UNCHANGED <<acked, told, disposed>>

\* Another connection's line takes the shared budget over its ceiling.
Squeeze ==
    /\ ~disposed
    /\ \E k \in ShedCounts(buf) : buf' = Shed(buf, k)
    /\ UNCHANGED <<acked, told, disposed>>

\* The highest line acked so far, of those there are.
Reached(q) ==
    LET covered == IF q < LastSeq(buf) THEN q ELSE LastSeq(buf)
    IN  IF covered > acked THEN covered ELSE acked

\* An ack may name a line this buffer never had: nothing on the wire ties it
\* to the socket (EngineServer.dispatch).  Such an ack counts as one of the
\* line to come, buf.next.
Ack ==
    /\ ~disposed
    /\ \E q \in 0 .. buf.next :
          /\ buf' = Acked(buf, q)
          /\ acked' = Reached(q)
    /\ UNCHANGED <<told, disposed>>

TakeGap ==
    /\ ~disposed
    /\ told' = told \union GapSeqs(buf)
    /\ buf' = GapTaken(buf)
    /\ UNCHANGED <<acked, disposed>>

Dispose ==
    /\ ~disposed
    /\ disposed' = TRUE
    /\ buf' = [buf EXCEPT !.first = buf.next]
    /\ UNCHANGED <<acked, told>>

Next == Receive \/ Squeeze \/ Ack \/ TakeGap \/ Dispose

Spec == Init /\ [][Next]_vars

-----------------------------------------------------------------------------
(* Properties.                                                             *)

TypeOK ==
    /\ buf \in BufferType
    /\ buf.first <= buf.next
    /\ acked \in 0 .. LastSeq(buf)
    /\ told \in SUBSET Nat
    /\ disposed \in BOOLEAN

\* A recorded hole ends exactly where the kept lines begin, and there is at
\* least one kept line after it: EngineUpstream.flush sends the hole before
\* the lines, and flushAfterAttach says `live' first when nothing is pending.
GapBeforePending ==
    ~disposed /\ buf.gap.last # 0 =>
        /\ 1 <= buf.gap.first /\ buf.gap.first <= buf.gap.last
        /\ buf.gap.last + 1 = buf.first
        /\ buf.first < buf.next

\* No line leaves the buffer unaccounted for: every seq handed out is acked,
\* still pending, inside the recorded hole, or inside a hole handed over.
NoSilentHole ==
    ~disposed =>
        \A q \in 1 .. LastSeq(buf) :
            q <= acked \/ q \in Pending(buf) \/ q \in GapSeqs(buf) \/ q \in told

=============================================================================
