----------------------------- MODULE BacklogOps -----------------------------
(***************************************************************************)
(* One LineBuffer (server/engine/lineBuffer.ts) with the line bytes        *)
(* abstracted away: a run of consecutively numbered lines, trimmed only    *)
(* from the front, and at most one recorded hole.  Pure operators: Backlog *)
(* makes a state machine of them, EngineRelay holds a socket's lines in    *)
(* one.                                                                    *)
(***************************************************************************)
EXTENDS Integers

-----------------------------------------------------------------------------
(* Values.  Seqs count from 1, so a last dropped seq of 0 means no hole.   *)

NoGap == [first |-> 0, last |-> 0]
Gap   == [first : Nat, last : Nat]

\* Pending lines are first .. next - 1; first = next when nothing is pending.
BufferType == [first : Nat \ {0}, next : Nat \ {0}, gap : Gap]
EmptyBuffer == [first |-> 1, next |-> 1, gap |-> NoGap]

Pending(b)  == b.first .. (b.next - 1)
PendingLen(b) == b.next - b.first
LastSeq(b)  == b.next - 1
GapSeqs(b)  == IF b.gap.last = 0 THEN {} ELSE b.gap.first .. b.gap.last

-----------------------------------------------------------------------------
(* Operations.                                                             *)

Pushed(b) == [b EXCEPT !.next = @ + 1]

\* k calls of dropOldest: an open gap is extended, never a second one opened.
Shed(b, k) ==
    IF k = 0 THEN b
    ELSE [b EXCEPT !.first = @ + k,
                   !.gap   = [first |-> IF @.last = 0 THEN b.first ELSE @.first,
                              last  |-> b.first + k - 1]]

\* A buffer is never emptied below one line.
ShedCounts(b) == 0 .. (PendingLen(b) - 1)

\* An ack into the hole shrinks it; an ack past it forgets it.
AckedGap(g, q) ==
    IF q >= g.last THEN NoGap
    ELSE IF q >= g.first THEN [g EXCEPT !.first = q + 1]
    ELSE g

Acked(b, q) ==
    [b EXCEPT !.first = IF q < @ THEN @ ELSE IF q < b.next THEN q + 1 ELSE b.next,
              !.gap   = AckedGap(@, q)]

GapTaken(b) == [b EXCEPT !.gap = NoGap]

=============================================================================
