--------------------------- MODULE MCEngineRelay ---------------------------
(***************************************************************************)
(* Instances of EngineRelay for TLC.                                       *)
(***************************************************************************)
EXTENDS EngineRelay

\* Every line after the burst is one message row.
PlainRows == [s \in Seqs |-> IF s <= BurstEnd THEN 0 ELSE 1]
NoBatches == [s \in Seqs |-> s]

\* Line 4 closes a batch that line 2 opened; line 3 is its one message.
OneBatch     == [s \in Seqs |-> IF s = 4 THEN 2 ELSE s]
OneBatchRows == [s \in Seqs |-> IF s = 4 THEN 1 ELSE 0]

\* Line 2 is a QUIT seen in two channels: two rows.
TwoRows == [s \in Seqs |-> IF s = 2 THEN 2 ELSE 0]

-----------------------------------------------------------------------------
(* The liveness run.  A shed takes three lines, of which one is left; with *)
(* a second process and a broken link besides that is 4.3 million states.  *)

\* Bound: as many lines as there may be, and a shed, only while the first process
\* is there and has no successor; otherwise one line less, and no shed.
ShedOrHandOver ==
    \/ sheds = 0 /\ LastSeq(up.buf) < MaxSeq
    \/ apps[1].st # "gone" /\ \A a \in Apps : a > 1 => apps[a].st = "unborn"

\* Those behaviours of FairSpec that keep to the bound: what it forbids (a start
\* beside a running process, an end, a line, a shed) no fairness asks for.
LiveSpec == Init /\ [][Next /\ ShedOrHandOver']_vars /\ Fairness

=============================================================================
