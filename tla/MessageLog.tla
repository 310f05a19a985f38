----------------------------- MODULE MessageLog -----------------------------
(***************************************************************************)
(* What the relay of one connection promises the message table, whatever   *)
(* processes and links come and go: a socket's lines are stored once, in   *)
(* order, and none is passed over that was not shed.  The promise lapses   *)
(* for a socket once its catch-up mark is forgotten.  EngineRelay is shown *)
(* to implement this.                                                      *)
(***************************************************************************)
EXTENDS Integers, Sequences, SequencesExt

CONSTANTS
    Sockets,   \* numbered
    Lines      \* numbered in the order received

VARIABLES
    rows,    \* the stored lines, in the order stored
    holes,   \* lines the engine shed: they may never be stored
    forgot   \* sockets whose mark was pruned

logVars == <<rows, holes, forgot>>

Stored == ToSet(rows)

LogInit ==
    /\ rows = <<>>
    /\ holes = {}
    /\ forgot = {}

\* The next line of a socket, past all that are stored or shed.
Store(n, s) ==
    /\ \A t \in Lines : <<n, t>> \in Stored => t < s
    /\ \A t \in Lines : t < s => <<n, t>> \in Stored \union holes
    /\ rows' = Append(rows, <<n, s>>)
    /\ UNCHANGED <<holes, forgot>>

\* With the mark gone, a process that was superseded may repeat old lines.
Repeat(n, s) ==
    /\ n \in forgot
    /\ rows' = Append(rows, <<n, s>>)
    /\ UNCHANGED <<holes, forgot>>

ShedLines(n, S) ==
    /\ holes' = holes \union ({n} \X S)
    /\ UNCHANGED <<rows, forgot>>

Forget(S) ==
    /\ forgot' = forgot \union S
    /\ UNCHANGED <<rows, holes>>

LogNext ==
    \/ \E n \in Sockets, s \in Lines : Store(n, s) \/ Repeat(n, s)
    \/ \E n \in Sockets : \E S \in SUBSET Lines : ShedLines(n, S)
    \/ \E S \in SUBSET Sockets : Forget(S)

LogSpec == LogInit /\ [][LogNext]_logVars

-----------------------------------------------------------------------------
(* Consequences, proved for any Sockets and Lines in PromisesProofs.       *)

\* Types of the abstract log.
LogTypeOK ==
    /\ rows \in Seq(Sockets \X Lines)
    /\ holes \in SUBSET (Sockets \X Lines)
    /\ forgot \in SUBSET Sockets

\* A line is stored twice only on a socket whose mark was forgotten.
StoredOnce ==
    \A i, j \in DOMAIN rows :
        i < j /\ rows[i] = rows[j] => rows[i][1] \in forgot

\* Rows of one socket stand in the order of its lines.
StoredInOrder ==
    \A i, j \in DOMAIN rows :
        i < j /\ rows[i][1] = rows[j][1] /\ rows[i][1] \notin forgot
            => rows[i][2] < rows[j][2]

\* No stored line has an earlier one behind it that is neither stored nor shed.
NoneSkipped ==
    \A i \in DOMAIN rows :
        rows[i][1] \in forgot \/
        \A t \in Lines :
            t < rows[i][2] => <<rows[i][1], t>> \in Stored \union holes

=============================================================================
