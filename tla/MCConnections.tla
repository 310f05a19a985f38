--------------------------- MODULE MCConnections ---------------------------
(***************************************************************************)
(* An instance of the two things a process does for many connections at a  *)
(* time: the channel walks after a re-attach (RestoreWalk) and the retry   *)
(* ladders with their launch queue (Reconnects).  They share nothing here, *)
(* so that one behaviour follows one of them, whichever `part' names, and  *)
(* the other stays as it was: nothing of it is fair then, being disabled.  *)
(***************************************************************************)
EXTENDS MCRestoreWalk, MCReconnects

VARIABLE part

allVars == <<vars, reconnectVars, part>>

ConnectionsInit == part \in {"walks", "ladders"} /\ Init /\ ReconnectInit

ConnectionsNext ==
    /\ UNCHANGED part
    /\ \/ part = "walks" /\ Next /\ UNCHANGED reconnectVars
       \/ part = "ladders" /\ ReconnectNext /\ UNCHANGED vars

ConnectionsSpec ==
    ConnectionsInit /\ [][ConnectionsNext]_allVars /\ Fairness /\ ReconnectFairness

\* The type invariants of both.
ConnectionsTypeOK == TypeOK /\ ReconnectTypeOK

=============================================================================
