------------------------------ MODULE MCQueues ------------------------------
(***************************************************************************)
(* Instances for TLC of what is queued or comes in pieces: the engine's    *)
(* backlogs (LineBuffer), a connection's outbound queue (SendPacer), the   *)
(* pages of a network's history (Chathistory), the chunks of an upload     *)
(* (Uploads), and the requests of one walk under a cap of one (RestoreWalk,*)
(* with the three requests of a step).                                     *)
(* They share nothing here, so that one behaviour follows one of them,     *)
(* whichever `part' names, and the others stay as they were.               *)
(***************************************************************************)
EXTENDS LineBuffer, SendPacer, Chathistory, Uploads, MCRestoreWalk

VARIABLE part

Mix(kinds, most, edit) == [kinds |-> kinds, most |-> most, edit |-> edit]

AllMixes == {Mix({"secret", "chat"}, 3, FALSE), Mix({"nick", "secret", "chat"}, 2, FALSE),
             Mix({"keyA", "keyB", "ping"}, 3, FALSE),
             Mix({"poll", "batch", "monitor"}, 3, FALSE),
             Mix({"batch", "chat"}, 2, TRUE),
             Mix({"poll", "chat"}, 4, FALSE),
             Mix({"offer", "chat"}, 3, FALSE)}

\* Pages of two: a millisecond that fills one, a millisecond that no page holds,
\* and more conversations than a page of TARGETS names.
History(x, d, e, off) ==
    [times |-> [t \in Targets |-> CASE t = "x" -> x [] t = "d" -> d [] t = "e" -> e],
     held |-> [t \in Targets |-> IF t = "x" THEN 1 ELSE 0], off |-> off]

AllLogs == {History(<<5, 5, 6, 6, 7>>, <<>>, <<>>, 1),
            History(<<5, 6, 6, 6, 7>>, <<>>, <<>>, 0), History(<<5>>, <<7>>, <<8>>, -1)}

allVars == <<bufferVars, pacerVars, historyVars, uploadVars, vars, part>>

QueuesInit ==
    /\ part \in {"buffers", "pacer", "history", "uploads", "walk"}
    /\ BuffersInit /\ PacerInit /\ HistoryInit /\ UploadsInit /\ Init
    /\ part # "pacer" => mix = CHOOSE m \in Mixes : TRUE
    /\ part # "history" => log = CHOOSE l \in Logs : TRUE

QueuesNext ==
    /\ UNCHANGED part
    /\ \/ /\ part = "buffers" /\ BuffersNext
          /\ UNCHANGED <<pacerVars, historyVars, uploadVars, vars>>
       \/ /\ part = "pacer" /\ PacerNext
          /\ UNCHANGED <<bufferVars, historyVars, uploadVars, vars>>
       \/ /\ part = "history" /\ HistoryNext
          /\ UNCHANGED <<bufferVars, pacerVars, uploadVars, vars>>
       \/ /\ part = "uploads" /\ UploadsNext
          /\ UNCHANGED <<bufferVars, pacerVars, historyVars, vars>>
       \/ /\ part = "walk" /\ Next
          /\ UNCHANGED <<bufferVars, pacerVars, historyVars, uploadVars>>

QueuesSpec == QueuesInit /\ [][QueuesNext]_allVars

\* The type invariants of what is queued.
QueuesTypeOK == BuffersTypeOK /\ PacerTypeOK /\ HistoryTypeOK /\ UploadsTypeOK

=============================================================================
