--------------------------- MODULE MCRestoreWalk ---------------------------
(***************************************************************************)
(* Instances of RestoreWalk for TLC.                                       *)
(***************************************************************************)
EXTENDS RestoreWalk

AllRequests == <<"NAMES", "TOPIC", "MODE">>
OneRequest  == <<"NAMES">>

=============================================================================
