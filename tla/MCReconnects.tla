---------------------------- MODULE MCReconnects ----------------------------
(***************************************************************************)
(* Instances of Reconnects for TLC: two networks on two hosts, the second  *)
(* one through a proxy and to the only host the closed instance lists.     *)
(***************************************************************************)
EXTENDS Reconnects

TwoHosts == <<"a", "b">>
OneList == {Unlisted, [held |-> TRUE, hosts |-> {"b"}]}

=============================================================================
