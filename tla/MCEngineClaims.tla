--------------------------- MODULE MCEngineClaims ---------------------------
(***************************************************************************)
(* Instances of EngineClaims for TLC.                                      *)
(***************************************************************************)
EXTENDS EngineClaims, TLC

OneSetting == {1}
SettingsAlike == Permutations(Dests)

\* Bound: no fault while two settings are about, nor an edit after a fault.
EditOrFault ==
    used.faults > 0 =>
        /\ \A s \in Socks : socks[s].dest \in {row, NoDest}
        /\ \A a \in Apps : apps[a].dest \in {row, NoDest}

=============================================================================
