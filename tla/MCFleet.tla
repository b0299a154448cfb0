------------------------------ MODULE MCFleet ------------------------------
(***************************************************************************)
(* Instances of FleetOperations for TLC.                                   *)
(***************************************************************************)
EXTENDS FleetOperations, TLC

CONSTANTS d1, c1, c2, c3

OneDevice == {d1}
ThreeCommands == {c1, c2, c3}

Good == [online |-> TRUE, firmware |-> TRUE, driver |-> TRUE, contradiction |-> FALSE,
         selfTest |-> TRUE, flags |-> {}]

\* A healthy report, one without firmware and an offline one full of risks.
SmallReports == {Good, [Good EXCEPT !.firmware = FALSE],
                 [Good EXCEPT !.online = FALSE, !.flags = Flags]}

Interchangeable == Permutations(ThreeCommands)
=============================================================================
