------------------------------- MODULE MCPos -------------------------------
(***************************************************************************)
(* Instances of PosRouter for TLC.                                         *)
(***************************************************************************)
EXTENDS PosRouter

CONSTANTS w1, w2, k1, p1, p2

TwoWorkers == {w1, w2}
OneKey == {k1}
TwoPayloads == {p1, p2}
OnePayload == {p1}
=============================================================================
