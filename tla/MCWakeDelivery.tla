---------------------------- MODULE MCWakeDelivery ----------------------------
(* A small instance of WakeDelivery for TLC. *)
EXTENDS WakeDelivery, TLC

CONSTANTS e1, e2, k1

TwoEve == {e1, e2}
OneConnector == {k1}

CallSymmetry == Permutations(EveCall)
================================================================================
