-------------------------------- MODULE MCArming --------------------------------
(* Small instances of Arming for TLC. *)
EXTENDS Arming

CONSTANTS e1, k1, t1, t2

OneEve == {e1}
OneConnector == {k1}
NoCall == {}
OneTurn == {t1}
TwoTurn == {t1, t2}
================================================================================
