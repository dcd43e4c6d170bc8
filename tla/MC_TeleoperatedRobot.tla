------------------------ MODULE MC_TeleoperatedRobot ------------------------
(* Instances of TeleoperatedRobot for TLC.                                 *)
EXTENDS TeleoperatedRobot

CONSTANTS n1, n2
OneConn    == {n1}
TwoConns   == {n1, n2}
OneTimeout == {0, 1}
AnyMoves   == SUBSET Wheels
Ahead      == {Wheels}
Drives     == {"cmd"}
Commands   == {"cmd", "other"}
=============================================================================
