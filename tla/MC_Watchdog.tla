---------------------------- MODULE MC_Watchdog -----------------------------
(* Instances of Watchdog for TLC: two kinds of timeout, so that a wait can *)
(* outlive the timeout it was begun with.                                  *)
EXTENDS WatchdogTimes

CONSTANTS c1, c2
OneClient  == {c1}
TwoClients == {c1, c2}
MCTimeouts == {0, 1, 3}
OneTimeout == {2}
=============================================================================
