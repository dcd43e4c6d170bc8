---------------------------- MODULE WatchdogTimes ----------------------------
(***************************************************************************)
(* Watchdog with three clocks that only remember: they say how the alerts, *)
(* the kicks and the waits of a run are spaced in time.                    *)
(***************************************************************************)
EXTENDS Watchdog

VARIABLES
  calm,   \* ticks since Start, the last alert, or the last kick that woke Dog
  quiet,  \* ticks since Start or the last kick
  lag     \* what Dog took from its gettimeofday to its wait

tvars == <<vars, calm, quiet, lag>>

TInit == Init /\ calm = 0 /\ quiet = 0 /\ lag = 0

Started     == pc[Owner] = "off" /\ pc'[Owner] = "on"
Kicked      == \E c \in Clients : pc[c] = "kick" /\ pc'[c] = "idle"
WaitBegins  == pc[Dog] = "lock" /\ pc'[Dog] = "wait"
TimesOut    == pc[Dog] = "wait" /\ pc'[Dog] = "wake" /\ timedOut'
AlertBegins == pc[Dog] = "wake" /\ pc'[Dog] = "alert"

TimedWork ==
  /\ Work
  /\ calm' = IF Started \/ AlertBegins \/ (Kicked /\ pc[Dog] = "wait") THEN 0 ELSE calm
  /\ quiet' = IF Started \/ Kicked THEN 0 ELSE quiet
  /\ lag' = IF WaitBegins THEN age ELSE lag

TimedTick ==
  /\ Tick
  /\ calm' = Older(calm) /\ quiet' = Older(quiet) /\ UNCHANGED lag

TNext == TimedWork \/ TimedTick

TSpec == TInit /\ [][TNext]_tvars

TFairSpec == TSpec /\ Fairness

-----------------------------------------------------------------------------
TimesTypeOK == TypeOK /\ {calm, quiet, lag} \subseteq 0..Horizon

(* An alert begins at least a whole timeout after the last alert, after    *)
(* Start, and after the last kick that found the thread waiting.           *)
AlertSpacing == [][AlertBegins => calm >= limit]_tvars

(* A kick, heard or lost, keeps the wait from timing out for a timeout     *)
(* less what the thread took from reading the time to its wait.            *)
KickDefersWait == [][TimesOut => quiet + lag >= limit]_tvars
=============================================================================
