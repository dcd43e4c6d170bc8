------------------------- MODULE WatchdogTimesProofs -------------------------
(***************************************************************************)
(* Proofs about WatchdogTimes, for any number of clients, timeouts and     *)
(* listeners.  The invariant adds to that of the watchdog how the clocks   *)
(* compare.                                                                *)
(***************************************************************************)
EXTENDS WatchdogTimes, WatchdogProofs

(* The clocks only watch: forgetting them leaves a run of the watchdog, so *)
(* what holds of Spec holds of TSpec.                                      *)
THEOREM TimesRefine == TSpec => Spec
  <1>1. TInit => Init
    BY DEF TInit
  <1>2. [TNext]_tvars => [Next]_vars
    BY DEF TNext, TimedWork, TimedTick, Next, tvars
  <1>. QED BY <1>1, <1>2, PTL DEF TSpec, Spec

(* Dog's deadline is measured from after the last alert or heard kick, and *)
(* a kick since its gettimeofday cannot be older than the wait.            *)
Clocks ==
  /\ pc[Dog] \in {"get", "getLock", "lock", "wait"} => age <= calm
  /\ pc[Dog] = "wake" /\ timedOut => age <= calm /\ limit <= age
  /\ pc[Dog] = "wait" => age <= quiet + lag

TInv == IInv /\ TimesTypeOK /\ Clocks

(* Every initial state satisfies it.                                       *)
LEMMA InitTInv == TInit => TInv
  BY InitIInv, WatchdogAssumption
  DEF TInit, TInv, TimesTypeOK, Clocks, Init, IInv, TypeOK, Threads

(* The steps of the watchdog's thread.                                     *)
LEMMA DogTInv == ASSUME TInv, IInv', TimedWork, DogNext \/ DogSpurious
                 PROVE (TimesTypeOK /\ Clocks)'
  <1>. USE WatchdogAssumption
       DEF TInv, IInv, TypeOK, TimesTypeOK, Mutex, Clocks, Threads, Goto, config, local
  <1>1. ~Started /\ ~Kicked
    BY DEF Started, Kicked, DogNext, DogLoop, GetCheck, GetLocked, DogWait, DogTimeout,
           DogWake, DogCallback, DogUnlock, DogSpurious
  <1>2. /\ calm' = IF AlertBegins THEN 0 ELSE calm
        /\ quiet' = quiet
        /\ lag' = IF WaitBegins THEN age ELSE lag
    BY <1>1 DEF TimedWork
  <1>. USE <1>2 DEF AlertBegins, WaitBegins
  <1>3. CASE DogLoop BY <1>3 DEF DogLoop, ShouldKeepRunning
  <1>4. CASE GetCheck(Dog, "get", "lock") BY <1>4 DEF GetCheck
  <1>5. CASE GetLocked(Dog, "lock") BY <1>5 DEF GetLocked, GivesBack
  <1>6. CASE DogWait BY <1>6 DEF DogWait
  <1>7. CASE DogTimeout BY <1>7 DEF DogTimeout, Expired
  <1>8. CASE DogWake BY <1>8 DEF DogWake, MustAlert
  <1>9. CASE DogCallback BY <1>9 DEF DogCallback
  <1>10. CASE DogUnlock BY <1>10 DEF DogUnlock
  <1>11. CASE DogSpurious BY <1>11 DEF DogSpurious
  <1>. QED BY <1>3, <1>4, <1>5, <1>6, <1>7, <1>8, <1>9, <1>10, <1>11 DEF DogNext

(* The owner's steps: Start sets the clocks to 0, Stop's signal wakes Dog  *)
(* without a time-out.                                                     *)
LEMMA OwnerTInv == ASSUME TInv, IInv', TimedWork, OwnerNext
                   PROVE (TimesTypeOK /\ Clocks)'
  <1>. USE WatchdogAssumption
       DEF TInv, IInv, TypeOK, TimesTypeOK, Lifecycle, Clocks, Threads, Goto, config, local
  <1>1. ~Kicked /\ ~AlertBegins /\ ~WaitBegins
    BY DEF Kicked, AlertBegins, WaitBegins, OwnerNext, AddTimeoutCallback, Start,
           StopCheck, StopLocked, SignalAnd, StopJoin
  <1>2. /\ calm' = IF Started THEN 0 ELSE calm
        /\ quiet' = IF Started THEN 0 ELSE quiet
        /\ lag' = lag
    BY <1>1 DEF TimedWork
  <1>. USE <1>2 DEF Started
  <1>3. CASE AddTimeoutCallback BY <1>3 DEF AddTimeoutCallback
  <1>4. CASE Start BY <1>4 DEF Start
  <1>5. CASE StopCheck BY <1>5 DEF StopCheck
  <1>6. CASE StopLocked BY <1>6 DEF StopLocked, SignalAnd
  <1>7. CASE StopJoin BY <1>7 DEF StopJoin
  <1>. QED BY <1>3, <1>4, <1>5, <1>6, <1>7 DEF OwnerNext

(* The clients' steps: only KickLocked touches a clock.                    *)
LEMMA ClientTInv == ASSUME TInv, IInv', TimedWork, NEW c \in Clients, ClientNext(c)
                    PROVE (TimesTypeOK /\ Clocks)'
  <1>. USE WatchdogAssumption
       DEF TInv, IInv, TypeOK, TimesTypeOK, Clocks, Threads, Goto, config, local
  <1>1. ~Started /\ ~AlertBegins /\ ~WaitBegins
    BY DEF Started, AlertBegins, WaitBegins, ClientNext, ClientFinish, KickCheck,
           SetTimeoutCheck, ClientGet, GetCheck, KickLocked, SignalAnd,
           SetTimeoutLocked, GetLocked
  <1>2. /\ calm' \in {0, calm} /\ quiet' \in {0, quiet} /\ lag' = lag
        /\ ~Kicked => calm' = calm /\ quiet' = quiet
    BY <1>1 DEF TimedWork
  <1>3. CASE KickLocked(c)
    <2>1. pc[Dog] = "wait" => pc'[Dog] = "wake" /\ ~timedOut'
      BY <1>3 DEF KickLocked, SignalAnd
    <2>2. pc[Dog] # "wait" => pc'[Dog] = pc[Dog] /\ timedOut' = timedOut
                              /\ (calm' = calm)
      BY <1>1, <1>3 DEF KickLocked, SignalAnd, TimedWork
    <2>3. age' = age /\ limit' = limit
      BY <1>3 DEF KickLocked
    <2>. QED BY <1>2, <2>1, <2>2, <2>3
  <1>4. CASE ~KickLocked(c)
    <2>1. ~Kicked
      BY <1>4 DEF Kicked, ClientNext, ClientFinish, KickCheck, SetTimeoutCheck,
                  ClientGet, GetCheck, SetTimeoutLocked, GetLocked
    <2>2. pc'[Dog] = pc[Dog] /\ UNCHANGED <<timedOut, age, limit>>
      BY <1>4 DEF ClientNext, ClientFinish, KickCheck, SetTimeoutCheck,
                  ClientGet, GetCheck, SetTimeoutLocked, GetLocked
    <2>. QED BY <1>2, <2>1, <2>2
  <1>. QED BY <1>3, <1>4

(* Every timed step, and the stutter, keeps the invariant.                 *)
LEMMA NextTInv == TInv /\ [TNext]_tvars => TInv'
  <1>. SUFFICES ASSUME TInv, [TNext]_tvars PROVE TInv'
    OBVIOUS
  <1>1. IInv'
    BY NextIInv DEF TInv, TNext, TimedWork, TimedTick, Next, tvars
  <1>2. CASE TimedWork
    <2>1. DogNext \/ DogSpurious \/ OwnerNext \/ \E c \in Clients : ClientNext(c)
      BY <1>2 DEF TimedWork, Work
    <2>. QED BY <1>1, <1>2, <2>1, DogTInv, OwnerTInv, ClientTInv DEF TInv
  <1>3. CASE TimedTick
    BY <1>1, <1>3, WatchdogAssumption
    DEF TInv, IInv, TypeOK, TimesTypeOK, Clocks, TimedTick, Tick, Older, config, local
  <1>4. CASE UNCHANGED tvars
    BY <1>1, <1>4 DEF TInv, TimesTypeOK, TypeOK, Clocks, tvars, vars, config, local
  <1>. QED BY <1>2, <1>3, <1>4 DEF TNext

(* It holds in every reachable state of the timed watchdog.                *)
LEMMA TimedInvariance == TSpec => []TInv
  BY InitTInv, NextTInv, PTL DEF TSpec

(* The clocks, too, keep their type.                                       *)
THEOREM TimesTypeCorrect == TSpec => []TimesTypeOK
  <1>1. TInv => TimesTypeOK
    BY DEF TInv
  <1>. QED BY <1>1, TimedInvariance, PTL

-----------------------------------------------------------------------------
(* A step at which an alert begins is DogWake after a time-out, and one at *)
(* which the wait times out is DogTimeout.                                 *)
LEMMA WhoSteps == ASSUME IInv, Work
                  PROVE /\ AlertBegins => timedOut
                        /\ TimesOut => age >= limit /\ UNCHANGED <<limit, age>>
  <1>. USE WatchdogAssumption
       DEF AlertBegins, TimesOut, IInv, TypeOK, Threads, Goto, config, local
  <1>1. CASE DogNext
    BY <1>1
    DEF DogNext, DogLoop, GetCheck, GetLocked, DogWait, DogTimeout, Expired, DogWake,
        MustAlert, DogCallback, DogUnlock
  <1>2. CASE OwnerNext
    BY <1>2
    DEF OwnerNext, AddTimeoutCallback, Start, StopCheck, StopLocked, SignalAnd, StopJoin
  <1>3. ASSUME NEW c \in Clients, ClientNext(c) PROVE ~AlertBegins /\ ~TimesOut
    BY <1>3
    DEF ClientNext, ClientFinish, KickCheck, SetTimeoutCheck, ClientGet, GetCheck,
        KickLocked, SignalAnd, SetTimeoutLocked, GetLocked
  <1>4. CASE DogSpurious
    BY <1>4 DEF DogSpurious
  <1>. QED BY <1>1, <1>2, <1>3, <1>4 DEF Work

(* Alerts keep a whole timeout's distance from Start, from one another and *)
(* from every kick that found the thread waiting.                          *)
THEOREM AlertsAreSpaced == TSpec => AlertSpacing
  <1>1. TInv /\ [TNext]_tvars => [AlertBegins => calm >= limit]_tvars
    <2>. SUFFICES ASSUME TInv, TNext, AlertBegins PROVE calm >= limit
      BY DEF TInv
    <2>1. timedOut
      BY WhoSteps DEF TInv, TNext, TimedWork, TimedTick, Tick, AlertBegins
    <2>. QED BY <2>1, WatchdogAssumption
             DEF TInv, IInv, TypeOK, TimesTypeOK, Clocks, AlertBegins
  <1>. QED BY <1>1, TimedInvariance, PTL DEF TSpec, AlertSpacing

(* No wait times out within the timeout of a kick, heard or lost, but for  *)
(* what the thread took from reading the time to its wait.                 *)
THEOREM KicksDefer == TSpec => KickDefersWait
  <1>1. TInv /\ [TNext]_tvars => [TimesOut => quiet + lag >= limit]_tvars
    <2>. SUFFICES ASSUME TInv, TNext, TimesOut PROVE quiet + lag >= limit
      BY DEF TInv
    <2>1. age >= limit
      BY WhoSteps DEF TInv, TNext, TimedWork, TimedTick, Tick, TimesOut
    <2>. QED BY <2>1, WatchdogAssumption
             DEF TInv, IInv, TypeOK, TimesTypeOK, Clocks, TimesOut
  <1>. QED BY <1>1, TimedInvariance, PTL DEF TSpec, KickDefersWait
=============================================================================
