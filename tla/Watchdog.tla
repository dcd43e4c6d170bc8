------------------------------ MODULE Watchdog ------------------------------
(***************************************************************************)
(* clank/lib/timers/Watchdog.cpp: a thread (Dog) that calls the registered *)
(* listeners whenever nobody kicked it for TimeoutMs.  The Owner starts    *)
(* and stops it, Clients kick it and change its timeout.                   *)
(*                                                                         *)
(* One mutex guards the condition variable.  A section that takes the      *)
(* mutex, touches only what the mutex guards and gives it back is one      *)
(* step here; `holder' shows the mutex where it is kept across steps: by   *)
(* Alert, and by a GetTimeoutMillis that skips its unlock.                 *)
(*                                                                         *)
(* Time is a tick.  The deadline of pthread_cond_timedwait is absolute     *)
(* (gettimeofday + TimeoutMs), so it has passed once `age', the ticks      *)
(* since gettimeofday, is at least `limit', the timeout that was read.     *)
(* The clock saturates at Horizon, which no timeout exceeds.               *)
(*                                                                         *)
(* Usage contract (as in TeleoperatedRobot and the unit test): Stop is     *)
(* called when no client call is in progress.                              *)
(***************************************************************************)
EXTENDS Integers

CONSTANTS Dog, Owner,     \* the watchdog thread; the thread that starts it
          None,           \* no thread: the mutex is free
          Clients,        \* the threads that kick it
          Timeouts,       \* timeouts that clients ask for, in ticks
          Horizon,        \* where the clock saturates
          MaxListeners,   \* bound on AddTimeoutCallback
          Spurious        \* TRUE: pthread_cond_timedwait may wake spuriously

ASSUME WatchdogAssumption ==
  /\ None \notin Clients \cup {Dog, Owner}
  /\ Dog # Owner /\ Dog \notin Clients /\ Owner \notin Clients
  /\ Horizon \in Nat /\ MaxListeners \in Nat
  /\ Timeouts \subseteq 0..Horizon /\ \E m \in Timeouts : m > 0
  /\ Spurious \in BOOLEAN

Threads == Clients \cup {Dog, Owner}

VARIABLES
  pc,           \* where each thread is
  keepRunning,  \* KeepRunning
  timeout,      \* TimeoutMs
  listeners,    \* TimeoutListeners.size()
  holder,       \* who keeps WatchdogThreadMutex across steps
  limit,        \* Dog: the timeout of the current wait
  timedOut,     \* Dog: returnCode = ETIMEDOUT
  called,       \* Dog: listeners called by the current Alert
  age           \* ticks since Dog's gettimeofday

config  == <<keepRunning, timeout, listeners>>
local   == <<limit, timedOut, called>>
vars    == <<pc, config, holder, local, age>>

DogPC    == {"none", "loop", "get", "getLock", "lock", "wait", "wake",
             "alert", "exited"}
OwnerPC  == {"off", "on", "stopping", "joining"}
ClientPC == {"idle", "kick", "set", "getLock"}

(* SetTimeoutMillis refuses, as the constructor does, a timeout of 0.      *)
Allowed_Any == Timeouts
Allowed == {m \in Timeouts : m > 0}

Init ==
  /\ pc = [t \in Threads |-> IF t = Dog THEN "none"
                             ELSE IF t = Owner THEN "off" ELSE "idle"]
  /\ keepRunning = FALSE
  /\ timeout \in Allowed
  /\ listeners = 0
  /\ holder = None
  /\ limit \in Allowed
  /\ timedOut = FALSE
  /\ called = 0
  /\ age = 0

Goto(t, l) == pc' = [pc EXCEPT ![t] = l]

-----------------------------------------------------------------------------
(* pthread_cond_signal: wakes Dog if it waits, is lost otherwise.          *)
SignalAnd_NoSignal(t, l) == Goto(t, l) /\ UNCHANGED timedOut
SignalAnd(t, l) ==
  /\ pc' = [pc EXCEPT ![t] = l, ![Dog] = IF @ = "wait" THEN "wake" ELSE @]
  /\ timedOut' = IF pc[Dog] = "wait" THEN FALSE ELSE timedOut

(* GetTimeoutMillis, to the test of KeepRunning at 104; without the lock   *)
(* it reads TimeoutMs straight away.                                       *)
GetCheck(t, from, next) ==
  /\ pc[t] = from
  /\ Goto(t, IF keepRunning THEN "getLock" ELSE next)
  /\ limit' = IF t = Dog /\ ~keepRunning THEN timeout ELSE limit
  /\ UNCHANGED <<config, holder, timedOut, called, age>>

(* GetTimeoutMillis from the lock on: KeepRunning is tested again, and the *)
(* mutex is given back only if it still holds.                             *)
GivesBack_Never == FALSE
GivesBack == keepRunning
GetLocked(t, next) ==
  /\ pc[t] = "getLock" /\ holder = None
  /\ holder' = IF GivesBack THEN None ELSE t
  /\ limit' = IF t = Dog THEN timeout ELSE limit
  /\ Goto(t, next)
  /\ UNCHANGED <<config, timedOut, called, age>>

-----------------------------------------------------------------------------
(* WatchdogThreadFxn: another round of the loop, from gettimeofday.        *)
ShouldKeepRunning_Always == TRUE
ShouldKeepRunning == keepRunning

DogLoop ==
  /\ pc[Dog] = "loop"
  /\ Goto(Dog, IF ShouldKeepRunning THEN "get" ELSE "exited")
  /\ age' = IF ShouldKeepRunning THEN 0 ELSE age
  /\ UNCHANGED <<config, holder, local>>

(* Locks the mutex; pthread_cond_timedwait gives it back at once.          *)
DogWait ==
  /\ pc[Dog] = "lock" /\ holder = None
  /\ Goto(Dog, "wait")
  /\ UNCHANGED <<config, holder, local, age>>

Expired_Early == age + 1 >= limit
Expired == age >= limit

DogTimeout ==
  /\ pc[Dog] = "wait" /\ Expired
  /\ Goto(Dog, "wake") /\ timedOut' = TRUE
  /\ UNCHANGED <<config, holder, limit, called, age>>

DogSpurious ==
  /\ Spurious /\ pc[Dog] = "wait"
  /\ Goto(Dog, "wake") /\ timedOut' = FALSE
  /\ UNCHANGED <<config, holder, limit, called, age>>

(* pthread_cond_timedwait returns with the mutex: alert, or unlock.        *)
MustAlert_Unchecked == timedOut
MustAlert == timedOut /\ keepRunning

DogWake ==
  /\ pc[Dog] = "wake" /\ holder = None
  /\ IF MustAlert
     THEN Goto(Dog, "alert") /\ holder' = Dog /\ called' = 0
     ELSE Goto(Dog, "loop") /\ UNCHANGED <<holder, called>>
  /\ UNCHANGED <<config, limit, timedOut, age>>

(* Alert: the next listener, or the unlock after the last one.             *)
DogCallback ==
  /\ pc[Dog] = "alert" /\ called < listeners
  /\ called' = called + 1
  /\ UNCHANGED <<pc, config, holder, limit, timedOut, age>>

DogUnlock ==
  /\ pc[Dog] = "alert" /\ called = listeners
  /\ holder' = None /\ Goto(Dog, "loop")
  /\ UNCHANGED <<config, local, age>>

DogNext == \/ DogLoop \/ GetCheck(Dog, "get", "lock") \/ GetLocked(Dog, "lock")
           \/ DogWait \/ DogTimeout \/ DogWake \/ DogCallback \/ DogUnlock

-----------------------------------------------------------------------------
(* The owner: AddTimeoutCallback, Start, Stop (also run by ~Watchdog).     *)
AddTimeoutCallback ==
  /\ pc[Owner] = "off" /\ listeners < MaxListeners
  /\ listeners' = listeners + 1
  /\ UNCHANGED <<pc, keepRunning, timeout, holder, local, age>>

Start ==
  /\ pc[Owner] = "off" /\ \A c \in Clients : pc[c] = "idle"
  /\ pc' = [pc EXCEPT ![Owner] = "on", ![Dog] = "loop"]
  /\ keepRunning' = TRUE
  /\ UNCHANGED <<timeout, listeners, holder, local, age>>

StopCheck ==
  /\ pc[Owner] = "on" /\ \A c \in Clients : pc[c] = "idle"
  /\ Goto(Owner, "stopping")
  /\ UNCHANGED <<config, holder, local, age>>

StopLocked ==
  /\ pc[Owner] = "stopping" /\ holder = None
  /\ keepRunning' = FALSE
  /\ SignalAnd(Owner, "joining")
  /\ UNCHANGED <<timeout, listeners, holder, limit, called, age>>

(* pthread_join, then the condition and the mutex are destroyed.           *)
Joined_Detached == TRUE
Joined == pc[Dog] = "exited"

StopJoin ==
  /\ pc[Owner] = "joining" /\ Joined
  /\ Goto(Owner, "off")
  /\ UNCHANGED <<config, holder, local, age>>

-----------------------------------------------------------------------------
(* Clients: Kick, SetTimeoutMillis and GetTimeoutMillis.                   *)
KickCheck(c) ==
  /\ pc[Owner] = "on" /\ pc[c] = "idle" /\ keepRunning
  /\ Goto(c, "kick")
  /\ UNCHANGED <<config, holder, local, age>>

KickLocked(c) ==
  /\ pc[c] = "kick" /\ holder = None
  /\ SignalAnd(c, "idle")
  /\ UNCHANGED <<config, holder, limit, called, age>>

SetTimeoutCheck(c) ==
  /\ pc[Owner] \in {"off", "on"} /\ pc[c] = "idle"
  /\ IF keepRunning THEN Goto(c, "set") /\ UNCHANGED timeout
     ELSE timeout' \in Allowed /\ UNCHANGED pc
  /\ UNCHANGED <<keepRunning, listeners, holder, local, age>>

SetTimeoutLocked(c) ==
  /\ pc[c] = "set" /\ holder = None
  /\ timeout' \in Allowed
  /\ Goto(c, "idle")
  /\ UNCHANGED <<keepRunning, listeners, holder, local, age>>

ClientGet(c) == pc[Owner] = "on" /\ GetCheck(c, "idle", "idle")

ClientFinish(c) == KickLocked(c) \/ SetTimeoutLocked(c) \/ GetLocked(c, "idle")

-----------------------------------------------------------------------------
(* A tick of the clock.                                                    *)
Older(n) == IF n < Horizon THEN n + 1 ELSE n
Tick == age' = Older(age) /\ UNCHANGED <<pc, config, holder, local>>

OwnerNext == AddTimeoutCallback \/ Start \/ StopCheck \/ StopLocked \/ StopJoin

ClientNext(c) == \/ KickCheck(c) \/ SetTimeoutCheck(c) \/ ClientGet(c)
                 \/ ClientFinish(c)

Work == \/ DogNext \/ DogSpurious \/ OwnerNext
        \/ \E c \in Clients : ClientNext(c)

Next == Work \/ Tick

Spec == Init /\ [][Next]_vars

(* The scheduler runs every thread that can run, time passes, and a mutex  *)
(* that is free again and again is eventually granted to Stop.  Nobody has *)
(* to start a call; one that began goes on.                                *)
Fairness == /\ WF_vars(DogNext) /\ WF_vars(Tick)
            /\ SF_vars(StopLocked) /\ WF_vars(StopJoin)
            /\ \A c \in Clients : SF_vars(ClientFinish(c))

FairSpec == Spec /\ Fairness

-----------------------------------------------------------------------------
TypeOK ==
  /\ pc \in [Threads -> DogPC \cup OwnerPC \cup ClientPC]
  /\ pc[Dog] \in DogPC /\ pc[Owner] \in OwnerPC
  /\ \A c \in Clients : pc[c] \in ClientPC
  /\ keepRunning \in BOOLEAN /\ timedOut \in BOOLEAN
  /\ timeout \in 1..Horizon /\ limit \in 1..Horizon
  /\ listeners \in 0..MaxListeners /\ called \in 0..MaxListeners
  /\ holder \in {None, Dog}
  /\ age \in 0..Horizon

(* Listeners are called only between Start and Stop, and with the mutex    *)
(* kept, so that a Stop that has changed KeepRunning sees no listener      *)
(* running and none begins after it (the second test at 37).               *)
AlertDuringRun ==
  pc[Dog] = "alert" => keepRunning /\ holder = Dog /\ pc[Owner] \in {"on", "stopping"}

(* When Stop has returned the thread is gone and nobody holds the mutex it *)
(* destroyed; while it joins, no client is inside the watchdog.            *)
StoppedMeansGone ==
  /\ pc[Owner] = "off" => pc[Dog] \in {"none", "exited"} /\ holder = None /\ ~keepRunning
  /\ pc[Owner] = "joining" => \A c \in Clients : pc[c] = "idle"

(* The mutex is kept across steps by an Alert, or by the one thread that   *)
(* Stop caught inside GetTimeoutMillis; so a thread can wait for a mutex   *)
(* it holds itself only when Stop has begun to join it.                    *)
Stuck == holder = Dog /\ pc[Dog] = "lock"
MutexKept == holder # None => pc[Dog] = "alert" \/ (Stuck /\ pc[Owner] = "joining")

(* If from some time on the watchdog runs and nobody calls it or wakes it  *)
(* without cause, its alerts never cease, whatever happened before.        *)
Undisturbed == pc[Owner] = "on" /\ \A c \in Clients : pc[c] = "idle"
AlertsKeepComing ==
  <>[]Undisturbed /\ <>[][~DogSpurious]_vars => []<>(pc[Dog] = "alert")

(* A Stop that was begun returns.                                          *)
StopReturns == pc[Owner] = "stopping" ~> pc[Owner] = "off"

(* ... and it does unless it found the thread inside GetTimeoutMillis.     *)
StopReturnsElsewhere ==
  (pc[Owner] = "joining" /\ pc[Dog] # "getLock" /\ ~Stuck) ~> pc[Owner] = "off"
=============================================================================
