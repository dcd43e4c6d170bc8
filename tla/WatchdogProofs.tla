--------------------------- MODULE WatchdogProofs ---------------------------
(***************************************************************************)
(* Proofs about Watchdog, for any number of clients, timeouts and          *)
(* listeners.  The inductive invariant says where each thread can be while *)
(* the mutex is kept or KeepRunning is down.                               *)
(***************************************************************************)
EXTENDS Watchdog, TLAPS

(* KeepRunning is up exactly between Start and the locked part of Stop,    *)
(* clients are inside only then, and Stop's end finds the thread gone.     *)
Lifecycle ==
  /\ keepRunning <=> pc[Owner] \in {"on", "stopping"}
  /\ pc[Owner] # "on" => \A c \in Clients : pc[c] = "idle"
  /\ pc[Owner] = "off" => pc[Dog] \in {"none", "exited"}

(* Who keeps the mutex, and what an alert implies.                         *)
Mutex ==
  /\ holder = Dog => pc[Dog] = "alert" \/ (pc[Dog] = "lock" /\ pc[Owner] = "joining")
  /\ pc[Dog] = "alert" => holder = Dog /\ keepRunning

IInv == TypeOK /\ Lifecycle /\ Mutex

-----------------------------------------------------------------------------
(* A timeout that was not refused is a whole number of ticks, none of them *)
(* beyond the horizon.                                                     *)
LEMMA AllowedPositive == Allowed \subseteq 1..Horizon
  <1>. SUFFICES ASSUME NEW m \in Timeouts, m > 0 PROVE m \in 1..Horizon
    BY DEF Allowed
  <1>1. m \in 0..Horizon
    BY WatchdogAssumption
  <1>. QED BY <1>1, WatchdogAssumption

(* Every initial state satisfies the inductive invariant.                  *)
LEMMA InitIInv == Init => IInv
  <1>. SUFFICES ASSUME Init PROVE IInv
    OBVIOUS
  <1>. USE WatchdogAssumption DEF Init, Threads
  <1>1. pc[Dog] = "none" /\ pc[Owner] = "off" /\ \A c \in Clients : pc[c] = "idle"
    OBVIOUS
  <1>2. TypeOK
    <2>1. pc \in [Threads -> DogPC \cup OwnerPC \cup ClientPC]
      BY DEF DogPC, OwnerPC, ClientPC
    <2>2. listeners \in 0..MaxListeners /\ called \in 0..MaxListeners
      OBVIOUS
    <2>3. timeout \in 1..Horizon /\ limit \in 1..Horizon /\ age \in 0..Horizon
      BY AllowedPositive
    <2>. QED BY <1>1, <2>1, <2>2, <2>3 DEF TypeOK, DogPC, OwnerPC, ClientPC
  <1>. QED BY <1>1, <1>2 DEF IInv, Lifecycle, Mutex

(* The steps of the watchdog's thread.                                     *)
LEMMA DogIInv == ASSUME IInv, DogNext \/ DogSpurious PROVE IInv'
  <1>. USE WatchdogAssumption DEF IInv, TypeOK, Lifecycle, Mutex,
           Threads, DogPC, OwnerPC, ClientPC, Goto, config, local
  <1>1. CASE DogLoop BY <1>1 DEF DogLoop, ShouldKeepRunning
  <1>2. CASE GetCheck(Dog, "get", "lock") BY <1>2 DEF GetCheck
  <1>3. CASE GetLocked(Dog, "lock") BY <1>3 DEF GetLocked, GivesBack
  <1>4. CASE DogWait BY <1>4 DEF DogWait
  <1>5. CASE DogTimeout BY <1>5 DEF DogTimeout, Expired
  <1>6. CASE DogWake BY <1>6 DEF DogWake, MustAlert
  <1>7. CASE DogCallback BY <1>7 DEF DogCallback
  <1>8. CASE DogUnlock BY <1>8 DEF DogUnlock
  <1>9. CASE DogSpurious BY <1>9 DEF DogSpurious
  <1>. QED BY <1>1, <1>2, <1>3, <1>4, <1>5, <1>6, <1>7, <1>8, <1>9 DEF DogNext

(* The owner's steps.                                                      *)
LEMMA OwnerIInv == ASSUME IInv, OwnerNext PROVE IInv'
  <1>. USE WatchdogAssumption DEF IInv, TypeOK, Lifecycle, Mutex,
           Threads, DogPC, OwnerPC, ClientPC, Goto, config, local
  <1>1. CASE AddTimeoutCallback BY <1>1 DEF AddTimeoutCallback
  <1>2. CASE Start BY <1>2 DEF Start
  <1>3. CASE StopCheck BY <1>3 DEF StopCheck
  <1>4. CASE StopLocked BY <1>4 DEF StopLocked, SignalAnd
  <1>5. CASE StopJoin BY <1>5 DEF StopJoin, Joined
  <1>. QED BY <1>1, <1>2, <1>3, <1>4, <1>5 DEF OwnerNext

(* The clients' steps.                                                     *)
LEMMA ClientIInv == ASSUME IInv, NEW c \in Clients, ClientNext(c) PROVE IInv'
  <1>. USE WatchdogAssumption DEF IInv, TypeOK, Lifecycle, Mutex,
           Threads, DogPC, OwnerPC, ClientPC, Goto, config, local
  <1>1. CASE KickCheck(c) BY <1>1 DEF KickCheck
  <1>2. CASE SetTimeoutCheck(c)
    <2>1. timeout' \in 1..Horizon
      <3>1. timeout' = timeout \/ timeout' \in Allowed
        BY <1>2 DEF SetTimeoutCheck
      <3>. QED BY <3>1, AllowedPositive
    <2>2. CASE keepRunning
      BY <1>2, <2>1, <2>2 DEF SetTimeoutCheck
    <2>3. CASE ~keepRunning
      <3>1. UNCHANGED <<pc, keepRunning, listeners, holder, limit, timedOut, called, age>>
        BY <1>2, <2>3 DEF SetTimeoutCheck
      <3>. QED BY <2>1, <3>1
    <2>. QED BY <2>2, <2>3
  <1>3. CASE ClientGet(c) BY <1>3 DEF ClientGet, GetCheck
  <1>4. CASE KickLocked(c)
    <2>. USE <1>4 DEF KickLocked, SignalAnd
    <2>1. TypeOK'
      <3>1. timedOut' \in BOOLEAN
        BY ZenonT(20)
      <3>2. pc'[Dog] \in DogPC /\ pc'[c] = "idle"
            /\ \A t \in Threads \ {Dog, c} : pc'[t] = pc[t]
        OBVIOUS
      <3>3. pc' \in [Threads -> DogPC \cup OwnerPC \cup ClientPC]
        OBVIOUS
      <3>5. pc'[Owner] = pc[Owner] /\ \A d \in Clients : pc'[d] \in ClientPC
        BY <3>2
      <3>. HIDE DEF KickLocked
      <3>6. /\ UNCHANGED <<keepRunning, timeout, listeners, holder, limit, called, age>>
        BY DEF KickLocked
      <3>. QED BY <3>1, <3>2, <3>3, <3>5, <3>6
    <2>2. Lifecycle' OBVIOUS
    <2>3. Mutex' OBVIOUS
    <2>. QED BY <2>1, <2>2, <2>3
  <1>5. CASE SetTimeoutLocked(c) BY <1>5, AllowedPositive DEF SetTimeoutLocked
  <1>6. CASE GetLocked(c, "idle") BY <1>6 DEF GetLocked, GivesBack
  <1>. QED BY <1>1, <1>2, <1>3, <1>4, <1>5, <1>6 DEF ClientNext, ClientFinish

(* The clock.                                                              *)
LEMMA TickIInv == ASSUME IInv, Tick PROVE IInv'
  BY WatchdogAssumption
  DEF IInv, TypeOK, Lifecycle, Mutex, Threads, DogPC, OwnerPC, ClientPC,
      Tick, Older, config, local

(* Every step, and the stutter, keeps the inductive invariant.             *)
LEMMA NextIInv == IInv /\ [Next]_vars => IInv'
  <1>. SUFFICES ASSUME IInv, [Next]_vars PROVE IInv'
    OBVIOUS
  <1>1. CASE UNCHANGED vars
    BY <1>1 DEF IInv, TypeOK, Lifecycle, Mutex, vars, config, local
  <1>. QED BY <1>1, DogIInv, OwnerIInv, ClientIInv, TickIInv DEF Next, Work

(* The inductive invariant holds in every reachable state.                 *)
LEMMA Invariance == Spec => []IInv
  BY InitIInv, NextIInv, PTL DEF Spec

-----------------------------------------------------------------------------
(* Every variable keeps its type: in particular no client ever keeps the   *)
(* mutex across a call (GetTimeoutMillis can leave it locked).             *)
THEOREM TypeCorrect == Spec => []TypeOK
  <1>1. IInv => TypeOK
    BY DEF IInv
  <1>. QED BY <1>1, Invariance, PTL

(* Listeners run only between Start and Stop, with the mutex kept.         *)
THEOREM AlertsOnlyWhileRunning == Spec => []AlertDuringRun
  <1>1. IInv => AlertDuringRun
    BY DEF IInv, Lifecycle, Mutex, AlertDuringRun
  <1>. QED BY <1>1, Invariance, PTL

(* After Stop the thread is gone, and the mutex destroyed was free.        *)
THEOREM StopLeavesNothing == Spec => []StoppedMeansGone
  <1>1. IInv => StoppedMeansGone
    BY DEF IInv, TypeOK, Lifecycle, Mutex, StoppedMeansGone
  <1>. QED BY <1>1, Invariance, PTL

(* Only an alert, or the thread Stop caught in GetTimeoutMillis, keeps the *)
(* mutex: the watchdog never deadlocks on itself but inside Stop.          *)
THEOREM MutexKeptOnlySo == Spec => []MutexKept
  <1>1. IInv => MutexKept
    BY DEF IInv, TypeOK, Mutex, MutexKept, Stuck
  <1>. QED BY <1>1, Invariance, PTL
=============================================================================
