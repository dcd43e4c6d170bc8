----------------------------- MODULE DriveLine ------------------------------
(***************************************************************************)
(* What ClawMotorController::WriteAndVerify promises its callers about the *)
(* serial line to the motor controller: exchanges (a frame and its answer) *)
(* follow one another, and the first exchange that fails is the last.      *)
(***************************************************************************)
CONSTANTS Callers,  \* the threads that drive motors
          None      \* no thread (not one of them)

VARIABLES user,  \* the thread whose exchange is under way, or None
          ok     \* FALSE once an exchange has failed

vars == <<user, ok>>

Init == user = None /\ ok = TRUE

Begin(t) == user = None /\ ok /\ user' = t /\ UNCHANGED ok
Finish   == user # None /\ ok /\ user' = None /\ UNCHANGED ok
Fail     == user # None /\ ok /\ ok' = FALSE /\ UNCHANGED user

Next == Finish \/ Fail \/ \E t \in Callers : Begin(t)

Spec == Init /\ [][Next]_vars
=============================================================================
