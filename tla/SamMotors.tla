----------------------------- MODULE SamMotors ------------------------------
(***************************************************************************)
(* clank/lib/motor/LiteMotor and VHN2Motor: motors made of pins of the SAM.*)
(* A process has one motor, of the kind fixed at Init, or uses its pins    *)
(* directly (kind none).                                                   *)
(***************************************************************************)
EXTENDS Sam

CONSTANTS Pulse,       \* the PWM pin of either motor
          DirPin,      \* LiteMotor's direction pin, VHN2Motor's PinA
          PinB,        \* VHN2Motor's other pin
          Direct,      \* the pins a process without a motor uses
          Programs     \* kinds considered, each with its bound on work

ASSUME MotorAssumption ==
  /\ Pulse \in Pwm /\ DirPin \in Gpio /\ PinB \in Gpio /\ DirPin # PinB
  /\ Direct \subseteq Pins /\ 0 \in Speeds /\ -1 \in Ramps
  /\ Programs \subseteq {"none", "lite", "vhn2"} \X (0..MaxWork)

VARIABLES kind,
          velocity  \* the velocity last asked for, None without a motor

motors == <<kind, velocity>>
allVars == <<vars, motors>>

MotorsInit == /\ \E q \in Programs : kind = q[1] /\ work = q[2]
              /\ Init /\ velocity = None

Velocities == Speeds \cup {-s : s \in Speeds}
Magnitude(v) == IF v < 0 THEN -v ELSE v

(* Mutant: forward and backward are swapped.                               *)
Forward_Swapped(v) == IF v < 0 THEN "Hi" ELSE "Low"

Forward(v)  == IF v > 0 THEN "Hi" ELSE "Low"
Backward(v) == IF v < 0 THEN "Hi" ELSE "Low"

(* SetVelocity: the direction first, then the pulse.  A LiteMotor keeps    *)
(* its direction when told to stop.                                        *)
SetVelocity(v) ==
  LET dir   == Set(DirPin, "val", Forward(v))
      pulse == Set(Pulse, "val", Magnitude(v))
  IN  CASE kind = "lite" /\ v = 0 -> <<pulse>>
        [] kind = "lite" /\ v # 0 -> <<dir, pulse>>
        [] kind # "lite"          -> <<dir, Set(PinB, "val", Backward(v)), pulse>>

(* The constructor: the pins stopped, the ramp, the velocity.              *)
Stopped(r) ==
  LET dir   == New(DirPin, [dir |-> "Out", val |-> "Low"])
      pulse == New(Pulse, [val |-> 0, ramp |-> -1])
      ramp  == Set(Pulse, "ramp", r)
  IN  IF kind = "lite" THEN <<dir, pulse, ramp>>
      ELSE <<dir, New(PinB, [dir |-> "In", val |-> "Hi"]), pulse, ramp>>

Construction(r, v) == Stopped(r) \o SetVelocity(v)

(* The destructor: the pulse last.                                         *)
Destruction == IF kind = "lite" THEN <<Delete(DirPin), Delete(Pulse)>>
               ELSE <<Delete(DirPin), Delete(PinB), Delete(Pulse)>>

NewMotor == /\ velocity = None
            /\ \E r \in Ramps, v \in Velocities :
                 Call(Construction(r, v)) /\ velocity' = v

DriveMotor == /\ velocity # None
              /\ \E v \in Velocities : Call(SetVelocity(v)) /\ velocity' = v

RampMotor == /\ velocity # None
             /\ \E r \in Ramps : Call(<<Set(Pulse, "ramp", r)>>)
             /\ UNCHANGED velocity

DeleteMotor == velocity # None /\ Call(Destruction) /\ velocity' = None

MotorCall == kind # "none" /\ (NewMotor \/ DriveMotor \/ RampMotor \/ DeleteMotor)

PinCall == kind = "none" /\ (\E p \in Direct : CallPin(p)) /\ UNCHANGED velocity

(* A motor is gone with its process.                                       *)
Kept == velocity' = (IF main' = "down" THEN None ELSE velocity) /\ UNCHANGED kind

MotorsNext == \/ (MotorCall \/ PinCall) /\ UNCHANGED kind
              \/ Serve /\ Kept

MotorsSpec == MotorsInit /\ [][MotorsNext]_allVars

(* The SAM's loop goes on reporting and obeying, and so do both threads of *)
(* the host; a call, a start and an end are somebody's choice.  No pin has *)
(* to change by itself: a report must come only where there is something   *)
(* to say of a request, or a pin to move.                                  *)
Due == \E p \in Pins : \/ enabled[p] # shown[p]
                       \/ p \in Pwm /\ enabled[p] /\ st[p].val # st[p].set

FairSpec == /\ MotorsSpec
            /\ WF_allVars(Due /\ ReportStatus(Open) /\ UNCHANGED <<host, motors>>)
            /\ WF_allVars(ProcessMessage(Open) /\ UNCHANGED <<host, motors>>)
            /\ WF_allVars((Connect \/ Operate) /\ Kept)
            /\ WF_allVars(Reader /\ Kept)

-----------------------------------------------------------------------------
Turning == CASE st[DirPin] = [dir |-> "Out", val |-> "Hi"]  -> duty[Pulse]
             [] st[DirPin] = [dir |-> "Out", val |-> "Low"] -> -duty[Pulse]
             [] OTHER -> 0

(* A motor turns as its last SetVelocity asked, once nothing is under way  *)
(* and the pulse has reached its set point.                                *)
MotorObeys ==
  /\ velocity # None /\ main = "idle" /\ todo = <<>> /\ toSam = <<>>
  /\ st[Pulse].val = st[Pulse].set
  => Turning = velocity

(* A call ends (or the process does), unless a report has been dropped:    *)
(* then its answer may be lost, and it waits for ever.                     *)
CallsEnd == (todo # <<>>) ~> (main = "down" \/ todo = <<>> \/ ~Intact)

(* A pin that is enabled gets where it was told to go.                     *)
RampEnds == \A p \in Pwm : enabled[p] ~> (~enabled[p] \/ st[p].val = st[p].set)
=============================================================================
