----------------------------- MODULE ClawDrive ------------------------------
(***************************************************************************)
(* DifferentialDriveModule on top of ClawMotorController: Drive and Stop   *)
(* set a speed and a heading, turn them into two motor velocities and send *)
(* each to the motor controller as a frame that it must acknowledge.       *)
(*                                                                         *)
(* Drivers are threads that call Drive (the TCP server's), Stoppers those  *)
(* that call Stop (the watchdog's).  They share SetSpeed, SetHeading and   *)
(* the frame buffer without a lock; only WriteAndVerify takes the mutex,   *)
(* and keeps it when it throws.  The throw is caught around Drive and      *)
(* answered "ERROR"; elsewhere (the constructor, the watchdog's thread) it *)
(* ends the process.                                                       *)
(*                                                                         *)
(* A heading counts eighths of a turn, where the cosines are -1, 0 or 1.   *)
(* A CRC is represented by the bytes it was computed from (CRC-16 tells    *)
(* any two pairs of bytes apart).  Linux's select() takes the time it      *)
(* waited off its timeout argument, here the member Timeout: `budget'.     *)
(***************************************************************************)
EXTENDS Integers

CONSTANTS Main,              \* the thread that constructs the module
          Drivers, Stoppers, \* the calling threads
          None,              \* no thread, no frame, no answer
          Speeds, Headings,  \* arguments of Drive
          Leftover,          \* motor speeds an earlier run may have left
          TimeoutMillis,     \* select's timeout as configured, in ticks
          Noise              \* TRUE: an answer may be garbled or lost

Threads == {Main} \cup Drivers \cup Stoppers
Motors  == {"left", "right"}

ASSUME ClawDriveAssumption ==
  /\ Drivers \cap Stoppers = {} /\ Main \notin Drivers \cup Stoppers
  /\ None \notin Threads \cup {"ack", "garbled"}
  /\ Speeds \subseteq Int /\ Headings \subseteq Int
  /\ Leftover \subseteq -127..127
  /\ TimeoutMillis \in Nat /\ Noise \in BOOLEAN

VARIABLES
  pc,                    \* where each thread is
  setSpeed, setHeading,  \* SetSpeed, SetHeading
  loc,                   \* each thread's locals
  buffer,                \* DataBuffer
  mutex,                 \* the controller's mutex
  budget,                \* Timeout: what is left of it
  recorded,              \* Motor1Velocity, Motor2Velocity
  line, answer,          \* frame and answer byte on the wire
  motors,                \* the motors' signed speeds, 0..127
  waited,                \* history: ticks the current select has waited
  overlap                \* history: the last calls overlapped

drive == <<setSpeed, setHeading>>
wire  == <<line, answer, motors>>
vars  == <<pc, drive, loc, buffer, mutex, budget, recorded, wire, waited, overlap>>

PCs == {"idle", "heading", "left", "right", "command", "speed", "send",
        "reply", "dead"}
NoLocals == [want |-> 0, quadrant |-> 0, left |-> 0, right |-> 0, motor |-> "left"]

-----------------------------------------------------------------------------
(* DifferentialDriveModule::SetHardware, ClawMotorController's encoding.   *)
ValidateInput_NoUpper(s, h) == s >= 0 /\ h \in 0..8
ValidateInput(s, h) == s \in 0..100 /\ h \in 0..8

CosineMultiplier(k) == <<1, 0, -1, 0>>[(k % 4) + 1]

Quadrant(h) == IF h < 2 THEN 0 ELSE IF h < 4 THEN 1 ELSE IF h < 6 THEN 2 ELSE 3

LeftVelocity(q, h, s) ==
  CASE q = 0 -> CosineMultiplier(h) * s
    [] q = 1 -> -s
    [] q = 2 -> (-CosineMultiplier(h - 4)) * s
    [] OTHER -> s

RightVelocity(q, h, s) ==
  CASE q = 0 -> s
    [] q = 1 -> CosineMultiplier(h - 2) * s
    [] q = 2 -> -s
    [] OTHER -> (-CosineMultiplier(h - 6)) * s

Abs(v) == IF v < 0 THEN -v ELSE v
Magnitude(v) == (Abs(v) * 127) \div 100
CommandByte_Inverted(m, v) == [motor |-> m, forward |-> v <= 0]
CommandByte(m, v) == [motor |-> m, forward |-> v > 0]
Frame(c, s) == [command |-> c, speed |-> s, crc |-> <<c, s>>]
WellFormed(f) == f.crc = <<f.command, f.speed>>

(* The constructor has just called Stop; what the motors do until then is  *)
(* what an earlier run of the program left them doing.                     *)
Init ==
  /\ pc = [t \in Threads |-> IF t = Main THEN "heading" ELSE "idle"]
  /\ setSpeed = 0 /\ setHeading = 0
  /\ loc = [t \in Threads |-> NoLocals]
  /\ buffer = Frame(CommandByte("right", 0), 0)
  /\ mutex = None
  /\ budget = TimeoutMillis
  /\ recorded = [m \in Motors |-> 0]
  /\ line = None /\ answer = None
  /\ motors \in [Motors -> Leftover]
  /\ waited = 0
  /\ overlap = FALSE

Alive == \A t \in Threads : pc[t] # "dead"
AllIdle == \A t \in Threads : pc[t] = "idle"

At(t, l) == Alive /\ pc[t] = l
Goto(t, l) == pc' = [pc EXCEPT ![t] = l]

-----------------------------------------------------------------------------
(* Drive (a valid one: another returns at once) and Stop, once the module  *)
(* is constructed.                                                         *)
SetTheSpeed(t, s, h) ==
  /\ At(t, "idle") /\ pc[Main] = "idle" /\ Goto(t, "heading")
  /\ setSpeed' = s
  /\ loc' = [loc EXCEPT ![t].want = h]
  /\ overlap' = ~AllIdle
  /\ UNCHANGED <<setHeading, buffer, mutex, budget, recorded, wire, waited>>

Drive(t, s, h) == ValidateInput(s, h) /\ SetTheSpeed(t, s, h)
Stop(t) == SetTheSpeed(t, 0, 0)

SetTheHeading(t) ==
  /\ At(t, "heading") /\ Goto(t, "left")
  /\ setHeading' = loc[t].want
  /\ UNCHANGED <<setSpeed, loc, buffer, mutex, budget, recorded, wire, waited, overlap>>

(* SetHardware reads the heading and the speed for each motor again.       *)
ComputeLeft(t) ==
  /\ At(t, "left") /\ Goto(t, "right")
  /\ LET q == Quadrant(setHeading)
     IN loc' = [loc EXCEPT ![t].quadrant = q,
                           ![t].left = LeftVelocity(q, setHeading, setSpeed)]
  /\ UNCHANGED <<drive, buffer, mutex, budget, recorded, wire, waited, overlap>>

ComputeRight(t) ==
  /\ At(t, "right") /\ Goto(t, "command")
  /\ loc' = [loc EXCEPT ![t].right = RightVelocity(loc[t].quadrant, setHeading, setSpeed)]
  /\ UNCHANGED <<drive, buffer, mutex, budget, recorded, wire, waited, overlap>>

(* SetMotor2Velocity (left), then SetMotor1Velocity (right).               *)
Velocity(t) == IF loc[t].motor = "left" THEN loc[t].left ELSE loc[t].right

WriteCommand(t) ==
  /\ At(t, "command") /\ Goto(t, "speed")
  /\ buffer' = [buffer EXCEPT !.command = CommandByte(loc[t].motor, Velocity(t))]
  /\ UNCHANGED <<drive, loc, mutex, budget, recorded, wire, waited, overlap>>

WriteSpeedAndCRC(t) ==
  /\ At(t, "speed") /\ Goto(t, "send")
  /\ buffer' = Frame(buffer.command, Magnitude(Velocity(t)))
  /\ UNCHANGED <<drive, loc, mutex, budget, recorded, wire, waited, overlap>>

-----------------------------------------------------------------------------
(* WriteAndVerify: lock and write; then select and read.                   *)
MayLock_Unlocked(t) == TRUE
MayLock(t) == mutex = None

Send(t) ==
  /\ At(t, "send") /\ MayLock(t)
  /\ Goto(t, "reply")
  /\ mutex' = t /\ line' = buffer /\ waited' = 0
  /\ UNCHANGED <<drive, loc, buffer, budget, recorded, answer, motors, overlap>>

(* An acknowledged velocity is recorded, the mutex unlocked; the left      *)
(* motor is followed by the right one.                                     *)
Acknowledged(t) ==
  /\ At(t, "reply") /\ answer = "ack"
  /\ answer' = None /\ mutex' = None
  /\ recorded' = [recorded EXCEPT ![loc[t].motor] = Velocity(t)]
  /\ IF loc[t].motor = "left"
     THEN Goto(t, "command") /\ loc' = [loc EXCEPT ![t].motor = "right"]
     ELSE Goto(t, "idle") /\ loc' = [loc EXCEPT ![t] = NoLocals]
  /\ UNCHANGED <<drive, buffer, budget, line, motors, waited, overlap>>

(* throw, with the mutex kept.                                             *)
Throw(t) ==
  /\ Goto(t, IF t \in Drivers THEN "idle" ELSE "dead")
  /\ loc' = [loc EXCEPT ![t] = NoLocals]
  /\ UNCHANGED <<drive, buffer, mutex, budget, recorded, line, motors, waited, overlap>>

NotRecognized(t) == At(t, "reply") /\ answer = "garbled" /\ answer' = None /\ Throw(t)

TimedOut_Never == FALSE
TimedOut == answer = None /\ budget = 0

NoResponse(t) == At(t, "reply") /\ TimedOut /\ UNCHANGED answer /\ Throw(t)

SelectWaits(t) ==
  /\ At(t, "reply") /\ answer = None /\ budget > 0
  /\ budget' = budget - 1 /\ waited' = waited + 1
  /\ UNCHANGED <<pc, drive, loc, buffer, mutex, recorded, wire, overlap>>

-----------------------------------------------------------------------------
(* The motor controller obeys a frame whose CRC is right and acknowledges  *)
(* it; it ignores any other.                                               *)
Controller ==
  /\ line # None /\ line' = None
  /\ IF WellFormed(line)
     THEN /\ motors' = [motors EXCEPT ![line.command.motor] =
                          IF line.command.forward THEN line.speed ELSE -line.speed]
          /\ answer' \in {"ack"} \cup (IF Noise THEN {"garbled", None} ELSE {})
     ELSE UNCHANGED <<motors, answer>>
  /\ UNCHANGED <<pc, drive, loc, buffer, mutex, budget, recorded, waited, overlap>>

Step(t) == \/ SetTheHeading(t) \/ ComputeLeft(t) \/ ComputeRight(t)
           \/ WriteCommand(t) \/ WriteSpeedAndCRC(t) \/ Send(t)
           \/ Acknowledged(t) \/ NotRecognized(t) \/ NoResponse(t)

Call == \/ \E t \in Drivers, s \in Speeds, h \in Headings : Drive(t, s, h)
        \/ \E t \in Stoppers : Stop(t)

Next == Call \/ Controller \/ \E t \in Threads : Step(t) \/ SelectWaits(t)

Spec == Init /\ [][Next]_vars

(* A thread that can run does, select's time passes, the controller works  *)
(* and the mutex is granted to a thread that waits for it while it is free *)
(* again and again.                                                        *)
Fairness == /\ WF_vars(Controller)
            /\ \A t \in Threads : WF_vars(SelectWaits(t)) /\ SF_vars(Step(t))

FairSpec == Spec /\ Fairness

-----------------------------------------------------------------------------
Commands == [motor : Motors, forward : BOOLEAN]
Frames == [command : Commands, speed : 0..127, crc : Commands \X (0..127)]
Locals == [want : 0..8, quadrant : 0..3, left : -100..100, right : -100..100,
           motor : Motors]

TypeOK ==
  /\ pc \in [Threads -> PCs] /\ \A t \in Drivers : pc[t] # "dead"
  /\ setSpeed \in 0..100 /\ setHeading \in 0..8
  /\ loc \in [Threads -> Locals]
  /\ buffer \in Frames
  /\ mutex \in Threads \cup {None}
  /\ budget \in 0..TimeoutMillis /\ waited \in 0..TimeoutMillis
  /\ recorded \in [Motors -> -100..100]
  /\ line \in Frames \cup {None} /\ answer \in {None, "ack", "garbled"}
  /\ motors \in [Motors -> -127..127]
  /\ overlap \in BOOLEAN

(* An exchange that threw keeps the mutex: nobody is in it any more.       *)
Failed == mutex # None /\ pc[mutex] # "reply"

(* Exchanges do not overlap: whoever waits for an answer holds the mutex,  *)
(* and unless an exchange failed, what is on the wire belongs to it.       *)
OneExchange ==
  /\ \A t \in Threads : pc[t] = "reply" => mutex = t
  /\ mutex = None => line = None /\ answer = None
  /\ line = None \/ answer = None

(* The first failed exchange is the last: no frame is ever sent again, so  *)
(* nothing, not even Stop, can change the motors but a frame already sent. *)
FailureIsFinal ==
  [][Failed => Failed' /\ line' \in {line, None} /\ (line = None => UNCHANGED motors)]_vars

(* When no call is under way, none failed and the last ones did not        *)
(* overlap, the motors turn as the heading and speed set last ask: each    *)
(* wheel forward, still or backward as in the table, at the set speed.     *)
Wheel == [left  |-> <<1, 0, -1, -1, -1, 0, 1, 1, 1>>,
          right |-> <<1, 1, 1, 0, -1, -1, -1, 0, 1>>]
Wanted(m)  == Wheel[m][setHeading + 1] * setSpeed
Turning(v) == IF v < 0 THEN -Magnitude(v) ELSE Magnitude(v)
Does(m)    == recorded[m] = Wanted(m) /\ motors[m] = Turning(Wanted(m))
Obeyed == AllIdle /\ ~Failed /\ ~overlap => \A m \in Motors : Does(m)

(* Every call ends, unless an exchange fails.                              *)
CallsEnd == \A t \in Threads : pc[t] # "idle" ~> (pc[t] = "idle" \/ Failed)

(* The serial line keeps DriveLine's promise.                              *)
Line == INSTANCE DriveLine WITH Callers <- Threads, user <- mutex, ok <- ~Failed
LineSpec == Line!Spec
=============================================================================
