-------------------------- MODULE ClawDriveProofs ---------------------------
(***************************************************************************)
(* Proofs about ClawDrive, for any callers, speeds and headings: that it   *)
(* keeps DriveLine's promise, and that the wheels obey a call that nothing *)
(* overlapped.                                                             *)
(***************************************************************************)
EXTENDS ClawDrive, TLAPS

-----------------------------------------------------------------------------
(* The serial line.  All that its proof needs is where threads are and who *)
(* has the mutex.                                                          *)
LineInv == /\ pc \in [Threads -> PCs]
           /\ mutex \in Threads \cup {None}
           /\ OneExchange

(* Every initial state satisfies it.                                       *)
LEMMA InitLineInv == Init => LineInv
  BY ClawDriveAssumption DEF Init, LineInv, OneExchange, PCs, Threads

(* The steps outside WriteAndVerify: nobody comes to wait for an answer or *)
(* ceases to, and nothing happens on the line.                             *)
Offline(t) == \/ SetTheHeading(t) \/ ComputeLeft(t) \/ ComputeRight(t)
              \/ WriteCommand(t) \/ WriteSpeedAndCRC(t)
              \/ \E s, h \in Int : ValidateInput(s, h) /\ SetTheSpeed(t, s, h)

LEMMA OfflineSteps ==
  ASSUME NEW t \in Threads, Offline(t)
  PROVE  /\ pc[t] # "reply"
         /\ \E l \in PCs \ {"reply"} : pc' = [pc EXCEPT ![t] = l]
         /\ UNCHANGED <<mutex, line, answer, motors>>
  BY DEF Offline, PCs, SetTheHeading, ComputeLeft, ComputeRight, WriteCommand,
         WriteSpeedAndCRC, SetTheSpeed, At, Goto, wire

(* Every step is outside WriteAndVerify, in it, or the controller's.       *)
LEMMA Steps ==
  ASSUME Next
  PROVE  \/ Controller
         \/ \E t \in Threads : \/ Offline(t) \/ Send(t) \/ Acknowledged(t)
                               \/ NotRecognized(t) \/ NoResponse(t) \/ SelectWaits(t)
  <1>1. CASE Call
    <2>1. ASSUME NEW t \in Drivers, NEW s \in Speeds, NEW h \in Headings, Drive(t, s, h)
          PROVE  t \in Threads /\ Offline(t)
      BY <2>1, ClawDriveAssumption DEF Offline, Drive, Threads
    <2>2. ASSUME NEW t \in Stoppers, Stop(t)
          PROVE  t \in Threads /\ Offline(t)
      <3>1. ValidateInput(0, 0)
        BY DEF ValidateInput
      <3>. QED BY <2>2, <3>1 DEF Offline, Stop, Threads
    <2>. QED BY <1>1, <2>1, <2>2 DEF Call
  <1>2. ASSUME NEW t \in Threads, Step(t)
        PROVE  Offline(t) \/ Send(t) \/ Acknowledged(t) \/ NotRecognized(t) \/ NoResponse(t)
    BY <1>2 DEF Step, Offline
  <1>. QED BY <1>1, <1>2 DEF Next

(* A throw leaves the line as it is and its thread out of WriteAndVerify.  *)
LEMMA Throws ==
  ASSUME LineInv, NEW t \in Threads, NotRecognized(t) \/ NoResponse(t)
  PROVE  /\ mutex = t /\ mutex' = t /\ line' = line /\ answer' = None
         /\ UNCHANGED motors
         /\ pc[t] = "reply" /\ \E l \in {"idle", "dead"} : pc' = [pc EXCEPT ![t] = l]
  BY DEF LineInv, OneExchange, NotRecognized, NoResponse, TimedOut, Throw, At, Goto

(* Each step keeps the invariant.                                          *)
LEMMA NextLineInv == LineInv /\ [Next]_vars => LineInv'
  <1>. SUFFICES ASSUME LineInv, [Next]_vars PROVE LineInv'
    OBVIOUS
  <1>. USE ClawDriveAssumption DEF LineInv, OneExchange, PCs
  <1>1. CASE UNCHANGED vars
    BY <1>1 DEF vars, wire
  <1>2. CASE Controller
    BY <1>2 DEF Controller
  <1>3. ASSUME NEW t \in Threads, Offline(t) PROVE LineInv'
    BY <1>3, OfflineSteps
  <1>4. ASSUME NEW t \in Threads, Send(t) PROVE LineInv'
    BY <1>4 DEF Send, MayLock, At, Goto
  <1>5. ASSUME NEW t \in Threads, Acknowledged(t) PROVE LineInv'
    BY <1>5 DEF Acknowledged, At, Goto
  <1>6. ASSUME NEW t \in Threads, NotRecognized(t) \/ NoResponse(t) PROVE LineInv'
    BY <1>6, Throws
  <1>7. ASSUME NEW t \in Threads, SelectWaits(t) PROVE LineInv'
    BY <1>7 DEF SelectWaits, wire
  <1>. QED BY <1>1, <1>2, <1>3, <1>4, <1>5, <1>6, <1>7, Steps

(* It holds in every reachable state.                                      *)
LEMMA LineInvariance == Spec => []LineInv
  BY InitLineInv, NextLineInv, PTL DEF Spec

(* Exchanges with the motor controller never overlap, however many threads *)
(* call Drive and Stop.                                                    *)
THEOREM ExchangesApart == Spec => []OneExchange
  <1>1. LineInv => OneExchange
    BY DEF LineInv
  <1>. QED BY <1>1, LineInvariance, PTL

(* After a throw the mutex is never given back, and nothing new is sent.   *)
LEMMA Finality ==
  ASSUME LineInv, Next, Failed
  PROVE  Failed' /\ line' \in {line, None} /\ (line = None => UNCHANGED motors)
  <1>. DEFINE Final == Failed' /\ line' \in {line, None} /\ (line = None => UNCHANGED motors)
  <1>. USE DEF LineInv, OneExchange, Failed
  <1>1. CASE Controller
    BY <1>1 DEF Controller
  <1>2. ASSUME NEW t \in Threads, Offline(t) PROVE Final
    BY <1>2, OfflineSteps
  <1>3. ASSUME NEW t \in Threads PROVE ~Send(t) /\ ~Acknowledged(t)
    BY DEF Send, MayLock, Acknowledged, At
  <1>4. ASSUME NEW t \in Threads PROVE ~NotRecognized(t) /\ ~NoResponse(t)
    BY DEF NotRecognized, NoResponse, At
  <1>5. ASSUME NEW t \in Threads, SelectWaits(t) PROVE Final
    BY <1>5 DEF SelectWaits, wire
  <1>. QED BY <1>1, <1>2, <1>3, <1>4, <1>5, Steps

(* Once WriteAndVerify has thrown no frame is sent again and the motors do *)
(* nothing new but for a frame that was under way.                         *)
THEOREM FailuresAreFinal == Spec => FailureIsFinal
  <1>1. LineInv /\ [Next]_vars =>
          [Failed => /\ Failed' /\ line' \in {line, None}
                     /\ line = None => UNCHANGED motors]_vars
    BY Finality
  <1>. QED BY <1>1, LineInvariance, PTL DEF Spec, FailureIsFinal

(* The drive implements DriveLine: Send begins an exchange, an acknowledged *)
(* frame finishes it, a throw fails it, and nothing else shows.            *)
THEOREM LineImplemented == Spec => LineSpec
  <1>1. Init => Line!Init
    BY DEF Init, Line!Init, Failed
  <1>2. LineInv /\ [Next]_vars => [Line!Next]_(Line!vars)
    <2>. SUFFICES ASSUME LineInv, [Next]_vars PROVE [Line!Next]_(Line!vars)
      OBVIOUS
    <2>. USE ClawDriveAssumption DEF LineInv, OneExchange, Failed, Line!vars
    <2>1. CASE UNCHANGED vars
      BY <2>1 DEF vars, wire
    <2>2. CASE Controller
      BY <2>2 DEF Controller
    <2>3. ASSUME NEW t \in Threads, Offline(t) PROVE UNCHANGED Line!vars
      BY <2>3, OfflineSteps
    <2>4. ASSUME NEW t \in Threads, Send(t) PROVE Line!Begin(t)
      BY <2>4 DEF Send, MayLock, At, Goto, Line!Begin
    <2>5. ASSUME NEW t \in Threads, Acknowledged(t) PROVE Line!Finish
      BY <2>5 DEF Acknowledged, At, Goto, Line!Finish
    <2>6. ASSUME NEW t \in Threads, NotRecognized(t) \/ NoResponse(t) PROVE Line!Fail
      BY <2>6, Throws DEF Line!Fail
    <2>7. ASSUME NEW t \in Threads, SelectWaits(t) PROVE UNCHANGED Line!vars
      BY <2>7 DEF SelectWaits, wire
    <2>. QED BY <2>1, <2>2, <2>3, <2>4, <2>5, <2>6, <2>7, Steps DEF Line!Next
  <1>. QED BY <1>1, <1>2, LineInvariance, PTL DEF Spec, LineSpec, Line!Spec

-----------------------------------------------------------------------------
(* The arithmetic.  Velocities stay within the speed asked for, and each   *)
(* fits in seven bits.                                                     *)
LEMMA Velocities ==
  ASSUME NEW s \in 0..100, NEW h \in 0..8, NEW q \in 0..3
  PROVE  LeftVelocity(q, h, s) \in -100..100 /\ RightVelocity(q, h, s) \in -100..100
  <1>1. \A k \in -8..8 : CosineMultiplier(k) \in {-1, 0, 1}
    BY DEF CosineMultiplier
  <1>2. \A c \in {-1, 0, 1} : c * s \in -100..100 /\ (-c) * s \in -100..100
    OBVIOUS
  <1>3. /\ CosineMultiplier(h) \in {-1, 0, 1} /\ CosineMultiplier(h - 4) \in {-1, 0, 1}
        /\ CosineMultiplier(h - 2) \in {-1, 0, 1} /\ CosineMultiplier(h - 6) \in {-1, 0, 1}
    BY <1>1
  <1>. HIDE DEF CosineMultiplier
  <1>. QED BY <1>2, <1>3 DEF LeftVelocity, RightVelocity

LEMMA Magnitudes == \A v \in -100..100 : Magnitude(v) \in 0..127
  BY DEF Magnitude, Abs

(* In each quarter of the turn the two formulas of SetHardware agree with  *)
(* the table of headings, at every speed.                                  *)
LEMMA Quadrants ==
  ASSUME NEW s \in 0..100, NEW h \in 0..8
  PROVE  /\ LeftVelocity(Quadrant(h), h, s) = Wheel["left"][h + 1] * s
         /\ RightVelocity(Quadrant(h), h, s) = Wheel["right"][h + 1] * s
  <1>. USE DEF LeftVelocity, RightVelocity, Quadrant, CosineMultiplier, Wheel
  <1>1. CASE h = 0 BY <1>1
  <1>2. CASE h = 1 BY <1>2
  <1>3. CASE h = 2 BY <1>3
  <1>4. CASE h = 3 BY <1>4
  <1>5. CASE h = 4 BY <1>5
  <1>6. CASE h = 5 BY <1>6
  <1>7. CASE h = 6 BY <1>7
  <1>8. CASE h = 7 BY <1>8
  <1>9. CASE h = 8 BY <1>9
  <1>. QED BY <1>1, <1>2, <1>3, <1>4, <1>5, <1>6, <1>7, <1>8, <1>9

-----------------------------------------------------------------------------
(* Types.  What is left of the timeout and what the current select has     *)
(* waited never exceed the timeout together.                               *)
TypeInv == TypeOK /\ waited + budget <= TimeoutMillis

(* Locals start as they should; frames are made of a command byte and a    *)
(* magnitude.                                                              *)
LEMMA NoLocalsType == NoLocals \in Locals
  BY DEF NoLocals, Locals, Motors

LEMMA LocalsUpdate ==
  ASSUME NEW r \in Locals, NEW q \in 0..3, NEW v \in -100..100
  PROVE  [r EXCEPT !.quadrant = q, !.left = v] \in Locals
  BY DEF Locals

LEMMA CommandType ==
  ASSUME NEW m \in Motors, NEW v \in -100..100 PROVE CommandByte(m, v) \in Commands
  <1>1. (v > 0) \in BOOLEAN
    OBVIOUS
  <1>. QED BY <1>1, Zenon DEF CommandByte, Commands

LEMMA FrameType ==
  ASSUME NEW c \in Commands, NEW s \in 0..127 PROVE Frame(c, s) \in Frames
  BY DEF Frame, Frames

LEMMA InitTypeInv == Init => TypeInv
  <1>. SUFFICES ASSUME Init PROVE TypeInv
    OBVIOUS
  <1>. USE ClawDriveAssumption DEF Init
  <1>1. buffer \in Frames
    <2>1. CommandByte("right", 0) \in Commands
      BY CommandType DEF Motors
    <2>. QED BY <2>1, FrameType
  <1>2. loc \in [Threads -> Locals]
    BY NoLocalsType
  <1>3. motors \in [Motors -> -127..127]
    OBVIOUS
  <1>4. pc \in [Threads -> PCs] /\ \A t \in Drivers : pc[t] # "dead"
    BY DEF PCs, Threads
  <1>5. recorded \in [Motors -> -100..100]
    OBVIOUS
  <1>6. /\ setSpeed \in 0..100 /\ setHeading \in 0..8
        /\ budget \in 0..TimeoutMillis /\ waited \in 0..TimeoutMillis
        /\ waited + budget <= TimeoutMillis
    OBVIOUS
  <1>7. /\ mutex \in Threads \cup {None} /\ line \in Frames \cup {None}
        /\ answer \in {None, "ack", "garbled"}
    OBVIOUS
  <1>8. overlap \in BOOLEAN
    OBVIOUS
  <1>. HIDE DEF Init
  <1>. QED BY <1>1, <1>2, <1>3, <1>4, <1>5, <1>6, <1>7, <1>8 DEF TypeInv, TypeOK

(* What a thread is about to send is a velocity.                           *)
LEMMA VelocityType == ASSUME TypeInv, NEW t \in Threads PROVE Velocity(t) \in -100..100
  BY DEF TypeInv, TypeOK, Velocity, Locals

LEMMA NextTypeInv == TypeInv /\ [Next]_vars => TypeInv'
  <1>. SUFFICES ASSUME TypeInv, [Next]_vars PROVE TypeInv'
    OBVIOUS
  <1>. USE ClawDriveAssumption DEF TypeInv, TypeOK, At, Goto, PCs, drive, wire
  <1>1. CASE UNCHANGED vars
    BY <1>1 DEF vars
  <1>2. CASE Controller
    <2>1. CASE WellFormed(line)
      <3>1. line \in Frames
        BY <1>2 DEF Controller
      <3>2. motors' \in [Motors -> -127..127]
        BY <1>2, <2>1, <3>1 DEF Controller, Frames
      <3>3. answer' \in {None, "ack", "garbled"}
        BY <1>2, <2>1 DEF Controller
      <3>. QED BY <1>2, <3>2, <3>3 DEF Controller
    <2>2. CASE ~WellFormed(line)
      BY <1>2, <2>2 DEF Controller
    <2>. QED BY <2>1, <2>2
  <1>3. ASSUME NEW t \in Threads, Offline(t) PROVE TypeInv'
    <2>1. ASSUME NEW s \in Int, NEW h \in Int, ValidateInput(s, h), SetTheSpeed(t, s, h)
          PROVE  TypeInv'
      <3>1. loc' \in [Threads -> Locals] /\ setSpeed' \in 0..100
        BY <2>1, SMTT(30) DEF SetTheSpeed, ValidateInput, Locals
      <3>. QED BY <2>1, <3>1 DEF SetTheSpeed, AllIdle
    <2>2. CASE SetTheHeading(t)
      BY <2>2 DEF SetTheHeading, Locals
    <2>3. CASE ComputeLeft(t)
      <3>1. Quadrant(setHeading) \in 0..3
        BY DEF Quadrant
      <3>2. LeftVelocity(Quadrant(setHeading), setHeading, setSpeed) \in -100..100
        BY <3>1, Velocities
      <3>3. loc' \in [Threads -> Locals]
        <4>. DEFINE l == [loc[t] EXCEPT !.quadrant = Quadrant(setHeading),
                            !.left = LeftVelocity(Quadrant(setHeading), setHeading, setSpeed)]
        <4>1. l \in Locals
          BY <3>1, <3>2, LocalsUpdate
        <4>2. loc' = [loc EXCEPT ![t] = l]
          BY <2>3, Zenon DEF ComputeLeft
        <4>. QED BY <4>1, <4>2
      <3>. QED BY <2>3, <3>3 DEF ComputeLeft
    <2>4. CASE ComputeRight(t)
      <3>1. RightVelocity(loc[t].quadrant, setHeading, setSpeed) \in -100..100
        BY Velocities DEF Locals
      <3>2. loc' \in [Threads -> Locals]
        BY <2>4, <3>1, SMTT(30) DEF ComputeRight, Locals
      <3>. QED BY <2>4, <3>2 DEF ComputeRight
    <2>5. CASE WriteCommand(t)
      <3>1. CommandByte(loc[t].motor, Velocity(t)) \in Commands
        BY VelocityType, CommandType DEF Locals
      <3>2. buffer' \in Frames
        BY <2>5, <3>1 DEF WriteCommand, Frames
      <3>. QED BY <2>5, <3>2 DEF WriteCommand
    <2>6. CASE WriteSpeedAndCRC(t)
      <3>1. Magnitude(Velocity(t)) \in 0..127
        BY VelocityType, Magnitudes
      <3>2. buffer.command \in Commands
        BY DEF Frames
      <3>3. buffer' \in Frames
        BY <2>6, <3>1, <3>2, FrameType DEF WriteSpeedAndCRC
      <3>. QED BY <2>6, <3>3 DEF WriteSpeedAndCRC
    <2>. QED BY <1>3, <2>1, <2>2, <2>3, <2>4, <2>5, <2>6 DEF Offline
  <1>4. ASSUME NEW t \in Threads, Send(t) PROVE TypeInv'
    BY <1>4 DEF Send
  <1>5. ASSUME NEW t \in Threads, Acknowledged(t) PROVE TypeInv'
    <2>1. recorded' \in [Motors -> -100..100]
      BY <1>5, VelocityType DEF Acknowledged
    <2>2. loc' \in [Threads -> Locals]
      BY <1>5, NoLocalsType, SMTT(30) DEF Acknowledged, Locals, Motors
    <2>3. pc' \in [Threads -> PCs] /\ \A d \in Drivers : pc'[d] # "dead"
      BY <1>5 DEF Acknowledged, Threads
    <2>4. /\ answer' = None /\ mutex' = None
          /\ UNCHANGED <<setSpeed, setHeading, buffer, budget, line, motors, waited, overlap>>
      BY <1>5 DEF Acknowledged
    <2>. QED BY <2>1, <2>2, <2>3, <2>4
  <1>6. ASSUME NEW t \in Threads, NotRecognized(t) \/ NoResponse(t) PROVE TypeInv'
    <2>1. loc' \in [Threads -> Locals]
      BY <1>6, NoLocalsType DEF NotRecognized, NoResponse, Throw
    <2>2. pc' \in [Threads -> PCs] /\ \A d \in Drivers : pc'[d] # "dead"
      BY <1>6 DEF NotRecognized, NoResponse, Throw, Threads
    <2>3. answer' \in {None, "ack", "garbled"}
      BY <1>6 DEF NotRecognized, NoResponse
    <2>4. UNCHANGED <<setSpeed, setHeading, buffer, mutex, budget, recorded, line,
                      motors, waited, overlap>>
      BY <1>6 DEF NotRecognized, NoResponse, Throw
    <2>. QED BY <2>1, <2>2, <2>3, <2>4
  <1>7. ASSUME NEW t \in Threads, SelectWaits(t) PROVE TypeInv'
    BY <1>7 DEF SelectWaits
  <1>. QED BY <1>1, <1>2, <1>3, <1>4, <1>5, <1>6, <1>7, Steps

LEMMA TypeInvariance == Spec => []TypeInv
  BY InitTypeInv, NextTypeInv, PTL DEF Spec

(* Every variable keeps its type, whatever the arguments of the calls: in  *)
(* particular every speed byte sent fits in seven bits.                    *)
THEOREM DriveTypeCorrect == Spec => []TypeOK
  <1>1. TypeInv => TypeOK
    BY DEF TypeInv
  <1>. QED BY <1>1, TypeInvariance, PTL

-----------------------------------------------------------------------------
(* What a call has achieved.  The frame thread t is to send next, or sent. *)
FrameOf(t) == Frame(CommandByte(loc[t].motor, Velocity(t)), Magnitude(Velocity(t)))

(* A thread that is in no call begins the next with the left motor.        *)
Fresh == \A t \in Threads : pc[t] = "idle" => loc[t].motor = "left"

(* Only one thread is in a call, unless the last calls overlapped.         *)
Alone == ~overlap => \A t, u \in Threads : pc[t] # "idle" /\ pc[u] # "idle" => t = u

(* How far a call that nothing disturbed has come: it has the velocities   *)
(* that the heading and the speed ask for, the left wheel does what it     *)
(* should before the right one is commanded, and what is on the line is    *)
(* this call's frame, or its answer.                                       *)
Stage(t) ==
  /\ pc[t] \in {"idle", "heading", "left", "right"} => loc[t].motor = "left"
  /\ pc[t] = "right" => /\ loc[t].quadrant = Quadrant(setHeading)
                        /\ loc[t].left = Wanted("left")
  /\ pc[t] \in {"command", "speed", "send", "reply"} =>
        /\ loc[t].left = Wanted("left") /\ loc[t].right = Wanted("right")
        /\ loc[t].motor = "right" => Does("left")
  /\ pc[t] = "speed" => buffer.command = CommandByte(loc[t].motor, Velocity(t))
  /\ pc[t] = "send" => buffer = FrameOf(t)
  /\ pc[t] = "reply" => /\ line # None => line = FrameOf(t)
                        /\ answer = "ack" => motors[loc[t].motor] = Turning(Velocity(t))

Achieved == ~overlap /\ ~Failed =>
              /\ \A t \in Threads : Stage(t)
              /\ AllIdle => \A m \in Motors : Does(m)

CallInv == TypeInv /\ LineInv /\ Fresh /\ Alone /\ Achieved

(* Initially the constructor is about to stop the wheels, and nobody else  *)
(* is in a call.                                                           *)
LEMMA InitCallInv == Init => CallInv
  <1>. SUFFICES ASSUME Init PROVE Fresh /\ Alone /\ Achieved
    BY InitTypeInv, InitLineInv DEF CallInv
  <1>1. \A t \in Threads : loc[t].motor = "left" /\ pc[t] \in {"idle", "heading"}
    BY DEF Init, NoLocals
  <1>2. pc[Main] = "heading" /\ Main \in Threads
        /\ \A t \in Threads : pc[t] # "idle" => t = Main
    BY DEF Init, Threads
  <1>3. \A t \in Threads : Stage(t)
    BY <1>1 DEF Stage
  <1>. QED BY <1>1, <1>2, <1>3 DEF Fresh, Alone, Achieved, AllIdle

(* A step of t inside its call moves t only.                               *)
Moves(t) == /\ pc[t] # "idle"
            /\ \E l \in PCs : pc' = [pc EXCEPT ![t] = l]
            /\ \E r \in Locals : loc' = [loc EXCEPT ![t] = r]
            /\ UNCHANGED overlap
            /\ pc'[t] = "idle" => loc'[t].motor = "left"

(* Then Fresh and Alone are kept, and so is the stage of the others: they  *)
(* are in no call.                                                         *)
LEMMA MovesOnlyT ==
  ASSUME CallInv, NEW t \in Threads, Moves(t)
  PROVE  /\ Fresh' /\ Alone'
         /\ ~overlap => \A u \in Threads \ {t} : Stage(u)'
  <1>. USE DEF CallInv, Moves
  <1>1. \A u \in Threads \ {t} : pc'[u] = pc[u] /\ loc'[u] = loc[u]
    BY DEF TypeInv, TypeOK
  <1>2. Fresh'
    BY <1>1 DEF Fresh
  <1>3. Alone'
    BY <1>1 DEF Alone
  <1>4. ASSUME ~overlap, NEW u \in Threads \ {t} PROVE Stage(u)'
    <2>1. pc'[u] = "idle" /\ loc'[u].motor = "left"
      BY <1>1, <1>4 DEF Alone, Fresh
    <2>. QED BY <2>1 DEF Stage
  <1>. QED BY <1>2, <1>3, <1>4

(* A call keeps the invariant if it does what its stage asks for, and ends *)
(* with both wheels as they should be.                                     *)
LEMMA MovesAchieve ==
  ASSUME CallInv, Next, NEW t \in Threads, Moves(t),
         ~overlap /\ ~Failed /\ ~Failed' =>
            Stage(t)' /\ (pc'[t] = "idle" => \A m \in Motors : Does(m)')
  PROVE  Fresh' /\ Alone' /\ Achieved'
  <1>1. Failed => Failed'
    BY Finality DEF CallInv
  <1>2. overlap' = overlap
    BY DEF Moves
  <1>3. AllIdle' => pc'[t] = "idle"
    BY DEF AllIdle
  <1>. QED BY <1>1, <1>2, <1>3, MovesOnlyT DEF Achieved

(* A new call overlaps another, or starts from rest.                       *)
LEMMA CallBegins ==
  ASSUME CallInv, Next, NEW t \in Threads, NEW s \in Int, NEW h \in Int,
         SetTheSpeed(t, s, h)
  PROVE  Fresh' /\ Alone' /\ Achieved'
  <1>. USE DEF CallInv
  <1>1. /\ pc[t] = "idle" /\ pc' = [pc EXCEPT ![t] = "heading"]
        /\ loc' = [loc EXCEPT ![t].want = h] /\ overlap' = ~AllIdle
    BY DEF SetTheSpeed, At, Goto
  <1>2. \A u \in Threads : loc'[u].motor = loc[u].motor
    BY <1>1 DEF TypeInv, TypeOK, Locals
  <1>3. pc'[t] = "heading" /\ \A u \in Threads \ {t} : pc'[u] = pc[u]
    BY <1>1 DEF TypeInv, TypeOK
  <1>4. Fresh'
    BY <1>2, <1>3 DEF Fresh
  <1>5. ~overlap' => \A u \in Threads : pc[u] = "idle"
    BY <1>1, Zenon DEF AllIdle
  <1>6. Alone'
    BY <1>3, <1>5 DEF Alone
  <1>7. ~overlap' => \A u \in Threads : Stage(u)'
    <2>1. ASSUME ~overlap', NEW u \in Threads PROVE Stage(u)'
      <3>1. loc'[u].motor = "left" /\ pc'[u] \in {"idle", "heading"}
        BY <1>2, <1>3, <1>5, <2>1 DEF Fresh
      <3>. QED BY <3>1 DEF Stage
    <2>. QED BY <2>1
  <1>8. ~AllIdle'
    BY <1>3 DEF AllIdle
  <1>. QED BY <1>4, <1>6, <1>7, <1>8 DEF Achieved

(* Preparing the frames.                                                   *)
LEMMA Preparing ==
  ASSUME CallInv, TypeInv', Next, NEW t \in Threads,
         \/ SetTheHeading(t) \/ ComputeLeft(t) \/ ComputeRight(t)
         \/ WriteCommand(t) \/ WriteSpeedAndCRC(t)
  PROVE  Fresh' /\ Alone' /\ Achieved'
  <1>. DEFINE Early == Stage(t) => Stage(t)'
  <1>0. /\ pc \in [Threads -> PCs] /\ loc \in [Threads -> Locals]
        /\ loc' \in [Threads -> Locals] /\ setHeading \in 0..8 /\ setSpeed \in 0..100
    BY DEF CallInv, TypeInv, TypeOK
  <1>. SUFFICES Moves(t) /\ pc'[t] # "idle" /\ Early
    BY MovesAchieve DEF CallInv, Achieved
  <1>. USE <1>0 DEF At, Goto, drive, wire, PCs
  <1>1. CASE SetTheHeading(t)
    BY <1>1 DEF SetTheHeading, Moves, Stage
  <1>2. CASE ComputeLeft(t)
    <2>1. /\ pc[t] = "left" /\ pc' = [pc EXCEPT ![t] = "right"] /\ loc'[t].motor = loc[t].motor
          /\ loc'[t].quadrant = Quadrant(setHeading)
          /\ loc'[t].left = LeftVelocity(Quadrant(setHeading), setHeading, setSpeed)
          /\ UNCHANGED <<setHeading, setSpeed, overlap>>
      <3>. DEFINE l == [loc[t] EXCEPT !.quadrant = Quadrant(setHeading),
                          !.left = LeftVelocity(Quadrant(setHeading), setHeading, setSpeed)]
      <3>1. loc' = [loc EXCEPT ![t] = l]
        BY <1>2, Zenon DEF ComputeLeft
      <3>2. l.motor = loc[t].motor /\ l.quadrant = Quadrant(setHeading)
            /\ l.left = LeftVelocity(Quadrant(setHeading), setHeading, setSpeed)
        BY DEF Locals
      <3>3. loc'[t] = l
        BY <3>1
      <3>4. /\ pc[t] = "left" /\ pc' = [pc EXCEPT ![t] = "right"]
            /\ UNCHANGED <<setHeading, setSpeed, overlap>>
        BY <1>2 DEF ComputeLeft
      <3>. HIDE DEF l
      <3>. QED BY <3>2, <3>3, <3>4
    <2>2. loc' = [loc EXCEPT ![t] = loc'[t]]
      BY <1>2 DEF ComputeLeft
    <2>3. loc'[t].left = Wanted("left")'
      BY <2>1, Quadrants DEF Wanted
    <2>. QED BY <2>1, <2>2, <2>3 DEF Moves, Stage
  <1>3. CASE ComputeRight(t)
    <2>1. /\ pc[t] = "right" /\ pc' = [pc EXCEPT ![t] = "command"]
          /\ loc'[t].motor = loc[t].motor /\ loc'[t].left = loc[t].left
          /\ loc'[t].right = RightVelocity(loc[t].quadrant, setHeading, setSpeed)
          /\ UNCHANGED <<setHeading, setSpeed, overlap>>
      BY <1>3 DEF ComputeRight, Locals
    <2>2. loc' = [loc EXCEPT ![t] = loc'[t]]
      BY <1>3 DEF ComputeRight
    <2>3. Stage(t) => loc'[t].left = Wanted("left")' /\ loc'[t].right = Wanted("right")'
      BY <2>1, Quadrants DEF Wanted, Stage
    <2>. QED BY <2>1, <2>2, <2>3 DEF Moves, Stage
  <1>4. CASE WriteCommand(t)
    <2>1. /\ pc[t] = "command" /\ pc' = [pc EXCEPT ![t] = "speed"]
          /\ loc' = [loc EXCEPT ![t] = loc[t]] /\ loc'[t] = loc[t]
          /\ UNCHANGED <<setHeading, setSpeed, overlap, motors, recorded>>
      BY <1>4 DEF WriteCommand
    <2>2. buffer'.command = CommandByte(loc[t].motor, Velocity(t))
      BY <1>4 DEF WriteCommand, CallInv, TypeInv, TypeOK, Frames
    <2>3. Stage(t) => Stage(t)'
      BY <2>1, <2>2 DEF Stage, Velocity, Does, Wanted
    <2>. QED BY <2>1, <2>3 DEF Moves
  <1>5. CASE WriteSpeedAndCRC(t)
    <2>1. /\ pc[t] = "speed" /\ pc' = [pc EXCEPT ![t] = "send"]
          /\ loc' = [loc EXCEPT ![t] = loc[t]] /\ loc'[t] = loc[t]
          /\ buffer' = Frame(buffer.command, Magnitude(Velocity(t)))
          /\ UNCHANGED <<setHeading, setSpeed, overlap, motors, recorded>>
      BY <1>5 DEF WriteSpeedAndCRC
    <2>2. Stage(t) => Stage(t)'
      BY <2>1 DEF Stage, Velocity, Does, Wanted, FrameOf
    <2>. QED BY <2>1, <2>2 DEF Moves
  <1>. QED BY <1>1, <1>2, <1>3, <1>4, <1>5

(* The exchange: while it lasts, the line carries the frame of its thread. *)
LEMMA Exchanging ==
  ASSUME CallInv, TypeInv', Next, NEW t \in Threads,
         Send(t) \/ Acknowledged(t) \/ SelectWaits(t)
  PROVE  Fresh' /\ Alone' /\ Achieved'
  <1>0. /\ pc \in [Threads -> PCs] /\ loc \in [Threads -> Locals]
        /\ loc' \in [Threads -> Locals]
    BY DEF CallInv, TypeInv, TypeOK
  <1>. USE <1>0 DEF At, Goto, drive, wire, PCs
  <1>1. CASE Send(t)
    <2>1. /\ pc[t] = "send" /\ pc' = [pc EXCEPT ![t] = "reply"]
          /\ loc' = [loc EXCEPT ![t] = loc[t]] /\ loc'[t] = loc[t]
          /\ mutex = None /\ line' = buffer
          /\ UNCHANGED <<setHeading, setSpeed, overlap, motors, recorded, answer>>
      BY <1>1 DEF Send, MayLock
    <2>2. answer' # "ack"
      BY <2>1, ClawDriveAssumption DEF CallInv, LineInv, OneExchange
    <2>3. Stage(t) => Stage(t)'
      BY <2>1, <2>2 DEF Stage, Velocity, Does, Wanted, FrameOf
    <2>4. Moves(t)
      BY <2>1 DEF Moves
    <2>. QED BY <2>1, <2>3, <2>4, MovesAchieve DEF CallInv, Achieved
  <1>2. CASE Acknowledged(t)
    <2>1. /\ pc[t] = "reply" /\ answer = "ack"
          /\ recorded' = [recorded EXCEPT ![loc[t].motor] = Velocity(t)]
          /\ UNCHANGED <<setHeading, setSpeed, overlap, motors>>
      BY <1>2 DEF Acknowledged
    <2>2. recorded \in [Motors -> -100..100] /\ loc[t].motor \in Motors
      BY DEF CallInv, TypeInv, TypeOK, Locals
    <2>3. CASE loc[t].motor = "left"
      <3>1. /\ pc' = [pc EXCEPT ![t] = "command"]
            /\ loc'[t].motor = "right" /\ loc'[t].left = loc[t].left
            /\ loc'[t].right = loc[t].right
        BY <1>2, <2>3 DEF Acknowledged, Locals
      <3>2. loc' = [loc EXCEPT ![t] = loc'[t]]
        BY <1>2, <2>3 DEF Acknowledged
      <3>3. Stage(t) => Does("left")'
        BY <2>1, <2>2, <2>3 DEF Stage, Does, Wanted, Velocity, Turning
      <3>4. Stage(t) => Stage(t)'
        BY <2>1, <3>1, <3>3 DEF Stage, Wanted
      <3>5. Moves(t)
        BY <2>1, <3>1, <3>2 DEF Moves
      <3>. QED BY <3>1, <3>4, <3>5, MovesAchieve DEF CallInv, Achieved
    <2>4. CASE loc[t].motor = "right"
      <3>1. /\ pc' = [pc EXCEPT ![t] = "idle"]
            /\ loc' = [loc EXCEPT ![t] = NoLocals] /\ loc'[t].motor = "left"
        BY <1>2, <2>4 DEF Acknowledged, NoLocals
      <3>2. Stage(t) => Does("left")' /\ Does("right")'
        BY <2>1, <2>2, <2>4 DEF Stage, Does, Wanted, Velocity, Turning
      <3>3. Stage(t)'
        BY <3>1 DEF Stage
      <3>4. Moves(t)
        BY <2>1, <3>1, NoLocalsType DEF Moves
      <3>. QED BY <3>2, <3>3, <3>4, MovesAchieve DEF CallInv, Achieved, Motors
    <2>. QED BY <2>2, <2>3, <2>4 DEF Motors
  <1>3. CASE SelectWaits(t)
    <2>1. /\ pc[t] = "reply" /\ pc' = [pc EXCEPT ![t] = pc[t]] /\ pc'[t] = pc[t]
          /\ loc' = [loc EXCEPT ![t] = loc[t]] /\ loc'[t] = loc[t]
          /\ UNCHANGED <<setHeading, setSpeed, overlap, motors, recorded, answer, line, buffer>>
      BY <1>3 DEF SelectWaits
    <2>2. Stage(t) => Stage(t)'
      BY <2>1 DEF Stage, Velocity, Does, Wanted, FrameOf, Turning
    <2>3. Moves(t)
      BY <2>1 DEF Moves
    <2>. QED BY <2>1, <2>2, <2>3, MovesAchieve DEF CallInv, Achieved
  <1>. QED BY <1>1, <1>2, <1>3

(* A throw fails the drive for good.                                       *)
LEMMA Throwing ==
  ASSUME CallInv, NEW t \in Threads, NotRecognized(t) \/ NoResponse(t)
  PROVE  Fresh' /\ Alone' /\ Achieved'
  <1>1. /\ mutex' = t /\ pc[t] = "reply"
        /\ \E l \in {"idle", "dead"} : pc' = [pc EXCEPT ![t] = l]
    BY Throws DEF CallInv
  <1>2. loc' = [loc EXCEPT ![t] = NoLocals] /\ UNCHANGED overlap
    BY DEF NotRecognized, NoResponse, Throw
  <1>3. pc \in [Threads -> PCs] /\ loc \in [Threads -> Locals]
    BY DEF CallInv, TypeInv, TypeOK
  <1>4. loc'[t].motor = "left"
    BY <1>2, <1>3 DEF NoLocals
  <1>5. Moves(t)
    BY <1>1, <1>2, <1>4, NoLocalsType DEF Moves, PCs
  <1>6. Failed'
    BY <1>1, <1>3, ClawDriveAssumption DEF Failed
  <1>. QED BY <1>5, <1>6, MovesOnlyT DEF Achieved

(* The controller obeys the frame of the one thread that is in a call.     *)
LEMMA Obeying ==
  ASSUME CallInv, Controller
  PROVE  Fresh' /\ Alone' /\ Achieved'
  <1>1. /\ line # None /\ line' = None
        /\ UNCHANGED <<pc, loc, setSpeed, setHeading, buffer, mutex, recorded, overlap>>
    BY DEF Controller, drive
  <1>2. Fresh' /\ Alone'
    BY <1>1 DEF CallInv, Fresh, Alone
  <1>3. ASSUME ~overlap, ~Failed PROVE (\A u \in Threads : Stage(u)') /\ ~AllIdle'
    <2>1. PICK t \in Threads : t = mutex /\ pc[t] = "reply"
      BY <1>1, <1>3 DEF CallInv, LineInv, OneExchange, Failed
    <2>2. \A u \in Threads : Stage(u)
      BY <1>3 DEF CallInv, Achieved
    <2>3. line = FrameOf(t)
      BY <1>1, <2>1, <2>2 DEF Stage
    <2>4. Velocity(t) \in -100..100 /\ loc[t].motor \in Motors
          /\ motors \in [Motors -> -127..127]
      BY <2>1, VelocityType DEF CallInv, TypeInv, TypeOK, Locals
    <2>5. /\ WellFormed(line) /\ line.command.motor = loc[t].motor
          /\ line.speed = Magnitude(Velocity(t))
          /\ line.command.forward <=> Velocity(t) > 0
      BY <2>3, Zenon DEF FrameOf, Frame, CommandByte, WellFormed
    <2>6. motors' = [motors EXCEPT ![loc[t].motor] = Turning(Velocity(t))]
      <3>1. Turning(Velocity(t)) =
              IF Velocity(t) > 0 THEN Magnitude(Velocity(t)) ELSE -Magnitude(Velocity(t))
        BY <2>4 DEF Turning, Magnitude, Abs
      <3>2. motors' = [motors EXCEPT ![line.command.motor] =
                         IF line.command.forward THEN line.speed ELSE -line.speed]
        BY <2>5 DEF Controller
      <3>. QED BY <2>5, <3>1, <3>2
    <2>7. Stage(t)'
      <3>1. motors'[loc[t].motor] = Turning(Velocity(t))
            /\ (loc[t].motor = "right" => motors'["left"] = motors["left"])
        BY <2>4, <2>6 DEF Motors
      <3>2. Stage(t)
        BY <2>1, <2>2
      <3>. QED BY <1>1, <2>1, <3>1, <3>2 DEF Stage, Velocity, Does, Wanted, Turning
    <2>8. ASSUME NEW u \in Threads, u # t PROVE Stage(u)'
      <3>1. pc'[u] = "idle" /\ loc'[u].motor = "left"
        BY <1>1, <1>3, <2>1, <2>8 DEF CallInv, Alone, Fresh
      <3>. QED BY <3>1 DEF Stage
    <2>9. ~AllIdle'
      BY <1>1, <2>1 DEF AllIdle
    <2>. QED BY <2>7, <2>8, <2>9
  <1>4. overlap' = overlap /\ (Failed' <=> Failed)
    BY <1>1 DEF Failed
  <1>. QED BY <1>2, <1>3, <1>4 DEF Achieved

(* Every step keeps the invariant.                                         *)
LEMMA NextCallInv == CallInv /\ [Next]_vars => CallInv'
  <1>. SUFFICES ASSUME CallInv, [Next]_vars PROVE CallInv'
    OBVIOUS
  <1>1. TypeInv' /\ LineInv'
    BY NextTypeInv, NextLineInv DEF CallInv
  <1>2. CASE UNCHANGED vars
    <2>1. Fresh' /\ Alone'
      BY <1>2 DEF CallInv, Fresh, Alone, vars
    <2>2. Achieved'
      BY <1>2 DEF CallInv, Achieved, Stage, Does, Wanted, Velocity, FrameOf, Failed, AllIdle,
                  vars, drive, wire
    <2>. QED BY <1>1, <2>1, <2>2 DEF CallInv
  <1>3. CASE Next
    <2>1. ASSUME NEW t \in Threads, Offline(t) PROVE Fresh' /\ Alone' /\ Achieved'
      BY <1>1, <1>3, <2>1, CallBegins, Preparing DEF Offline
    <2>. QED BY <1>1, <1>3, <2>1, Steps, Exchanging, Throwing, Obeying DEF CallInv
  <1>. QED BY <1>2, <1>3

(* The wheels obey: after a call that nothing overlapped, and no failure,  *)
(* both turn as the table of headings and the speed ask for, whatever the  *)
(* arguments, whatever raced before and whatever an earlier run left them  *)
(* doing.                                                                  *)
THEOREM WheelsObey == Spec => []Obeyed
  <1>1. Spec => []CallInv
    BY InitCallInv, NextCallInv, PTL DEF Spec
  <1>2. CallInv => Obeyed
    BY DEF CallInv, Achieved, Obeyed
  <1>. QED BY <1>1, <1>2, PTL
=============================================================================
