------------------------- MODULE TeleoperatedRobot --------------------------
(***************************************************************************)
(* clank/lib/robot/TeleoperatedRobot.cpp: the watchdog, the TCP server and *)
(* the drive put together.  The server's thread kicks the watchdog and     *)
(* drives; the watchdog's thread stops the motors; the main thread builds  *)
(* the robot and takes it down.  crashed is the whole process's.           *)
(*                                                                         *)
(* Watchdog and TcpServer are taken whole, with TCP the watchdog's only    *)
(* client; a call they make to the robot (the listener, the command        *)
(* listener) is steps here between the step that enters it and the one     *)
(* that returns.  Of the drive there remain its exchanges (DriveLine) and  *)
(* whether each wheel was last told to turn.  ClawDrive shows what is left *)
(* out: calls of Drive and Stop that overlap mix their speeds, headings    *)
(* and frames, so that a frame of theirs may say anything, or be torn and  *)
(* get no answer.                                                          *)
(***************************************************************************)
EXTENDS Integers, Sequences

CONSTANTS Dog, Main, TCP,                     \* the threads
          None,
          Timeouts, Horizon,                  \* of Watchdog
          Conns, Lines, MaxLines, Pipelined, Splits, Lossy,  \* of TcpServer
          Moves,                              \* sets of wheels a Drive turns
          ClawFails                           \* TRUE: an exchange may fail

VARIABLES
  wpc, keepRunning, timeout, listeners, holder, limit, timedOut, called,
  age,                                                     \* Watchdog
  main, srv, back, islsock, iscsock, killAll, csock, fds, kind, peer, inbox,
  waiting, crashed,                                        \* TcpServer
  tcp,       \* the server's thread in OnCommandReceived
  dog,       \* the watchdog's thread in OnWatchdogTimeout
  user, ok,  \* DriveLine
  todo,      \* wheels each thread has still to command
  turn,      \* the wheels that the current Drive would turn
  wheels,    \* the wheels last told to turn
  mixed      \* the calls of Drive and Stop under way overlap(ped)

watchdog == <<wpc, keepRunning, timeout, listeners, holder, limit, timedOut,
              called, age>>
server   == <<main, srv, back, islsock, iscsock, killAll, csock, fds, kind, peer,
              inbox, waiting, crashed>>
drive    == <<user, ok, todo, turn, wheels, mixed>>
vars     == <<watchdog, server, tcp, dog, drive>>

W == INSTANCE Watchdog WITH pc <- wpc, Owner <- Main, Clients <- {TCP},
                            MaxListeners <- 1, Spurious <- FALSE
S == INSTANCE TcpServer WITH MayFail <- FALSE
D == INSTANCE DriveLine WITH Callers <- {TCP, Dog}

Wheels == {"left", "right"}

ASSUME RobotAssumption ==
  /\ Moves \subseteq SUBSET Wheels /\ ClawFails \in BOOLEAN
  /\ None \notin {Dog, Main, TCP} \cup Conns
  /\ Dog # Main /\ Dog # TCP /\ Main # TCP
  /\ Horizon \in Nat /\ Timeouts \subseteq 0..Horizon /\ \E m \in Timeouts : m > 0
  /\ Lines \subseteq S!AllLines /\ MaxLines \in Nat
  /\ {Pipelined, Splits, Lossy} \subseteq BOOLEAN

(* The drive module is constructed (it has stopped the wheels).            *)
Init == /\ W!Init /\ S!Init /\ D!Init
        /\ tcp = "out" /\ dog = "out"
        /\ todo = [t \in {TCP, Dog} |-> {}]
        /\ turn = {} /\ wheels = {}
        /\ mixed = FALSE

Alive == ~crashed

-----------------------------------------------------------------------------
(* The main thread.  ConstructFromFile registers the watchdog's listener,  *)
(* starts the server, then the video stream, then the watchdog.            *)
RegisterCallback == main = "init" /\ W!AddTimeoutCallback /\ UNCHANGED server
StartServer      == listeners = 1 /\ S!Start /\ UNCHANGED watchdog
StartWatchdog    == main = "run" /\ W!Start /\ UNCHANGED server

(* The destructor's StopStream kills processes whose ids VideoStreamer     *)
(* does not know: the robot's own process group may be among them.         *)
StopStreamKills == /\ main = "run" /\ wpc[Main] = "on" /\ crashed' = TRUE
                   /\ UNCHANGED <<watchdog, main, srv, back, islsock, iscsock, killAll,
                                  csock, fds, kind, peer, inbox, waiting>>

(* It then kills the server, and deletes (stops) the watchdog.             *)
KillServer   == wpc[Main] = "on" /\ S!MainNext /\ UNCHANGED watchdog
MayStopWatchdog_First == TRUE
MayStopWatchdog == main = "done"
StopWatchdog == /\ MayStopWatchdog
                /\ W!StopCheck \/ W!StopLocked \/ W!StopJoin
                /\ UNCHANGED server

MainStep == /\ Alive
            /\ \/ RegisterCallback \/ StartServer \/ StartWatchdog
               \/ StopStreamKills \/ KillServer \/ StopWatchdog
            /\ UNCHANGED <<tcp, dog, drive>>

-----------------------------------------------------------------------------
(* Thread t enters Drive or Stop.                                          *)
BeginCall(t) ==
  /\ todo' = [todo EXCEPT ![t] = Wheels]
  /\ mixed' = \E u \in {TCP, Dog} \ {t} : todo[u] # {}

(* An exchange of thread t with the motor controller, as DriveLine has it: *)
(* the frame for the left wheel, then the one for the right wheel.         *)
SendFrame(t) ==
  /\ Alive /\ todo[t] # {} /\ D!Begin(t)
  /\ UNCHANGED <<watchdog, server, tcp, dog, todo, turn, wheels, mixed>>

NextWheel(t) == IF "left" \in todo[t] THEN "left" ELSE "right"
Turned(t)    == IF t = TCP THEN turn ELSE {}

(* What the wheels may do once the frame has been obeyed.                  *)
Outcomes(t) ==
  IF mixed THEN {wheels \cup {w} : w \in Wheels} \cup {wheels \ {w} : w \in Wheels}
  ELSE {(wheels \ {NextWheel(t)}) \cup (Turned(t) \cap {NextWheel(t)})}

(* What no longer matters to any call under way is reset.                  *)
Forget == /\ turn' = IF todo'[TCP] = {} THEN {} ELSE turn
          /\ mixed' = (mixed /\ \E t \in {TCP, Dog} : todo'[t] # {})

FrameObeyed(t) ==
  /\ Alive /\ user = t /\ D!Finish
  /\ todo' = [todo EXCEPT ![t] = @ \ {NextWheel(t)}]
  /\ wheels' \in Outcomes(t)
  /\ Forget
  /\ UNCHANGED <<watchdog, server, tcp, dog>>

(* WriteAndVerify throws: caught in OnCommandReceived, and nowhere on the  *)
(* watchdog's thread.                                                      *)
FrameFails(t) ==
  /\ Alive /\ (ClawFails \/ mixed) /\ user = t /\ D!Fail
  /\ todo' = [todo EXCEPT ![t] = {}]
  /\ wheels' \in Outcomes(t) \cup {wheels}
  /\ crashed' = (t = Dog)
  /\ Forget
  /\ UNCHANGED <<watchdog, main, srv, back, islsock, iscsock, killAll, csock, fds,
                 kind, peer, inbox, waiting, tcp, dog>>

Exchange(t) == SendFrame(t) \/ FrameObeyed(t) \/ FrameFails(t)

-----------------------------------------------------------------------------
(* The server's thread: OnCommandReceived, called for a "cmd" (a drive     *)
(* command) or an "other" one, kicks the watchdog first.                   *)
AfterKick == IF kind = "cmd" THEN "parse" ELSE "done"

TcpKick ==
  /\ Alive /\ srv = "handle" /\ tcp = "out"
  /\ IF keepRunning THEN W!KickCheck(TCP) /\ tcp' = "kick"
                    ELSE UNCHANGED watchdog /\ tcp' = AfterKick
  /\ UNCHANGED <<server, dog, drive>>

TcpKicked ==
  /\ Alive /\ tcp = "kick" /\ W!KickLocked(TCP)
  /\ tcp' = AfterKick
  /\ UNCHANGED <<server, dog, drive>>

(* Drive, unless the value does not parse or is out of range.              *)
TcpDrive ==
  /\ Alive /\ tcp = "parse"
  /\ \/ tcp' = "drive" /\ turn' \in Moves /\ BeginCall(TCP)
     \/ tcp' = "done" /\ UNCHANGED <<turn, todo, mixed>>
  /\ UNCHANGED <<watchdog, server, dog, user, ok, wheels>>

TcpReturn ==
  /\ tcp = "done" \/ (tcp = "drive" /\ todo[TCP] = {})
  /\ S!Handled
  /\ tcp' = "out"
  /\ UNCHANGED <<watchdog, dog, drive>>

(* The rest of the thread; a request to cancel it is acted upon in Drive's *)
(* exchange, or outside the listener.                                      *)
TcpServerStep == S!SrvStep /\ srv # "handle"
TcpCancelled  == S!Cancelled /\ (srv = "handle" => user = TCP /\ ok)

TcpStep == \/ TcpKick \/ TcpKicked \/ TcpDrive \/ TcpReturn
           \/ TcpServerStep /\ UNCHANGED <<watchdog, tcp, dog, drive>>
           \/ TcpCancelled /\ UNCHANGED <<watchdog, tcp, dog, drive>>

-----------------------------------------------------------------------------
(* The watchdog's thread: OnWatchdogTimeout reads the server's flags, in   *)
(* isConnected() and again in isAlive(), and stops the motors or throws,   *)
(* which on this thread ends the process.                                  *)
DogConnected ==
  /\ Alive /\ wpc[Dog] = "alert" /\ called < listeners /\ dog = "out"
  /\ dog' = IF iscsock THEN "alive" ELSE "stop"
  /\ UNCHANGED <<watchdog, server, tcp, drive>>

ServerDied == ~S!isAlive

DogAlive ==
  /\ Alive /\ dog = "alive"
  /\ IF ServerDied THEN dog' = "thrown" /\ crashed' = TRUE
                   ELSE dog' = "stop" /\ UNCHANGED crashed
  /\ UNCHANGED <<watchdog, main, srv, back, islsock, iscsock, killAll, csock, fds,
                 kind, peer, inbox, waiting, tcp, drive>>

DogStop_NoOp == UNCHANGED <<todo, mixed>>
DogStop == BeginCall(Dog)

DogStops ==
  /\ Alive /\ dog = "stop" /\ dog' = "stopping"
  /\ DogStop
  /\ UNCHANGED <<watchdog, server, tcp, user, ok, turn, wheels>>

DogReturn ==
  /\ Alive /\ dog = "stopping" /\ todo[Dog] = {} /\ W!DogCallback
  /\ dog' = "out"
  /\ UNCHANGED <<server, tcp, drive>>

DogStep == \/ DogConnected \/ DogAlive \/ DogStops \/ DogReturn
           \/ /\ Alive /\ W!DogNext /\ wpc' # wpc
              /\ UNCHANGED <<server, tcp, dog, drive>>

-----------------------------------------------------------------------------
Environment == /\ \/ (S!ClientNext \/ S!Failures) /\ UNCHANGED watchdog
                  \/ Alive /\ W!Tick /\ UNCHANGED server
               /\ UNCHANGED <<tcp, dog, drive>>

Next == \/ MainStep \/ TcpStep \/ DogStep \/ Environment
        \/ \E t \in {TCP, Dog} : Exchange(t)

Spec == Init /\ [][Next]_vars

(* Threads run, time passes, the motor controller answers, and the main    *)
(* thread finishes what it began: building the robot and taking it down.   *)
Deleting == main \in {"kill0", "kill1", "kill2", "kill3", "join", "done"}
MainGoesOn == MainStep /\ (wpc[Main] = "off" \/ Deleting)

Fairness ==
  /\ WF_vars(TcpStep) /\ WF_vars(DogStep) /\ WF_vars(MainGoesOn)
  /\ WF_vars(Alive /\ W!Tick /\ UNCHANGED <<server, tcp, dog, drive>>)
  /\ SF_vars(TcpKicked) /\ SF_vars(StopWatchdog /\ Alive /\ UNCHANGED <<tcp, dog, drive>>)
  /\ \A t \in {TCP, Dog} : SF_vars(SendFrame(t)) /\ WF_vars(FrameObeyed(t))

FairSpec == Spec /\ Fairness

-----------------------------------------------------------------------------
TypeOK ==
  /\ W!TypeOK /\ S!TypeOK
  /\ user \in {TCP, Dog, None} /\ ok \in BOOLEAN
  /\ tcp \in {"out", "kick", "parse", "drive", "done"}
  /\ dog \in {"out", "alive", "thrown", "stop", "stopping"}
  /\ todo \in [{TCP, Dog} -> SUBSET Wheels]
  /\ turn \subseteq Wheels /\ wheels \subseteq Wheels
  /\ mixed \in BOOLEAN

(* The watchdog's usage contract: when it is being stopped or is gone (it  *)
(* is deleted, mutex and all), the server's thread that kicks it is out of *)
(* the command listener for good.                                          *)
Deleted == main = "done" /\ wpc[Main] = "off"
ContractKept ==
  wpc[Main] \in {"stopping", "joining"} \/ Deleted => tcp = "out" /\ srv = "exited"

(* Once the robot is deleted nobody touches the motors any more: neither   *)
(* thread is in the drive module that was deleted.                         *)
NoOneDrives ==
  Deleted => (user = None \/ ~ok) /\ \A t \in {TCP, Dog} : todo[t] = {}

(* If the robot runs on and no command comes any more, its wheels end up   *)
(* still, unless the process has ended or an exchange failed.              *)
Abandoned  == main = "run" /\ wpc[Main] = "on" /\ srv # "handle"
RobotStops == <>[]Abandoned => <>[](wheels = {}) \/ <>(crashed \/ ~ok)

(* Deleting the robot, once begun, ends, unless the process crashes, an    *)
(* exchange failed, or Stop caught the watchdog in GetTimeoutMillis.       *)
ShutdownEnds == main \in {"kill0", "kill1"} ~> (Deleted \/ crashed \/ ~ok \/ W!Stuck)

(* "Server died, detected by Watchdog Timeout": what is thrown is true.    *)
ServerEnded == main # "run" \/ srv = "exited"
ThrowOnlyIfDead == dog = "thrown" => ServerEnded
=============================================================================
