----------------------- MODULE TeleoperatedRobotProofs ------------------------
(***************************************************************************)
(* Proofs about the robot put together, for any connections, lines,        *)
(* timeouts and failures.  The watchdog and the server keep the invariants *)
(* that were proved of them alone, as every step of the robot is one of    *)
(* theirs or leaves them be; the order in which the main thread builds and *)
(* deletes does the rest.                                                  *)
(***************************************************************************)
EXTENDS TeleoperatedRobot, TLAPS

WP == INSTANCE WatchdogProofs WITH pc <- wpc, Owner <- Main, Clients <- {TCP},
                                   MaxListeners <- 1, Spurious <- FALSE
SP == INSTANCE TcpServerProofs WITH MayFail <- FALSE

(* Where the main thread is decides what runs.                             *)
Order ==
  /\ main # "noServer"
  /\ main = "init" => wpc[Main] = "off"
  /\ main \in {"kill0", "kill1", "kill2", "kill3", "join"} => wpc[Main] = "on"
  /\ wpc[Main] \in {"stopping", "joining"} => main = "done"
  /\ main = "done" => srv = "exited"

(* A callback is entered from its thread's place, and who drives is in it. *)
InCallbacks ==
  /\ tcp # "out" => srv = "handle"
  /\ tcp \in {"parse", "drive"} => kind = "cmd"
  /\ dog # "out" => wpc[Dog] = "alert" /\ called < listeners
  /\ todo[TCP] # {} => tcp = "drive"
  /\ todo[Dog] # {} => dog = "stopping"
  /\ user # None /\ ok => todo[user] # {}

Types ==
  /\ user \in {TCP, Dog, None} /\ ok \in BOOLEAN
  /\ tcp \in {"out", "kick", "parse", "drive", "done"}
  /\ dog \in {"out", "alive", "thrown", "stop", "stopping"}
  /\ todo \in [{TCP, Dog} -> SUBSET Wheels]
  /\ turn \subseteq Wheels /\ wheels \subseteq Wheels
  /\ mixed \in BOOLEAN

Parts == WP!IInv /\ SP!TypeInv /\ SP!Connection
IInv  == Parts /\ Types /\ Order /\ InCallbacks

-----------------------------------------------------------------------------
(* The assumptions of the parts.                                           *)
LEMMA PartsAssumption == WP!WatchdogAssumption /\ SP!TcpServerAssumption
  BY RobotAssumption
  DEF WP!WatchdogAssumption, SP!TcpServerAssumption, S!AllLines, SP!AllLines

(* The parts' own invariants hold at first.                                *)
LEMMA InitParts == Init => Parts
  <1>1. W!Init => WP!Init
    BY DEF W!Init, WP!Init, W!Threads, WP!Threads, W!Allowed, WP!Allowed
  <1>2. S!Init => SP!Init
    BY DEF S!Init, SP!Init
  <1>. QED BY <1>1, <1>2, PartsAssumption, WP!InitIInv, SP!InitTypeInv, SP!InitConnection
           DEF Init, Parts

-----------------------------------------------------------------------------
(* A step of the watchdog as the robot takes it.                           *)
WatchdogStep ==
  \/ W!AddTimeoutCallback \/ W!Start \/ W!StopCheck \/ W!StopLocked \/ W!StopJoin
  \/ W!KickCheck(TCP) \/ W!KickLocked(TCP) \/ W!DogNext \/ W!Tick

(* Such a step keeps the watchdog's invariant.                             *)
LEMMA WatchdogKept == ASSUME WP!IInv, WatchdogStep \/ UNCHANGED watchdog PROVE WP!IInv'
  <1>. USE DEF W!config, WP!config, W!local, WP!local, W!Goto, WP!Goto,
               W!SignalAnd, WP!SignalAnd
  <1>1. CASE W!AddTimeoutCallback \/ W!Start \/ W!StopCheck \/ W!StopLocked \/ W!StopJoin
    <2>1. WP!OwnerNext
      BY <1>1 DEF W!AddTimeoutCallback, WP!AddTimeoutCallback, W!Start, WP!Start,
           W!StopCheck, WP!StopCheck, W!StopLocked, WP!StopLocked,
           W!StopJoin, WP!StopJoin, W!Joined, WP!Joined, WP!OwnerNext
    <2>. QED BY <2>1, PartsAssumption, WP!OwnerIInv
  <1>2. CASE W!KickCheck(TCP) \/ W!KickLocked(TCP)
    <2>1. WP!ClientNext(TCP)
      BY <1>2 DEF W!KickCheck, WP!KickCheck, W!KickLocked, WP!KickLocked,
                  WP!ClientNext, WP!ClientFinish
    <2>. QED BY <2>1, PartsAssumption, WP!ClientIInv
  <1>3. CASE W!DogNext
    <2>1. WP!DogNext
      BY <1>3
      DEF W!DogNext, WP!DogNext, W!DogLoop, WP!DogLoop, W!ShouldKeepRunning,
          WP!ShouldKeepRunning, W!GetCheck, WP!GetCheck, W!GetLocked, WP!GetLocked,
          W!GivesBack, WP!GivesBack, W!DogWait, WP!DogWait, W!DogTimeout, WP!DogTimeout,
          W!Expired, WP!Expired, W!DogWake, WP!DogWake, W!MustAlert, WP!MustAlert,
          W!DogCallback, WP!DogCallback, W!DogUnlock, WP!DogUnlock
    <2>. QED BY <2>1, PartsAssumption, WP!DogIInv
  <1>4. CASE W!Tick
    <2>1. WP!Tick
      BY <1>4 DEF W!Tick, WP!Tick, W!Older, WP!Older
    <2>. QED BY <2>1, PartsAssumption, WP!TickIInv
  <1>5. CASE UNCHANGED watchdog
    <2>1. UNCHANGED WP!vars
      BY <1>5 DEF watchdog, WP!vars
    <2>. QED BY <2>1, PartsAssumption, WP!NextIInv
  <1>. QED BY <1>1, <1>2, <1>3, <1>4, <1>5 DEF WatchdogStep

(* A step of the server as the robot takes it, and what the robot may do   *)
(* to it: end the process.                                                 *)
ServerStep ==
  \/ S!Start \/ S!MainNext \/ S!SrvStep \/ S!Handled \/ S!Cancelled
  \/ S!ClientNext \/ S!Failures

ServerStays == /\ UNCHANGED <<main, srv, back, islsock, iscsock, killAll, csock, fds, kind,
                              peer, inbox, waiting>>
               /\ crashed' \in {crashed, TRUE, FALSE}

(* The step is one of the server's own.                                    *)
LEMMA ServerSteps == ASSUME ServerStep PROVE SP!Next
  <1>. USE DEF S!flags, SP!flags, S!client, SP!client, S!Running, SP!Running,
               S!MainAt, SP!MainAt, S!SrvAt, SP!SrvAt
  <1>1. CASE S!Start \/ S!MainNext
    BY <1>1
    DEF S!MainNext, SP!MainNext, S!Start, SP!Start, S!StartFails, SP!StartFails,
        S!ListenFails, SP!ListenFails, S!KillServer, SP!KillServer,
        S!KillCloseConnection, SP!KillCloseConnection,
        S!KillClearFlag, SP!KillClearFlag, S!KillCloseListener, SP!KillCloseListener,
        S!KillCancel, SP!KillCancel, S!KillJoin, SP!KillJoin, S!KillNoServer,
        SP!KillNoServer, SP!Next
  <1>2. CASE S!SrvStep \/ S!Handled
    BY <1>2
    DEF S!SrvStep, SP!SrvStep, S!WaitForConnection, SP!WaitForConnection,
        S!close_connection, SP!close_connection, S!CloseTest, SP!CloseTest, S!Close, SP!Close,
        S!ClearFlag, SP!ClearFlag, S!Accepted, SP!Accepted, S!RaiseFlag, SP!RaiseFlag,
        S!Loop, SP!Loop,
        S!isAlive, SP!isAlive, S!ReceiveLines, SP!ReceiveLines, S!Text, SP!Text,
        S!IsCommand, SP!IsCommand, S!ReceivePiece, SP!ReceivePiece, S!ReceiveCheck,
        SP!ReceiveCheck, S!ReceiveNothing, SP!ReceiveNothing, S!AtEnd, SP!AtEnd,
        S!ReceiveEnds, SP!ReceiveEnds, S!Dispatch, SP!Dispatch, S!NextFor, SP!NextFor,
        S!Handled, SP!Handled, S!HasResult, SP!HasResult, S!SendCheck, SP!SendCheck, S!Send,
        SP!Send, S!SendClosed, SP!SendClosed, S!SendEnds, SP!SendEnds, S!Accept, SP!Accept, SP!Next
  <1>3. CASE S!Cancelled \/ S!Failures
    BY <1>3
    DEF S!Cancelled, SP!Cancelled, S!Cancellable, SP!Cancellable, S!Failures, SP!Failures,
        S!AcceptFails, SP!AcceptFails, S!ReceiveFails, SP!ReceiveFails, S!ReceiveEnds,
        SP!ReceiveEnds, S!SendFails, SP!SendFails, S!SendEnds, SP!SendEnds,
        S!close_connection, SP!close_connection, SP!Next
  <1>4. CASE S!ClientNext
    BY <1>4
    DEF S!ClientNext, SP!ClientNext, S!Connect, SP!Connect, S!ClientClose, SP!ClientClose,
        S!ClientSend, SP!ClientSend, S!Answered, SP!Answered, SP!Next
  <1>. QED BY <1>1, <1>2, <1>3, <1>4 DEF ServerStep

(* It keeps the server's invariants, and so does the end of the process.   *)
LEMMA ServerKept ==
  ASSUME SP!TypeInv, SP!Connection,
         ServerStep \/ ServerStays
  PROVE  SP!TypeInv' /\ SP!Connection'
  <1>1. CASE ServerStep
    <2>1. SP!Connection'
      BY <1>1, ServerSteps, PartsAssumption, SP!NextConnection
    <2>2. SP!MainNext \/ SP!SrvStep \/ SP!Failures \/ SP!Cancelled \/ SP!ClientNext
      BY <1>1, ServerSteps DEF SP!Next
    <2>. QED BY <2>1, <2>2, PartsAssumption, SP!MainTypes, SP!SrvTypes, SP!ClientTypes
  <1>2. CASE ServerStays
    <2>1. crashed' \in BOOLEAN
      BY <1>2 DEF ServerStays, SP!TypeInv, SP!TypeOK
    <2>. QED BY <1>2, <2>1
             DEF ServerStays, SP!TypeInv, SP!TypeOK, SP!Served, SP!Connection,
                 SP!OneConnection, SP!UsesOpenConnection
  <1>. QED BY <1>1, <1>2

(* The robot takes no other steps.                                         *)
LEMMA PartsKept == ASSUME IInv, [Next]_vars PROVE Parts'
  <1>1. WatchdogStep \/ UNCHANGED watchdog
    BY DEF Next, vars, watchdog, MainStep, RegisterCallback, StartServer, StartWatchdog,
           StopStreamKills, KillServer, StopWatchdog, TcpStep, TcpKick, TcpKicked,
           TcpDrive, TcpReturn, TcpServerStep, DogStep, DogConnected, DogAlive, DogStops,
           DogReturn, Environment, Exchange, SendFrame, FrameObeyed, FrameFails,
           WatchdogStep, W!DogNext
  <1>2. ServerStep \/ ServerStays
    <2>. USE DEF ServerStep, ServerStays, server
    <2>1. CASE MainStep
      BY <2>1 DEF MainStep, RegisterCallback, StartServer, StartWatchdog,
                  StopStreamKills, KillServer, StopWatchdog
    <2>2. CASE TcpStep
      BY <2>2 DEF TcpStep, TcpKick, TcpKicked, TcpDrive, TcpReturn, TcpServerStep,
                  TcpCancelled
    <2>3. CASE DogStep
      BY <2>3 DEF DogStep, DogConnected, DogAlive, DogStops, DogReturn
    <2>4. CASE Environment
      BY <2>4 DEF Environment
    <2>5. CASE \E t \in {TCP, Dog} : Exchange(t)
      <3>. PICK t \in {TCP, Dog} : Exchange(t)
        BY <2>5
      <3>1. (t = Dog) \in {TRUE, FALSE}
        OBVIOUS
      <3>. QED BY <3>1 DEF Exchange, SendFrame, FrameObeyed, FrameFails
    <2>6. CASE UNCHANGED vars
      BY <2>6 DEF vars
    <2>. QED BY <2>1, <2>2, <2>3, <2>4, <2>5, <2>6 DEF Next
  <1>3. WP!IInv /\ SP!TypeInv /\ SP!Connection
    BY DEF IInv, Parts
  <1>4. WP!IInv'
    BY <1>1, <1>3, WatchdogKept
  <1>5. SP!TypeInv' /\ SP!Connection'
    BY <1>2, <1>3, ServerKept
  <1>. QED BY <1>4, <1>5 DEF Parts

-----------------------------------------------------------------------------
(* What the parts' invariants say to the robot.                            *)
Known ==
  /\ wpc = [t \in {TCP, Dog, Main} |-> wpc[t]]
  /\ called \in 0..1 /\ listeners \in 0..1
  /\ wpc[Dog] = "alert" => keepRunning
  /\ keepRunning <=> wpc[Main] \in {"on", "stopping"}
  /\ wpc[Main] = "off" => wpc[Dog] \in {"none", "exited"}
  /\ main = "init" => srv = "none"

LEMMA PartsSay == IInv => Known
  <1>. SUFFICES ASSUME IInv PROVE Known
    OBVIOUS
  <1>1. wpc = [t \in {TCP, Dog, Main} |-> wpc[t]]
    BY DEF IInv, Parts, WP!IInv, WP!TypeOK, WP!Threads
  <1>2. called \in 0..1 /\ listeners \in 0..1
    BY DEF IInv, Parts, WP!IInv, WP!TypeOK
  <1>. QED BY <1>1, <1>2
           DEF Known, IInv, Parts, WP!IInv, WP!Lifecycle, WP!Mutex, SP!Connection

Rest == Types /\ Order /\ InCallbacks

(* The main thread builds and deletes in order.                            *)
LEMMA MainKept == ASSUME IInv, Known, MainStep PROVE Rest'
  <1>. USE RobotAssumption DEF IInv, Known, Rest, Types, Order, InCallbacks, MainStep, drive
  <1>1. CASE RegisterCallback
    BY <1>1 DEF RegisterCallback, W!AddTimeoutCallback, server
  <1>2. CASE StartServer
    BY <1>2 DEF StartServer, S!Start, S!MainAt, watchdog
  <1>3. CASE StartWatchdog
    BY <1>3 DEF StartWatchdog, W!Start, server
  <1>4. CASE StopStreamKills
    BY <1>4 DEF StopStreamKills, watchdog
  <1>5. CASE KillServer
    BY <1>5 DEF KillServer, S!MainNext, S!Start, S!StartFails, S!ListenFails,
                S!KillServer, S!KillCloseConnection, S!KillClearFlag, S!KillCloseListener,
                S!KillCancel, S!KillJoin, S!KillNoServer, S!MainAt, watchdog
  <1>6. CASE StopWatchdog
    <2>1. /\ UNCHANGED <<server, tcp, dog, drive, called, listeners>> /\ main = "done"
          /\ wpc[Dog] = "wait" \/ wpc'[Dog] = wpc[Dog]
      BY <1>6 DEF StopWatchdog, MayStopWatchdog, W!StopCheck, W!StopLocked, W!StopJoin,
                  W!Goto, W!SignalAnd, W!local, W!config
    <2>. QED BY <2>1 DEF server
  <1>. QED BY <1>1, <1>2, <1>3, <1>4, <1>5, <1>6

(* The server's thread is in the listener from Dispatch to Handled.        *)
LEMMA TcpKept == ASSUME IInv, Known, TcpStep PROVE Rest'
  <1>. USE RobotAssumption DEF IInv, Known, Rest, Types, Order, InCallbacks, TcpStep, drive
  <1>1. CASE TcpKick
    BY <1>1 DEF TcpKick, AfterKick, W!KickCheck, W!Goto, W!config, W!local, watchdog, server
  <1>2. CASE TcpKicked
    BY <1>2 DEF TcpKicked, AfterKick, W!KickLocked, W!SignalAnd, W!config, server
  <1>3. CASE TcpDrive
    <2>1. mixed' \in BOOLEAN
      BY <1>3 DEF TcpDrive, BeginCall
    <2>2. turn' \subseteq Wheels /\ todo' \in [{TCP, Dog} -> SUBSET Wheels]
      BY <1>3 DEF TcpDrive, BeginCall
    <2>. QED BY <1>3, <2>1, <2>2 DEF TcpDrive, BeginCall, watchdog, server
  <1>4. CASE TcpReturn
    BY <1>4 DEF TcpReturn, S!Handled, S!SrvAt, watchdog
  <1>5. CASE TcpServerStep /\ UNCHANGED <<watchdog, tcp, dog, drive>>
    <2>1. tcp = "out" /\ UNCHANGED main /\ main # "done"
      BY <1>5 DEF TcpServerStep, S!SrvStep, S!WaitForConnection, S!Accepted, S!RaiseFlag,
           S!Loop, S!CloseTest, S!Close, S!ClearFlag, S!close_connection,
           S!ReceiveLines, S!ReceivePiece, S!ReceiveCheck, S!ReceiveNothing, S!ReceiveEnds,
           S!Dispatch, S!Handled, S!SendCheck, S!Send, S!SendClosed, S!SendEnds, S!Accept, S!SrvAt
    <2>. QED BY <1>5, <2>1 DEF watchdog
  <1>6. CASE TcpCancelled /\ UNCHANGED <<watchdog, tcp, dog, drive>>
    BY <1>6 DEF TcpCancelled, S!Cancelled, S!Cancellable, watchdog
  <1>. QED BY <1>1, <1>2, <1>3, <1>4, <1>5, <1>6

(* The watchdog's thread is in its listener while its place is "alert".    *)
LEMMA DogKept == ASSUME IInv, Known, DogStep PROVE Rest'
  <1>. USE RobotAssumption DEF IInv, Known, Rest, Types, Order, InCallbacks, DogStep, drive
  <1>1. CASE DogConnected
    BY <1>1 DEF DogConnected, watchdog, server
  <1>2. CASE DogAlive
    BY <1>2 DEF DogAlive, watchdog
  <1>3. CASE DogStops
    BY <1>3 DEF DogStops, DogStop, BeginCall, Wheels, watchdog, server
  <1>4. CASE DogReturn
    BY <1>4 DEF DogReturn, W!DogCallback, server
  <1>5. CASE Alive /\ W!DogNext /\ wpc' # wpc /\ UNCHANGED <<server, tcp, dog, drive>>
    <2>1. /\ UNCHANGED listeners /\ wpc'[Main] = wpc[Main]
          /\ wpc[Dog] = "alert" => called = listeners
      BY <1>5 DEF W!DogNext, W!DogLoop, W!GetCheck, W!GetLocked, W!DogWait, W!DogTimeout,
           W!DogWake, W!DogCallback, W!DogUnlock, W!Goto, W!config, W!local
    <2>. QED BY <1>5, <2>1 DEF server
  <1>. QED BY <1>1, <1>2, <1>3, <1>4, <1>5

(* Only a thread that has a wheel to command exchanges frames.             *)
LEMMA ExchangeKept == ASSUME IInv, Known, NEW t \in {TCP, Dog}, Exchange(t) PROVE Rest'
  <1>. USE RobotAssumption DEF IInv, Known, Rest, Types, Order, InCallbacks, Exchange, drive
  <1>1. CASE SendFrame(t)
    BY <1>1 DEF SendFrame, D!Begin, watchdog, server
  <1>2. CASE FrameObeyed(t)
    BY <1>2 DEF FrameObeyed, D!Finish, Outcomes, NextWheel, Turned, Forget, Wheels,
                watchdog, server
  <1>3. CASE FrameFails(t)
    <2>1. mixed' \in BOOLEAN /\ turn' \subseteq Wheels
      BY <1>3 DEF FrameFails, Forget
    <2>2. wheels' \subseteq Wheels /\ todo' \in [{TCP, Dog} -> SUBSET Wheels]
      BY <1>3 DEF FrameFails, Outcomes, NextWheel, Turned, Wheels
    <2>3. ok' = FALSE /\ todo'[t] = {} /\ \A u \in {TCP, Dog} \ {t} : todo'[u] = todo[u]
      BY <1>3 DEF FrameFails, D!Fail
    <2>. QED BY <1>3, <2>1, <2>2, <2>3 DEF FrameFails, D!Fail, watchdog
  <1>. QED BY <1>1, <1>2, <1>3

(* Clients and failures leave the listener alone.                          *)
LEMMA EnvironmentKept == ASSUME IInv, Known, Environment PROVE Rest'
  <1>. USE RobotAssumption DEF IInv, Known, Rest, Types, Order, InCallbacks, Environment, drive
  <1>1. CASE S!ClientNext /\ UNCHANGED watchdog
    BY <1>1 DEF S!ClientNext, S!Connect, S!ClientClose, S!ClientSend, S!flags, watchdog
  <1>2. CASE S!Failures /\ UNCHANGED watchdog
    BY <1>2 DEF S!Failures, S!AcceptFails, S!ReceiveFails, S!ReceiveEnds, S!SendFails,
                S!SendEnds, S!close_connection, S!SrvAt, watchdog
  <1>3. CASE W!Tick /\ UNCHANGED server
    BY <1>3 DEF W!Tick, W!config, W!local, server
  <1>. QED BY <1>1, <1>2, <1>3

(* The invariant is inductive.                                             *)
LEMMA InitIInv == Init => IInv
  BY InitParts, RobotAssumption
  DEF Init, W!Init, S!Init, D!Init, IInv, Types, Order, InCallbacks, W!Threads, Wheels

LEMMA NextIInv == IInv /\ [Next]_vars => IInv'
  <1>. SUFFICES ASSUME IInv, [Next]_vars PROVE IInv'
    OBVIOUS
  <1>1. Parts'
    BY PartsKept
  <1>2. Known
    BY PartsSay
  <1>3. Rest'
    <2>1. CASE UNCHANGED vars
      BY <2>1 DEF IInv, Rest, Types, Order, InCallbacks, vars, watchdog, server, drive
    <2>. QED BY <1>2, <2>1, MainKept, TcpKept, DogKept, ExchangeKept, EnvironmentKept DEF Next
  <1>. QED BY <1>1, <1>3 DEF IInv, Rest

LEMMA Invariance == Spec => []IInv
  BY InitIInv, NextIInv, PTL DEF Spec

-----------------------------------------------------------------------------
(* Every variable keeps its type, those of the parts included.             *)
THEOREM RobotTypeCorrect == Spec => []TypeOK
  <1>1. IInv => W!TypeOK
    BY DEF IInv, Parts, WP!IInv, WP!TypeOK, W!TypeOK, WP!Threads, W!Threads, WP!DogPC,
           W!DogPC, WP!OwnerPC, W!OwnerPC, WP!ClientPC, W!ClientPC
  <1>2. IInv => S!TypeOK
    BY DEF IInv, Parts, SP!TypeInv, SP!TypeOK, S!TypeOK, SP!MainPC, S!MainPC, SP!SrvPC,
           S!SrvPC, SP!Returns, S!Returns, SP!AllLines, S!AllLines, SP!PeerPC, S!PeerPC
  <1>3. IInv => TypeOK
    BY <1>1, <1>2 DEF IInv, Types, TypeOK
  <1>. QED BY <1>3, Invariance, PTL

(* The watchdog is stopped and deleted only when the server's thread,      *)
(* which kicks it, is out of the command listener for good.                *)
THEOREM ContractIsKept == Spec => []ContractKept
  <1>1. IInv => ContractKept
    BY DEF IInv, Types, Order, InCallbacks, ContractKept, Deleted
  <1>. QED BY <1>1, Invariance, PTL

(* Once the robot is deleted no thread touches the motors.                 *)
THEOREM NobodyDrivesDeleted == Spec => []NoOneDrives
  <1>1. IInv => NoOneDrives
    BY PartsSay DEF Known, IInv, Types, Order, InCallbacks, NoOneDrives, Deleted
  <1>. QED BY <1>1, Invariance, PTL
=============================================================================
