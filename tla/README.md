# TLA+ models of the Clank robotics platform

This directory holds TLA+ specifications of the program that drives the Clank
robot (`src/clank`), the TLC configurations that check them on small instances,
and proofs, checked by TLAPS, of what must hold for every instance.

A teleoperated Clank is a small concurrent program around one promise: **a robot
whose operator is gone stands still**. Three threads keep it (main, TCP server,
watchdog) over two mutexes, a few unguarded flags and one serial line. The core
of this project is that promise and everything it rests on.

## 1. The system

| Part (source under `src/clank/lib`) | State | Operations | Talks to | What makes it correct |
|---|---|---|---|---|
| **Watchdog** `timers/` | KeepRunning, TimeoutMs, listeners, one mutex, one condition | Start, Stop, Kick, Set/GetTimeoutMillis, AddTimeoutCallback, its thread | calls listeners on its own thread, mutex held | alerts when and only when nobody kicked for a timeout; Stop ends it |
| **DifferentialDriveModule, ClawMotorController, ClawMotor** `module/`, `motor/` | SetSpeed, SetHeading, DataBuffer, mutex, Timeout, velocities | Drive, Stop, SetMotor1/2Velocity, WriteAndVerify | serial line to the motor controller | wheels do what the last call said; an unanswered frame is noticed |
| **TcpServer, Command** `communication/` | islsock, iscsock, killAll, csocket | Start, KillServer, Receive, Send, its thread | one client at a time; command listener on its own thread | serves until killed; one connection; answers go to who asked |
| **TeleoperatedRobot** `robot/` | owns the parts | ConstructFromFile, destructor, OnCommandReceived, OnWatchdogTimeout | all of the above | promise above; orderly construction and deletion |
| **VideoStreamer** `module/VideoStreamer` | PID, killVals, a child process | StartStream, StopStream | `fork`, `ps`, `kill` | the stream ends; nothing else does |
| **SAM daemon** `../SAM/` (firmware of the I/O board) | per pin: state, Enabled, what was last reported; TxBuf | loop: ReportStatus, ProcessMessage | serial port to the host library | every change and every answer is reported; ramps end; a pin given back is off |
| **SAM host library** `hardware/` | PeripheralMap, EnabledStates, each pin's staged and believed state | the serial port's constructor, its reader thread, Get, Return, RouteMessage, pin setters | serial port; the program's main thread | answers reach who asked; both sides agree who has which pin |
| **Lite and VHN2 motors** `motor/` | their pins | constructor, SetVelocity, SetRampSpeed, destructor | pins | the motor turns as it was last told |
| **Configuration** `configuration/` | tree of tags, keys and values, shared by copies | the reader, FindConfigurationByTag, destructor | all constructors | the tree is the file's; nobody uses what was deleted |
| Maps `navigation/`, `types/navigation/` | obstacles in a grid | add, find, remove, serialise | plotter | part of no build |
| Planner stubs, map plotter, messages, test programs | none | - | - | stubs, drawing, logging macros, interactive programs |
| Frontend (Java) `src/frontend` | poller thread, socket | ping, drive commands | TcpServer | operator alive means pings |
| gtest, two copies of mjpg-streamer | vendored | - | - | not this program |

### How the parts interact

`StartTeleoperatedRobot.cpp` builds the robot on the main thread, sleeps, and
deletes it. `ConstructFromFile` makes the drive module (which stops the wheels),
registers the two callbacks, starts the server, then the video stream, then the
watchdog. From then on

* the **server thread** reads lines; a command goes to `OnCommandReceived`, which
  kicks the watchdog, and for a drive command calls `Drive`: two exchanges with
  the motor controller;
* the **watchdog thread** sleeps on a condition until an absolute deadline; a
  kick restarts it; a time-out calls `OnWatchdogTimeout`, which looks at the
  server's flags and calls `Stop`: the same two exchanges, with the watchdog's
  mutex held;
* the **main thread**'s destructor kills the server (close, clear flag,
  `pthread_cancel`, join) and then deletes the watchdog (clear flag, signal,
  join) and the drive module.

The program also reads a file of indented sections before it does anything else
(`ConstructFromFile` searches the tree for one section after the other and gives
each constructor a copy). Apart from the robot stands the **SAM**: a microcontroller
that owns GPIO, ADC and PWM pins and talks in lines of text with a library on the
host, on which two kinds of motors are built. In the library a *reader thread* fills
what the main thread's objects believe of their pins and answers what `Get` and
`Return` wait for; neither locks anything.

Shared without any lock: `iscsock`, `killAll` (server, watchdog and main
threads), `SetSpeed`, `SetHeading`, `DataBuffer` (server and watchdog threads),
the pre-checks of `KeepRunning`.

### What is hard

The hazards are listed, each at its line, in `PROJECT.json`. The worst are the
second test of `KeepRunning` in `GetTimeoutMillis` (Watchdog.cpp:111), kicks that
nobody hears (133), a mutex kept by a throw (ClawMotorController.cpp:271), a frame
buffer filled outside the mutex (231), a `select` that eats its own timeout (259),
a connection closed by `Send` without a way back to `accept` (TcpServer.cpp:332),
cancellation inside a `catch (...)` (186), and a flag read twice
(TeleoperatedRobot.cpp:102). Outside the robot: an answer that may come before the
place for it exists (SamPeripheralManager.cpp:79), a report that is dropped after it
was noted as sent (HardwareDaemon.ino:107), copies of a tree whose destructors empty
what other copies share (Configuration.cpp:17), and process ids taken from the wrong
column (VideoStreamer.cpp:123).

## 2. The modules

| Module | Models | Built on |
|---|---|---|
| `Watchdog` | `Watchdog.cpp`: thread, owner, clients | - |
| `WatchdogTimes` | the same, with three clocks that only remember | `Watchdog` |
| `WatchdogProofs`, `WatchdogTimesProofs` | theorems about the two | `Watchdog`, `WatchdogTimes` |
| `DriveLine` | abstract: what the serial line promises its callers | - |
| `ClawDrive` | drive module and motor controller, several callers | refines `DriveLine` |
| `TcpServer` | `TcpServer.cpp`, and `Command::Parse` by what it yields | - |
| `ClawDriveProofs`, `TcpServerProofs` | theorems about the two | `ClawDrive`, `TcpServer` |
| `TeleoperatedRobot` | the composition | instances of `Watchdog`, `TcpServer`, `DriveLine` |
| `TeleoperatedRobotProofs` | theorems about it, from those of the parts | `TeleoperatedRobot` |
| `SamDaemon` | `HardwareDaemon.ino` and its pins | - |
| `Sam` | the host library, over the daemon and the serial line | `SamDaemon` |
| `SamMotors` | programs with a motor, or with bare pins | `Sam` |
| `SamProofs` | the invariant of the three; what everything but the line keeps of it | `SamMotors` |
| `SamLineProofs` | what the line keeps of it, and the theorems | `SamProofs` |
| `ConfigurationReader` | `IndentedFileConfigurationReader.cpp` | - |
| `Configuration` | `Configuration.cpp` as `ConstructFromFile` uses it | `ConfigurationReader` |
| `ConfigurationProofs` | theorems about it | `Configuration` |
| `VideoStreamer` | `VideoStreamer.cpp` | - |
| `MC_*` | instances for TLC | the module they are named after |

### Watchdog

*State.* `keepRunning`, `timeout`, `listeners` are KeepRunning, TimeoutMs and
TimeoutListeners.size(). `holder` is who keeps the mutex *across* steps: a section
that locks, touches only guarded state and unlocks is a single step. That leaves
the two places where the mutex really outlives a section: `Alert` (listeners run
under it) and a `GetTimeoutMillis` whose second test fails. `limit`, `timedOut`,
`called` are the thread's locals; `pc` says where each thread is.

*Time.* `age` counts ticks since the thread's `gettimeofday`; the deadline has
passed when `age >= limit`. The clock saturates at `Horizon`, which no timeout
exceeds, so nothing is lost by it.

*Reads of `KeepRunning` without the lock* (the loop's test, the pre-checks of
Kick, Set- and GetTimeoutMillis) are steps of their own, so that Stop may fall
between test and lock. Only a GetTimeoutMillis that skipped the lock reads
`TimeoutMs` in the same step.

*Environment.* Any client may kick, set and get at any time while the watchdog is
on; Stop is called when no client is inside (the contract that `TeleoperatedRobot`
must and does keep, see `ContractKept`); the condition may wake spuriously.
Restart (Start after Stop) is included: the unit tests do it.

*WatchdogTimes* adds `calm` (since Start, the last alert or the last kick that was
heard), `quiet` (since Start or the last kick, heard or not) and `lag` (what the
thread took from `gettimeofday` to its wait). They constrain nothing: `TSpec`
implies `Spec` (theorem `TimesRefine`).

### ClawDrive and DriveLine

*State.* `setSpeed`, `setHeading`, `buffer`, `budget`, `recorded` are SetSpeed,
SetHeading, DataBuffer, Timeout and the two recorded velocities. `mutex` is the
controller's. `loc` are a thread's locals. `line`, `answer`, `motors` are the world:
a frame under way, its answer, what the wheels do. `waited` and `overlap` only
remember.

*Steps.* Each read or write of shared, unguarded state is a step: set speed, set
heading, compute left, compute right, write command byte, write speed and CRC, and
then the exchange under the mutex (`Send`, `SelectWaits`, `Acknowledged`,
`NotRecognized`, `NoResponse`). A throw keeps the mutex, as the code does; it is
caught around `Drive` only.

*Abstractions.* Headings are eighths of a turn, where the cosines are exact. A CRC
is the pair of bytes it was computed from, hence a frame mixed from two calls is
detected by the controller exactly when CRC-16 would tell the two apart. The
controller acknowledges, garbles or stays silent (`Noise`).

*DriveLine* is the promise: exchanges follow one another, the first failure is the
last exchange. `ClawDrive` implements it with `user <- mutex, ok <- ~Failed`
(`LineSpec`), and `TeleoperatedRobot` uses it in place of the whole drive.

### TcpServer

*State.* `islsock`, `iscsock`, `killAll`, `csock` are the members; `fds` the
descriptors the process really has open, so that a flag can be wrong about them;
`kind` the text in the buffer; `peer`, `inbox`, `waiting` the clients.

*Steps.* The thread's loop is followed call by call (`wait_for_connection`,
`accept`, the check and the read of `Receive`, dispatch, listener, `Send`), and
`KillServer` statement by statement, since they share the flags without a lock: the
test, the `close` and the clearing of the flag in `close_connection` and in `KillServer`
are steps of their own (`back` is where `close_connection` returns to). A
`recv` returns whatever has arrived: one line, several, or a piece without the
newline. Each kind of text is one of six; what `Command::Parse` makes of several
lines in one chunk is `Text`.

*Undefined behaviour.* Killing a server that never started touches a mutex and a
thread that do not exist; both outcomes are allowed.

### TeleoperatedRobot

Watchdog and server are taken whole, as instances, with the same variables; their
steps are reused, and what lies between entering a callback and leaving it is
refined here: kick, then drive (`TcpKick`, `TcpKicked`, `TcpDrive`, frames,
`TcpReturn`), and `isConnected`, `isAlive`, stop (`DogConnected`, `DogAlive`,
`DogStops`, frames, `DogReturn`) on the watchdog's. Of the drive there remain its exchanges and
which wheels were last told to turn; calls that overlap may leave either wheel
turning or still, or fail, as `ClawDrive` shows. `crashed` is shared: the process
ends for all. The destructor begins with the video streamer's StopStream, which may
kill the robot itself (`StopStreamKills`, from `VideoStreamer`).

### SamDaemon, Sam, SamMotors

*State.* Per pin the daemon has `enabled`, `shown` (LastReportedEnabled), `st` and
`rep` (its fields, and those last reported); `duty` is what `analogWrite` left on a PWM
pin. On the host, `map` and `entry` are PeripheralMap and EnabledStates (which never
has more than one entry), `staging` and `cache` what an object asked for and what it
believes, `todo` the operations the main thread still has to do. `map` tells an object
under construction (`base`: its ParseMessage is pure virtual) from a finished one.

*Steps.* The daemon's loop is two: `ReportStatus`, which visits all pins in order and
writes all their lines or, if one does not fit, none; and `ProcessMessage`, one line.
A report is stated without a loop: the pins that have something to say are queued in the
order of their visit (`Queue`), and either all fit, or the first that does not ends the
report, and the pins before it have been visited (`Visit`) in vain.
The host goes call by call (handshake) and statement by statement where the reader
thread may come between (`Get`, `Return`, a pin's constructor). The reader thread takes one
line per step. An exception on either thread, or the end of `main`, ends the process
(`End`): nothing resets the SAM then, and another process may be started.

*The line.* Each direction is a queue of whole lines, as with the `icanon` that the
constructor asks `stty` for; carriage returns and echo are left out. Values have at
most two decimals, so that `%.2f` loses nothing. While no process has the port open,
what the SAM says is lost; a new process starts after the SAM has read its input, and
may open the port in the middle of a line (`spoilt`). Text written without a newline
(`setup`, the error of a full buffer) turns the next line into junk.

*Undefined behaviour.* One constructor of `AdcPin` never sets its set point: any
threshold may be sent. That both threads use the same `std::map` without a lock is
taken as atomic accesses.

*As in the code.* An ADC threshold of 0 is refused by the SAM, and one of 100 is
accepted there and throws on the reader thread. Pins keep their state, PWM pins their duty, when the process
ends. VHN2Motor's second pin is made an input, so it is never driven. Reversing a
motor flips its direction before the pulse has changed.

### ConfigurationReader and Configuration

*State.* `lines` are the lines read so far, each with its level and a tag, a pair or
neither; a configuration is the number of the line that begins it; `parent`, `kids`,
`data` are its fields. `stack` are the calls of ReadConfigurationHelper under way, so
that recursion is a sequence and the proofs need no induction over it. `current` and
`inner` are the copies on the stack of ConstructFromFile and of the drive module's
constructor; `freed` are the nodes deleted.

*Steps.* A step reads one line (a tag, a pair), returns from one call, throws, or is
one FindConfigurationByTag with the assignment to the copy, or one destructor. The file
is not fixed at first: each line is chosen when it is read, up to `MaxLines`.

*As in the code.* The first line is the root's tag whatever its indentation; an empty
file is a root with an empty tag; what follows the line that ends level 0 is silently
ignored; `key;` is a pair whose value is the line up to the `;`. `getline` leaves an
empty line once the file has ended with a newline, but the last line as it was if the file
ended without one (`unended`, `GetAgain`). `current` is a copy whose children
the root shares; ConstructFromFile takes its sections, and the drive module its part,
in an order in which no destructor deletes what another copy still uses. `NoDangling`
shows just that: it is a property of the order, not of the class.

### VideoStreamer

A table of processes: the robot, its child, mjpg_streamer, other people's. `fork` may
fail (then `PID` is -1, and `kill -9 -1` kills all that the user may kill); `FindPIDs`
keeps the third column of `ps aux`.

## 3. What the runs show

Passing runs check every interleaving of a small instance; a *violation* run checks
one sentence of the repository that the code does not live up to.

| Run | Instance | Question and answer |
|---|---|---|
| `Watchdog_pass` | 2 clients, timeouts 1 and 3 ticks (0 is offered and refused), 1 listener, spurious wakes, any number of restarts | Types; no listener runs outside Start..Stop (`AlertDuringRun`); Stop leaves no thread, no lock, nobody inside (`StoppedMeansGone`); who may keep the mutex (`MutexKept`); alerts are spaced by a timeout (`AlertSpacing`); even a lost kick defers by a timeout less the thread's lag (`KickDefersWait`); alerts never dry up (`AlertsKeepComing`); Stop returns unless it met the thread in GetTimeoutMillis (`StopReturnsElsewhere`) |
| `Watchdog_stop` | *violation* | `StopReturns`: Stop may wait for ever |
| `ClawDrive_single` | 1 driver, all nine headings, speeds 0, 55, 100, arguments beyond both ends, noise, liveness | Types and widths; every call ends unless an exchange fails (`CallsEnd`); the wheels do what the table of headings says, to the byte (`Obeyed`) |
| `ClawDrive_race` | TCP and watchdog threads, two headings | `DriveLine` is implemented, so exchanges do not overlap (`LineSpec`); after a failure nothing changes the motors any more (`FailureIsFinal`); the wheels obey when calls did not overlap (`Obeyed`) |
| `TcpServer_safety` | 2 connections, pipelined and split lines, losses, a listen socket that fails | until KillServer clears the flag no descriptor leaks (`OneConnection`); until it closes the connection no closed one is used, and the flag tells the truth but for the instant between the two steps of close_connection (`UsesOpenConnection`) |
| `TcpServer_wait` | 2 connections, clients that wait for answers but may have two lines under way, lines that are no command, losses, liveness | an answer goes to a client that awaits one (`AnswersMatch`); a line that is alone under way is answered unless the process crashes (`LoneLineAnswered`); nobody waits but behind another client (`WaitsBehindAnother`); KillServer joins or the process crashed (`KillReturns`) |
| `TcpServer_lost` | *violation* | `ServesUntilKilled`: a connection lost in Send ends the server |
| `TeleoperatedRobot_pass` | 1 client, 1 timeout, drive commands, connections that break, exchanges that fail | the server is out of the listener for good before the watchdog it kicks is stopped (`ContractKept`) and nobody is in the deleted drive module (`NoOneDrives`); an abandoned robot stands still (`RobotStops`); deletion ends (`ShutdownEnds`) |
| `TeleoperatedRobot_throw` | *violation* | `ThrowOnlyIfDead`: the server gives up a connection between two reads of its flag, which ends the robot |
| `Sam_pass` | 2 GPIO, 1 ADC and 1 PWM pin, a buffer of 2 lines, 2 lines under way each way, thresholds 0, 5 and 100, ramps -1 and 1, speeds 0 and 2; a program with either motor or with bare pins; processes that end and start | while Get or Return waits exactly one answer is under way, else none (`Answering`); both sides agree on the pins in use, and no line about one ends the process, but for the pin that is being created or returned (`OneView`); IsConsistant is true once things have settled (`Consistent`); a deleted PWM pin is off, unless it was cut off on its ramp (`OffWhenDeleted`); a motor turns as it was last told (`MotorObeys`); a new process starts from a clean line whatever the last one left (`SessionClean`); calls return (`CallsEnd`), ramps end (`RampEnds`) |
| `Configuration_pass` | every file of at most 6 lines, levels 0 to 4, 3 tags, 1 key; two sections, the first of which is divided; with a newline at the end or without | the reading ends unless the last line lacks its newline inside a tag (`EndlessOnlyInside`); the tree is the file's, by parents, children and values (`TreeRead`); no pointer outlives its node (`NoDangling`); a section found is the first of its tag and has all its values (`SectionsKept`) |
| `VideoStreamer_stop` | *violation* | `StreamIsDead`: the streamer survives StopStream |

Deadlock is checked for the watchdog, whose clock always ticks, and not for the
others, which may come to rest: a process that crashed, a drive that failed, a
server that ended.

### Findings

1. **Stop may hang** (`Watchdog_stop`). The thread passes the first test in
   `GetTimeoutMillis`; Stop locks, clears KeepRunning, unlocks; the thread locks,
   reads, tests again, and does *not* unlock; it locks again at line 33 and waits for
   itself, Stop for it. `StopReturnsElsewhere` shows this is the only way.
2. **A failed send ends the server** (`TcpServer_lost`), though a failed receive
   waits for a new client. The watchdog does not notice: with the flag down,
   `OnWatchdogTimeout` takes the branch that only stops the motors.
3. **A client that leaves may end the robot** (`TeleoperatedRobot_throw`). It has closed
   its connection, and the server thread is about to clear the flag; the watchdog's
   thread reads it in isConnected (true), the flag goes down, and isAlive is false. The
   server thread, alive, goes on to wait for the next client.
4. **StopStream kills by CPU share** (`VideoStreamer_stop`). `tokens[2]` of `ps aux` is
   %CPU: a stream that uses 3.2 % makes it kill process 3, and one that uses
   less than 1 % its own process group, the robot included. The stream goes on.

### Seen on the way

What the models show besides, with no run of its own:

* A kick is lost if the watchdog's thread is not in its wait; `KickDefersWait` bounds
  the harm: the alert is early by at most the thread's lag.
* `select` takes the time it waited off the member `Timeout`, so the motor
  controller's patience runs out over the commands (`budget` in `ClawDrive`); `CallsEnd`
  and `FailureIsFinal` say what happens then.
* Cancelling the server inside Drive unwinds through `catch (...)` and aborts the
  process; hence the "or crashed" of `KillReturns` and `ShutdownEnds`.
* After a report that did not fit in the buffer, an answer may be lost for good: `Get`
  waits for ever, or the next line is junk and kills the reader thread's process. Properties of `Sam` that
  need complete reports say so (`Intact`).
* A value report that is under way while its pin is being returned, or an answer to Get
  that comes before its entry exists, throws on the reader thread and ends the process.
  What the next process finds is `SessionClean`.
* Of several lines in one chunk only the first command is answered: a client that sends
  one without an answer and Ping at once gets no Pong. A line that is no command at all ends the process.
* Between KillServer's test (TcpServer.cpp:175) and its close the thread may have closed the
  connection and accepted another, which is then closed in its place; after the flag is
  cleared the thread may raise it again, or be joined with a descriptor open.
* A configuration file whose last line lies inside a tag and has no newline is read for
  ever: the same value is set, or another child made, each time. The files of the repository
  all end in a newline.
* A pin that was given back and taken again, whose state is what the SAM last
  reported, is never reported, so its object never becomes consistent; hence `told` in `Consistent`.
* The report that follows a PWM pin's "disable" drives it one more step of a ramp, and
  nobody switches it off then (`cut` in `OffWhenDeleted`).

### Bounds, and why they are enough

* *Watchdog*: two clients, as a client has no state but the call it is in, and
  keeps the mutex for one step; what two can do to each other and to the thread is
  all there (the safety proofs cover every number). Timeouts 1 and 3 let a wait outlive a changed timeout; `Horizon` 3 is the
  longest timeout, beyond which all ages act alike. One listener exercises the
  loop of Alert; more repeat it.
* *ClawDrive*: the single-caller run has all headings and the extreme speeds; the
  race has one caller of each kind, the program's own number. `Timeout` is two ticks,
  enough to be run down in parts.
* *TcpServer*: two connections, since the server has room for one; two lines pending
  (in `TcpServer_wait` the first of them may be one that gets no answer), since what `Text` does with more depends on the first command only.
* *TeleoperatedRobot*: one client which connects once, one line at a time; both
  wheels turn or none. The reconnecting client is in `TcpServer`; the composition
  needs only one that leaves. The timeout is one tick: `Watchdog` has the others.
* *Sam*: two GPIO pins make a report overflow the buffer of two lines with others before
  and after; a line is full when both sides have two requests or reports under way.
  `MaxWork` bounds processes and calls together: 4 suffice for an end in the middle of
  anything, a new process, and a call of its own. A ramp of 1 to a speed of 2 stops on its way.
* *Configuration*: six lines have a tag twice in different places, values after a
  section, a return over three levels and a part inside a section; `MaxAgain` lets the
  last line come thrice, when a reading that ends has ended; the proofs cover
  every length and depth, of what is read and of what is done with it.
* *VideoStreamer*: five ids, enough for the robot, its child, the streamer and a bystander.

### Fairness

Weak fairness of every thread's next step (but never of a failure: connections
need not break, nor does a blocked `accept` or `recv` have to notice that its socket
was closed; only cancellation ends those), of the passing of time and of the
controller: the operating system schedules, and the robot's hardware answers or
times out. Strong fairness where a thread waits for a mutex that is free again and
again (`StopLocked`, `ClientFinish`, `Send`, `TcpKicked`, `SendFrame`): a `pthread_mutex`
grants it eventually, a weaker assumption than any queue. No client has to kick,
connect or leave, and nobody has to call Stop: only what was begun goes on. The
main thread has to finish building and deleting the robot, never to begin deleting.
In `Sam` the daemon's loop runs, the host's threads run, and a report must come only if
there is an answer to give or a ramp to go on with (`Due`): no input has to change by itself.

## 4. What is proved

`WatchdogProofs` (the first four) and `WatchdogTimesProofs` prove, for **any** set of
clients, timeouts, horizon and number of listeners, from `WatchdogAssumption` alone
(threads are distinct, timeouts fit in the horizon and one is positive):

| Theorem | Says |
|---|---|
| `TypeCorrect` | `Spec => []TypeOK` |
| `AlertsOnlyWhileRunning` | `Spec => []AlertDuringRun` |
| `StopLeavesNothing` | `Spec => []StoppedMeansGone` |
| `MutexKeptOnlySo` | `Spec => []MutexKept` |
| `TimesRefine` | `TSpec => Spec` |
| `TimesTypeCorrect` | `TSpec => []TimesTypeOK` |
| `AlertsAreSpaced` | `TSpec => AlertSpacing` |
| `KicksDefer` | `TSpec => KickDefersWait` |

`ClawDriveProofs`, for **any** callers, speeds, headings and timeout, from
`ClawDriveAssumption` (threads are distinct, `None` is none of them and no answer):

| Theorem | Says |
|---|---|
| `ExchangesApart` | `Spec => []OneExchange` |
| `FailuresAreFinal` | `Spec => FailureIsFinal` |
| `LineImplemented` | `Spec => LineSpec`: `DriveLine` is implemented |
| `DriveTypeCorrect` | `Spec => []TypeOK` |
| `WheelsObey` | `Spec => []Obeyed` |

`TcpServerProofs`, for **any** connections, lines and faults, from
`TcpServerAssumption`:

| Theorem | Says |
|---|---|
| `NoDescriptorLost` | `Spec => []OneConnection` |
| `ConnectionIsOpen` | `Spec => []UsesOpenConnection` |
| `ServerTypeCorrect` | `Spec => []TypeOK` |
| `AnswersAreAwaited` | `Spec => AnswersMatch` if `~Pipelined` |

`TeleoperatedRobotProofs`, for **any** connections, lines, timeouts and failures, from
`RobotAssumption` (the three threads are distinct, `None` is no thread or connection):

| Theorem | Says |
|---|---|
| `ContractIsKept` | `Spec => []ContractKept` |
| `NobodyDrivesDeleted` | `Spec => []NoOneDrives` |
| `RobotTypeCorrect` | `Spec => []TypeOK` |

`SamLineProofs` (with `SamProofs`), for **any** pins of the three kinds in any order of
visits, any buffer, line lengths, speeds, ramps, thresholds, programs and number of calls
and processes, from `PinAssumption`, `HostAssumption` and `MotorAssumption` (kinds of pins
are disjoint, every pin is visited, percentages are percentages, a ramp is not 0, and a motor
has two different direction pins; `None` is no pin and no entry):

| Theorem | Says |
|---|---|
| `SamTypeCorrect` | `MotorsSpec => []TypeOK` |
| `AnsweringHolds` | `MotorsSpec => []Answering` |
| `OneViewHolds` | `MotorsSpec => []OneView` |
| `ConsistentHolds` | `MotorsSpec => []Consistent` |
| `OffWhenDeletedHolds` | `MotorsSpec => []OffWhenDeleted` |
| `SessionCleanHolds` | `MotorsSpec => SessionClean` |
| `MotorObeysHolds` | `MotorsSpec => []MotorObeys` |

`ConfigurationProofs`, for **files of any length and depth**, any tags, keys and
sections, from `ReaderAssumption` and `SectionAssumption` (there is a line, the divided
section is one of those looked for):

| Theorem | Says |
|---|---|
| `ParentsAsIndented` | `Spec => []ParentOwns` |
| `EndlessReading` | `Spec => []EndlessOnlyInside` |
| `TreeAsWritten` | `Spec => []TreeRead` |
| `ConfigurationTypeCorrect` | `Spec => []TypeOK` |
| `NothingDangles` | `Spec => []NoDangling` |
| `SectionsAreKept` | `Spec => []SectionsKept` |

*Watchdog, the inductive invariant `IInv`.* None of the invariants is inductive by
itself. That no listener runs after Stop rests on two groups of facts. `Lifecycle`:
`keepRunning` is up exactly while the owner is "on" or "stopping", clients are inside
only while it is "on" (so that none keeps the mutex through a failed second test),
and an owner that is "off" has no thread. `Mutex`: an alert holds the mutex, and who
else keeps it is the thread that Stop caught. `IInv` is these two and `TypeOK`; a
lemma per actor (`DogIInv`, `OwnerIInv`, `ClientIInv`, `TickIInv`) shows that its
steps preserve it, and `Invariance` puts them together.

*Watchdog, the invariant `TInv`* compares the clocks with `age`: from its
`gettimeofday` to its wait, and on to an alert after a time-out, the thread's `age`
is at most `calm`; while it waits it is at most `quiet + lag`. A time-out has `age >=
limit`, hence so have they. That the clocks saturate is harmless as `limit` is
within the horizon.

*Drive, the line.* `LineInv` needs only where threads are and who has the mutex: who
waits for an answer holds it, and while nobody does the line is empty. `Steps`
sorts all steps into those outside `WriteAndVerify`, which touch neither, and
those in it; the three theorems on the line go through the latter.

*Drive, the wheels.* `Quadrants` shows that the four cases of `SetHardware` agree with
the table of headings for every speed. `CallInv` then follows a call through its
stages (`Stage`): velocities, command byte, frame, line, left wheel, right wheel. Two
more facts make it inductive: unless calls overlapped only one thread is in a call
(`Alone`), and a thread in none begins with the left motor (`Fresh`), also
after a throw. So whatever raced before, a call that starts from rest is obeyed.

*Server.* `Connection` adds to the two invariants what they lean on: from before it accepts
until it raises the flag, the thread finds it down (`wait_for_connection` closes first) and, once it has
accepted and while nobody kills the server, the new descriptor open; between
`close_connection`'s two steps the descriptor is closed. `AnswersMatch` needs clients that send nothing while
they wait, as it says (the run `TcpServer_wait` has such); then `Owed` is inductive: of a
client's lines under way only the last may be one that is answered, and once the server
holds it none is left behind it. For a chunk whose text is answered begins with a line that
is (`TextAnswered`), and that line is the client's last (`ReceiveOwed`).

*Robot.* The invariants of watchdog and server are not proved again: `WP` and `SP` are
instances of their proof modules, and `PartsKept` shows that every step of the robot is
a step of theirs, leaves them be, or ends the process. `Order` and `InCallbacks` are what
the composition adds: the watchdog is stopped only after KillServer joined the server's
thread, that thread is in the listener only from Dispatch to Handled, and whoever drives
is in his listener. So when the watchdog goes, nobody is left to kick it or to drive.

*SAM, the inductive invariant.* `IInv` of `SamProofs` has a part per question, each of
which leans on those before it:

* `Control` ties the main thread's place to the operation it is at, to `map` and to
  `entry`; `Plan` says that the operations still to be done are on pins that will exist
  then (without it a `Set` could find no object to stage in).
* `Greeting`: before the Reset only Pings are on the line, and no "Reset" has been said;
  after it either the Reset is the last request and still unread, or the SAM is as it was when
  switched on and its line has been closed with a newline. This is `SessionClean`, and
  it is what makes the next part true when a session begins.
* `Protocol` follows a request through four stages: `Requested` (last on the
  line, the pin as it was), `Obeyed` (the pin changed, not reported), `Replied` (exactly one
  answer on the line), `Over` (the entry tells the truth; or the answer was lost, and
  then the session is not `Intact`). No other pin has an answer under way (`Agreed`). The hard
  half is Return: after "Disabled" no value of the pin may follow (`Replied`), or the reader
  thread would call a pure virtual function. `Answering` and `OneView` follow.
* `Drives`: an enabled PWM pin is driven with its value, any other with nothing unless it
  was cut short. `OffWhenDeleted` follows.
* `Sets`: the last set request on the line asks for what is staged, and if there is none the
  pin is set to it; `Values`: the last value on the line is the one reported, and if there is
  none the host believes it. `Consistent` puts the two ends together.
* `Motor`: what each pin of the motor *will* be set to when all operations are done (`Will`)
  is what the velocity demands, and nothing in `todo` deletes a pin. `MotorObeys` is this with
  an empty `todo`, `Sets` for the two pins and `Drives` for the pulse.

`SamProofs` has the lemmas on what does not touch the line, `SamLineProofs` those on the
stages of `Protocol`, one per stage and action; there is no assumption on how many lines are
under way, nor on when a report comes, so the proofs also cover what the bound `MaxWork` and
the two-line buffer of the run do not.

*Configuration.* `ParentOwns` says of each configuration which tag owns it, by indentation: the
last one before it that is one level less deep, with nothing shallower between. It is inductive
with `Path`: the calls on the stack are the tags of a path down the tree, one per level,
and every line since such a call began is deeper than its tag. So the line a call takes
for its own belongs to the top of the stack, and a line that ends several levels pops
them one by one. `EndInv` says how the file ends: its lines are got once each, then a blank
one or the last again, and a line that has been got again twice is one that the call on top
takes for its own (`Forever`), so that nothing changes but the number of the line. `TreeInv` then says what a node has at any time: the values of the
lines it owns, the last given of each key, and those of its children whose calls have
returned, in order; when the stack is empty these are all.

*Configuration, the robot's use of the tree.* A second invariant, `UIInv`, takes over when the
file is read; its proof uses `IInv` in both states of a step. `FileInv`: which lines
have been read, and that those after the first that are tags have become configurations. `UseTree`: a
configuration is `Whole` (all the children and values its lines give it) or `Emptied`, and
emptied only inside the part or once the robot is over. `Copied` says the same of `current`
and `inner`, and `Progress` that the part lies in the section (`current.node <=
inner.node`) and that nothing is deleted before the part ends. What remains are facts about
two recursions, over trees that the recursion itself has changed:

* What the destructor cleans up or deletes lies inside the copy's tag (`Destroyed`), and the
  parent of whatever it deletes has been cleaned up. A configuration has one owner
  (`OneOwner`), so no living one is left with a pointer to it (`DestroyFacts`); nor is the
  section, whose tag comes before all that lies inside the part.
* FindConfigurationByTag finds something inside the node where it starts, and nothing of that
  tag that still has its place comes earlier (`SearchFacts`): siblings are in the order of
  the file, what lies inside the first comes before the second (`Apart`), and what is inside a
  configuration is inside one of its children (`ThroughChild`).

The library's induction cannot be used here, as its theorems take an operator. In its place
stands `Least`, the least element of a set of numbers that is not empty, from
`WellFoundedInduction`: each lemma looks at the first line, or the smallest depth, for which
it would be wrong. The recursive functions `Below` and `FindConfigurationByTag` are choices
among the functions that satisfy their recursion; `ChainExists` and `SearchExists` show that
there is one.

*Model-checked only.* Liveness (`AlertsKeepComing`, `StopReturnsElsewhere`, `CallsEnd`,
`LoneLineAnswered`, `WaitsBehindAnother`, `KillReturns`, `RobotStops`, `ShutdownEnds`,
`RampEnds`), since the prover does not treat ENABLED. Every invariant and every action
property of a passing run is a theorem.

## 5. What is not modelled, and what is left

Left out inside the modelled parts: the wording of logs and answers; the ramp
speeds of the drive module (stored, never sent); the arithmetic of CRC-16 and of
the cosines between the eighths of a turn; the conversion of a drive value from
text; the three seconds the video stream takes to start; the characters of the SAM's
protocol; argument checks that only throw.

Not modelled at all:

* *Maps and planners* (`navigation/`): commented out of the build ("Doesn't currently
  build"), and parts of them empty; there is no behaviour to be faithful to.
* *Frontend*: an unfinished Java client on another machine; the models let clients do anything.
* *Map plotter, logging macros, interactive test programs*: output only, no state.
* *Vendored code*: googletest and two copies of mjpg-streamer, of third parties. They are
  about 94 % of the lines of the repository, so the share of all lines that the map
  covers is small though it covers most of the program's own logic.

What could be added: a `VideoStreamer` composed with the robot instead of its worst effect.

## 6. Running it

    tlc -config Watchdog_pass.cfg MC_Watchdog
    tlapm WatchdogProofs.tla      (and the other modules named *Proofs)

Every run finishes within a few minutes. `PROJECT.json` lists runs, the source lines
each definition stands for, the hazards, the theorems, and for each property a small
change of the model, such as a plausible bug would make, that breaks it.
