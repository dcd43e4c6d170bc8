-------------------------------- MODULE Sam ---------------------------------
(***************************************************************************)
(* clank/lib/hardware: the host's side of the SAM, over SamDaemon and the  *)
(* serial line.  The main thread creates, sets and deletes pins; a reader  *)
(* thread routes what the SAM says.  Neither locks what they share.  An    *)
(* exception on either thread ends the process; it may be started again.   *)
(***************************************************************************)
EXTENDS SamDaemon, FiniteSets

CONSTANTS Speeds, Ramps,   \* what PWM pins are set to, in percent
          Thresholds,      \* what thresholds of ADC pins are set to
          Tries,           \* Pings sent before the constructor gives up
          MaxWork          \* a bound: processes started and calls, in all

ASSUME HostAssumption ==
  /\ Speeds \subseteq 0..100 /\ Ramps \subseteq Int \ {0}
  /\ Thresholds \subseteq Int /\ Tries \in Nat /\ MaxWork \in Nat
  /\ None \notin [actual : BOOLEAN, updated : BOOLEAN]

VARIABLES
  main,     \* where the main thread is
  tries,    \* Pings sent by the constructor of SamSerialPort
  todo,     \* the operations on pins it has still to do, the current one first
  entry,    \* EnabledStates of the current one's pin, or None
  map,      \* PeripheralMap: none, base (an object under construction or
            \* destruction, whose ParseMessage is pure virtual) or pin
  staging,  \* what the object has asked for, None without an object
  cache,    \* what it believes
  told,     \* (history) it has parsed a value since it made up its cache
  work      \* processes started and calls made, counted down

host == <<main, tries, todo, entry, map, staging, cache, told, work>>
vars == <<daemon, toSam, toHost, host>>

Handshake == {"ping", "pong", "reset", "acked"}
Session   == {"idle", "entry", "get", "map", "derive", "construct",
              "leave", "return", "unmap"}
Open      == main # "down"
NoObjects(f) == f = [p \in Pins |-> None]

Init == /\ DaemonInit
        /\ main = "down" /\ tries = 0 /\ todo = <<>> /\ entry = None
        /\ map = [p \in Pins |-> "none"]
        /\ NoObjects(staging) /\ NoObjects(cache)
        /\ told = [p \in Pins |-> FALSE]
        /\ work \in 0..MaxWork

Send(line) == Len(toSam) < MaxLines /\ toSam' = Append(toSam, line)
SetRequest(p, s) == [pin |-> p, do |-> "set", to |-> s]

(* The process ends: by an exception, or because main returns (nothing     *)
(* deletes the serial port's singleton, so nothing resets the SAM).  The   *)
(* port closes, and what was not read is lost.                             *)
End == /\ main' = "down" /\ tries' = 0 /\ todo' = <<>> /\ entry' = None
       /\ map' = [p \in Pins |-> "none"]
       /\ NoObjects(staging') /\ NoObjects(cache')
       /\ told' = [p \in Pins |-> FALSE]
       /\ toHost' = <<>>
       /\ UNCHANGED <<daemon, toSam, work>>

Goto(label) == main' = label /\ UNCHANGED tries

-----------------------------------------------------------------------------
(* A process is started once the SAM has done all it was told; it may open *)
(* the port in the middle of a line.                                       *)
Start == /\ main = "down" /\ work > 0 /\ toSam = <<>>
         /\ main' = "ping" /\ work' = work - 1
         /\ spoilt' \in {spoilt, TRUE}
         /\ UNCHANGED <<enabled, shown, st, rep, duty, cut, toSam, toHost, tries, todo,
                        entry, map, staging, cache, told>>

Quit == main = "idle" /\ todo = <<>> /\ End

(* The constructor of SamSerialPort: Ping until the line read is Pong.     *)
Ping == /\ main = "ping" /\ Send(Request(None, "Ping"))
        /\ main' = "pong" /\ tries' = tries + 1
        /\ UNCHANGED <<daemon, toHost, todo, entry, map, staging, cache, told, work>>

ReadLine == toHost # <<>> /\ toHost' = Tail(toHost)

ReadPong ==
  /\ main = "pong" /\ ReadLine
  /\ Head(toHost).says = "Pong" \/ tries < Tries
  /\ Goto(IF Head(toHost).says = "Pong" THEN "reset" ELSE "ping")
  /\ UNCHANGED <<daemon, toSam, todo, entry, map, staging, cache, told, work>>

GiveUp == /\ main = "pong" /\ toHost # <<>>
          /\ Head(toHost).says # "Pong" /\ tries >= Tries
          /\ End

SendReset ==
  /\ main = "reset" /\ Send(Request(None, "Reset")) /\ Goto("acked")
  /\ UNCHANGED <<daemon, toHost, todo, entry, map, staging, cache, told, work>>

(* Then the reader thread is created.                                      *)
ReadReset ==
  /\ main = "acked" /\ ReadLine /\ Head(toHost).says = "Reset"
  /\ main' = "idle" /\ tries' = 0
  /\ UNCHANGED <<daemon, toSam, todo, entry, map, staging, cache, told, work>>

NotReset == main = "acked" /\ toHost # <<>> /\ Head(toHost).says # "Reset" /\ End

Connect == Ping \/ ReadPong \/ GiveUp \/ SendReset \/ ReadReset \/ NotReset

-----------------------------------------------------------------------------
(* What a program does with its pins.                                      *)
Settings(p) == CASE p \in Gpio -> [dir : {"In", "Out"}, val : Levels]
                 [] p \in Pwm  -> [val : Speeds, ramp : Ramps]
                 [] p \in Adc  -> [thresh : Thresholds]

New(p, s)     == [do |-> "new", pin |-> p, to |-> s]
Set(p, k, v)  == [do |-> "set", pin |-> p, part |-> k, to |-> v]
Delete(p)     == [do |-> "delete", pin |-> p]

Exists(p) == map[p] = "pin"

Call(ops) == /\ main = "idle" /\ todo = <<>> /\ work > 0
             /\ todo' = ops /\ work' = work - 1
             /\ UNCHANGED <<daemon, toSam, toHost, main, tries, entry, map, staging,
                            cache, told>>

(* A pin is set to any state by SetDirection, SetValue, SetRampSpeed or    *)
(* SetDeltaThreshold; the last two refuse 0, and what is not in (0, 100).  *)
Settable(p, k, v) == k = "thresh" => v \in 1..99

CallPin(p) ==
  \/ \E s \in Settings(p) : Call(<<New(p, s)>>)
  \/ /\ Exists(p)
     /\ \/ Call(<<Delete(p)>>)
        \/ \E s \in Settings(p) : \E k \in DOMAIN s :
             Settable(p, k, s[k]) /\ Call(<<Set(p, k, s[k])>>)

-----------------------------------------------------------------------------
(* The operation the main thread is at.                                    *)
Op(do) == todo # <<>> /\ Head(todo).do = do
Pin    == Head(todo).pin
Finished == todo' = Tail(todo) /\ Goto("idle")

(* SamPeripheralManager::Get, from the constructor of SamPeripheral.       *)
GetSend ==
  /\ main = "idle" /\ Op("new") /\ map[Pin] = "none"
  /\ Send(Request(Pin, "enable")) /\ Goto("entry")
  /\ UNCHANGED <<daemon, toHost, todo, entry, map, staging, cache, told, work>>

GetTwice == main = "idle" /\ Op("new") /\ map[Pin] # "none" /\ End

(* The entry of the answer is made after the request has been sent.        *)
MakeEntry(from, to) ==
  /\ main = from /\ Goto(to)
  /\ entry' = [actual |-> FALSE, updated |-> FALSE]
  /\ UNCHANGED <<daemon, toSam, toHost, todo, map, staging, cache, told, work>>

GetEntry == MakeEntry("entry", "get")

(* Mutant: it goes on without the answer, as a time-out would make it.     *)
Answered_Impatient(from, to, actual) ==
  /\ main = from /\ entry' = None /\ Goto(to)
  /\ UNCHANGED <<daemon, toSam, toHost, todo, map, staging, cache, told, work>>

(* Waits as long as it takes: waitCount stays 0.  The SAM refuses nothing, *)
(* so that the throws on the other answer are left out (Answering, below). *)
Answered(from, to, actual) ==
  /\ main = from /\ entry.updated /\ entry.actual = actual
  /\ entry' = None /\ Goto(to)
  /\ UNCHANGED <<daemon, toSam, toHost, todo, map, staging, cache, told, work>>

GetAnswered == Answered("get", "map", TRUE)

Remap(from, kind) ==
  /\ main = from /\ map' = [map EXCEPT ![Pin] = kind]
  /\ UNCHANGED <<daemon, toSam, toHost, entry, cache, work>>

GetMap == Remap("map", "base") /\ Goto("derive") /\ UNCHANGED <<todo, staging, told>>

(* The constructor of the derived class begins ...                         *)
Derive == Remap("derive", "pin") /\ Goto("construct") /\ UNCHANGED <<todo, staging, told>>

(* ... and makes up a state that cannot be true, and calls SetState.       *)
Invented(s) ==
  IF "dir" \in DOMAIN s THEN [dir |-> IF s.dir = "In" THEN "Out" ELSE "In",
                              val |-> IF s.val = "Hi" THEN "Low" ELSE "Hi"]
  ELSE IF "ramp" \in DOMAIN s THEN [val |-> -1, ramp |-> -1]
  ELSE [thresh |-> 0]

(* One constructor of AdcPin never sets its set point.                     *)
Uninitialized(p) == IF p \in Adc THEN Settings(p) ELSE {}

Construct ==
  /\ main = "construct" /\ Finished
  /\ \E s \in {Head(todo).to} \cup Uninitialized(Pin) :
       /\ Send(SetRequest(Pin, s))
       /\ staging' = [staging EXCEPT ![Pin] = s]
       /\ cache' = [cache EXCEPT ![Pin] = Invented(s)]
  /\ told' = [told EXCEPT ![Pin] = FALSE]
  /\ UNCHANGED <<daemon, toHost, entry, map, work>>

(* Mutant: staged and not sent.                                            *)
SetState_Unsent ==
  /\ main = "idle" /\ Op("set") /\ Finished
  /\ staging' = [staging EXCEPT ![Pin][Head(todo).part] = Head(todo).to]
  /\ UNCHANGED <<daemon, toSam, toHost, entry, map, cache, told, work>>

(* SetDirection and the like: stage and send.                              *)
SetState ==
  /\ main = "idle" /\ Op("set") /\ Finished
  /\ staging' = [staging EXCEPT ![Pin][Head(todo).part] = Head(todo).to]
  /\ Send(SetRequest(Pin, staging'[Pin]))
  /\ UNCHANGED <<daemon, toHost, entry, map, cache, told, work>>

(* ~SamPeripheral calls SamPeripheralManager::Return.                      *)
ReturnSend ==
  /\ main = "idle" /\ Op("delete") /\ Goto("leave")
  /\ Send(Request(Pin, "disable"))
  /\ map' = [map EXCEPT ![Pin] = "base"]
  /\ UNCHANGED <<daemon, toHost, todo, entry, staging, cache, told, work>>

ReturnEntry    == MakeEntry("leave", "return")
ReturnAnswered == Answered("return", "unmap", FALSE)

ReturnMap ==
  /\ main = "unmap" /\ Finished
  /\ map' = [map EXCEPT ![Pin] = "none"]
  /\ staging' = [staging EXCEPT ![Pin] = None]
  /\ cache' = [cache EXCEPT ![Pin] = None]
  /\ told' = [told EXCEPT ![Pin] = FALSE]
  /\ UNCHANGED <<daemon, toSam, toHost, entry, work>>

Operate == \/ GetSend \/ GetTwice \/ GetEntry \/ GetAnswered
           \/ GetMap \/ Derive \/ Construct \/ SetState
           \/ ReturnSend \/ ReturnEntry \/ ReturnAnswered \/ ReturnMap

-----------------------------------------------------------------------------
(* The reader thread: RouteMessage and the ParseMessage of the three kinds *)
(* (that of AdcPin checks the threshold).                                  *)
Awaited(l)  == entry # None /\ l.pin = Pin
IsAnswer(l) == Awaited(l) /\ l.says # "value"
IsValue(l)  == /\ ~Awaited(l) /\ l.says = "value" /\ map[l.pin] = "pin"
               /\ l.pin \in Adc => l.is.thresh \in 1..99

(* Mutant: the waiting thread is not told.                                 *)
RouteAnswer_Untold ==
  /\ main \in Session /\ ReadLine /\ IsAnswer(Head(toHost))
  /\ entry' = [entry EXCEPT !.actual = Head(toHost).says = "Enabled"]
  /\ UNCHANGED <<daemon, toSam, main, tries, todo, map, staging, cache, told, work>>

RouteAnswer ==
  /\ main \in Session /\ ReadLine /\ IsAnswer(Head(toHost))
  /\ entry' = [actual |-> Head(toHost).says = "Enabled", updated |-> TRUE]
  /\ UNCHANGED <<daemon, toSam, main, tries, todo, map, staging, cache, told, work>>

RouteValue ==
  /\ main \in Session /\ ReadLine /\ IsValue(Head(toHost))
  /\ cache' = [cache EXCEPT ![Head(toHost).pin] = Head(toHost).is]
  /\ told' = [told EXCEPT ![Head(toHost).pin] = TRUE]
  /\ UNCHANGED <<daemon, toSam, main, tries, todo, entry, map, staging, work>>

(* Anything else throws, or calls a pure virtual function.                 *)
ReaderDies ==
  /\ main \in Session /\ toHost # <<>>
  /\ ~IsAnswer(Head(toHost)) /\ ~IsValue(Head(toHost))
  /\ End

Reader == RouteAnswer \/ RouteValue \/ ReaderDies

-----------------------------------------------------------------------------
Loop  == (ReportStatus(Open) \/ ProcessMessage(Open)) /\ UNCHANGED host
Serve == Loop \/ Connect \/ Operate \/ Reader \/ Quit \/ Start

-----------------------------------------------------------------------------
States(p) == CASE p \in Gpio -> [dir : {"In", "Out"}, val : Levels]
               [] p \in Adc  -> [thresh : {5} \cup {t \in Thresholds : t > 0}]
               [] p \in Pwm  -> [val : 0..100, set : Speeds \cup {0}, ramp : Ramps \cup {-1}]
Reports(p) == CASE p \in Gpio -> States(p)
                [] p \in Adc  -> [thresh : {5} \cup {t \in Thresholds : t > 0},
                                  val : Readings \cup {0}]
                [] p \in Pwm  -> [val : 0..100, ramp : Ramps \cup {-1}]
Requests == [pin : {None}, do : {"Ping", "Reset"}] \cup [pin : Pins, do : {"enable", "disable"}]
              \cup UNION {[pin : {p}, do : {"set"}, to : Settings(p)] : p \in Pins}
Lines    == [pin : {None}, says : {"Pong", "Reset", "Junk"}]
              \cup [pin : Pins, says : {"Enabled", "Disabled"}]
              \cup UNION {[pin : {p}, says : {"value"}, is : Reports(p)] : p \in Pins}
Within(seq, S) == Len(seq) <= MaxLines /\ \A i \in 1..Len(seq) : seq[i] \in S

TypeOK ==
  /\ enabled \in [Pins -> BOOLEAN] /\ shown \in [Pins -> BOOLEAN]
  /\ DOMAIN st = Pins /\ \A p \in Pins : st[p] \in States(p)
  /\ DOMAIN rep = Pins /\ \A p \in Pins : rep[p] \in Reports(p) \cup {None}
  /\ duty \in [Pwm -> 0..100] /\ cut \in [Pwm -> BOOLEAN] /\ spoilt \in BOOLEAN
  /\ Within(toSam, Requests) /\ Within(toHost, Lines)
  /\ main \in {"down"} \cup Handshake \cup Session
  /\ tries \in 0..Tries + 1 /\ work \in 0..MaxWork
  /\ \A i \in 1..Len(todo) : todo[i].pin \in Pins
  /\ entry \in {None} \cup [actual : BOOLEAN, updated : BOOLEAN]
  /\ map \in [Pins -> {"none", "base", "pin"}] /\ told \in [Pins -> BOOLEAN]
  /\ DOMAIN staging = Pins /\ DOMAIN cache = Pins
  /\ \A p \in Pins : staging[p] \in Settings(p) \cup {None}

(* No report has been dropped in this session.                             *)
Intact == ~spoilt /\ \A i \in 1..Len(toHost) : toHost[i].says # "Junk"

(* A session begins with nothing under way and no pin enabled: whatever    *)
(* an earlier process left behind has been read or reset.                  *)
SessionClean ==
  [][main = "acked" /\ main' = "idle" =>
       /\ toSam = <<>> /\ toHost' = <<>> /\ ~spoilt
       /\ \A p \in Pins : ~enabled[p] /\ ~shown[p]]_vars

(* The state requests and answers under way for a pin.                     *)
StateRequest(p, l) == l.pin = p /\ l.do \in {"enable", "disable"}
StatusLine(p, l)   == l.pin = p /\ l.says \in {"Enabled", "Disabled"}
Asking(p)  == {i \in 1..Len(toSam) : StateRequest(p, toSam[i])}
Telling(p) == {i \in 1..Len(toHost) : StatusLine(p, toHost[i])}
UnderWay(p) == Cardinality(Asking(p)) + Cardinality(Telling(p))
                 + (IF enabled[p] # shown[p] THEN 1 ELSE 0)

Waiting == main \in {"entry", "get", "leave", "return"}

(* While Get or Return waits, exactly one answer is under way for the pin, *)
(* the one that it waits for; otherwise there is none.                     *)
Answering ==
  main \in Session /\ Intact =>
    \A p \in Pins :
      IF Waiting /\ p = Pin /\ ~(entry # None /\ entry.updated)
      THEN UnderWay(p) = 1
      ELSE /\ UnderWay(p) = 0
           /\ Waiting /\ p = Pin => entry.actual = (main = "get")

(* Between calls, the SAM and the host agree on which pins are in use ...  *)
SamePins == main = "idle" /\ Intact =>
  \A p \in Pins : /\ map[p] # "base"
                  /\ enabled[p] <=> Exists(p)

(* ... and a line under way concerns a pin that is in use, or the one that *)
(* is being created or deleted: no other can end the process.              *)
NoStrayLine == main \in Session /\ Intact =>
  \A i \in 1..Len(toHost) :
    LET p == toHost[i].pin
    IN  p \in Pins /\ (Exists(p) \/ (todo # <<>> /\ p = Pin))

(* The SAM and the host have one view of which pins are in use.            *)
OneView == SamePins /\ NoStrayLine

IsConsistant(p) ==
  CASE p \in Gpio -> /\ staging[p].dir = cache[p].dir
                     /\ staging[p].val = cache[p].val \/ cache[p].dir = "In"
    [] p \in Pwm  -> staging[p] = cache[p]
    [] p \in Adc  -> staging[p].thresh = cache[p].thresh

Reported(p) ==
  CASE p \in Gpio -> rep[p] = st[p]
    [] p \in Pwm  -> st[p].val = st[p].set /\ rep[p] = [val |-> st[p].val, ramp |-> st[p].ramp]
    [] p \in Adc  -> rep[p].thresh = st[p].thresh /\ staging[p].thresh > 0

Settled(p) == /\ main = "idle" /\ Intact
              /\ \A i \in 1..Len(toSam) : toSam[i].pin # p
              /\ \A i \in 1..Len(toHost) : toHost[i].pin # p

(* IsConsistant tells the truth once things have settled, if the SAM has   *)
(* reported on the pin since its object made up its cache.                 *)
Consistent == \A p \in Pins :
  Exists(p) /\ told[p] /\ Settled(p) /\ Reported(p) => IsConsistant(p)

(* A PWM pin is driven by nobody once it has been deleted, unless it was   *)
(* deleted on its way to its set point: the report that follows then       *)
(* drives it another step.                                                 *)
OffWhenDeleted == \A p \in Pwm :
  main = "idle" /\ Intact /\ map[p] = "none" => duty[p] = 0 \/ cut[p]
=============================================================================
