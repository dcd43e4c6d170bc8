------------------------------ MODULE SamProofs ------------------------------
(***************************************************************************)
(* Proofs about the SAM, its host and its motors, for any pins, any bounds *)
(* and any programs: the inductive invariant, and what the host's two      *)
(* threads and the daemon keep of it.  SamLineProofs has the rest, about   *)
(* what is under way on the serial line, and the theorems.                 *)
(***************************************************************************)
EXTENDS SamMotors, FiniteSetTheorems, SequenceTheorems, TLAPS

-----------------------------------------------------------------------------
(* Operations of the host on its pins.                                     *)
NewOps    == UNION {[do : {"new"}, pin : {p}, to : Settings(p)] : p \in Pins}
DeleteOps == [do : {"delete"}, pin : Pins]
GpioOps   == [do : {"set"}, pin : Gpio, part : {"dir"}, to : {"In", "Out"}]
               \cup [do : {"set"}, pin : Gpio, part : {"val"}, to : Levels]
PwmOps    == [do : {"set"}, pin : Pwm, part : {"val"}, to : Speeds]
               \cup [do : {"set"}, pin : Pwm, part : {"ramp"}, to : Ramps]
AdcOps    == [do : {"set"}, pin : Adc, part : {"thresh"}, to : Thresholds]
Ops       == NewOps \cup DeleteOps \cup GpioOps \cup PwmOps \cup AdcOps

DaemonTypes ==
  /\ enabled \in [Pins -> BOOLEAN] /\ shown \in [Pins -> BOOLEAN]
  /\ DOMAIN st = Pins /\ \A p \in Pins : st[p] \in States(p)
  /\ DOMAIN rep = Pins /\ \A p \in Pins : rep[p] \in Reports(p) \cup {None}
  /\ duty \in [Pwm -> 0..100] /\ cut \in [Pwm -> BOOLEAN] /\ spoilt \in BOOLEAN

SerialTypes ==
  /\ toSam \in Seq(Requests) /\ Len(toSam) <= MaxLines
  /\ toHost \in Seq(Lines) /\ Len(toHost) <= MaxLines

HostTypes ==
  /\ main \in {"down"} \cup Handshake \cup Session
  /\ tries \in 0..Tries + 1 /\ work \in 0..MaxWork
  /\ main = "ping" => tries <= Tries
  /\ main = "down" => tries = 0
  /\ todo \in Seq(Ops)
  /\ entry \in {None} \cup [actual : BOOLEAN, updated : BOOLEAN]
  /\ map \in [Pins -> {"none", "base", "pin"}] /\ told \in [Pins -> BOOLEAN]
  /\ DOMAIN staging = Pins /\ DOMAIN cache = Pins
  /\ \A p \in Pins : staging[p] \in Settings(p) \cup {None}

TypeInv == /\ DaemonTypes /\ SerialTypes /\ HostTypes
           /\ velocity \in Velocities \cup {None}

Adding   == {"entry", "get", "map", "derive", "construct"}
Removing == {"leave", "return", "unmap"}

(* Where the main thread is, and what it has made of the pins.             *)
Control ==
  /\ main \notin Session => /\ todo = <<>> /\ NoObjects(staging)
                            /\ \A p \in Pins : map[p] = "none" /\ ~told[p]
  /\ main = "down" => toHost = <<>>
  /\ entry # None <=> main \in {"get", "return"}
  /\ main \in Adding => Op("new")
  /\ main \in Removing => Op("delete")
  /\ main \in Session => \A p \in Pins :
       IF main \in Adding \cup Removing /\ p = Pin
       THEN map[p] = IF main \in {"entry", "get", "map"} THEN "none"
                     ELSE IF main = "construct" THEN "pin" ELSE "base"
       ELSE map[p] # "base"

(* A pin has a whole object; or one that is not quite gone.                *)
Object(p) == map[p] = "pin" /\ ~(main = "construct" /\ p = Pin)
InUse(p)  == map[p] = "pin" \/ (main \in Removing /\ p = Pin)

(* The operations to be done are on pins that will then be in use.         *)
Plan ==
  /\ \A p \in Pins : Object(p) => staging[p] \in Settings(p)
  /\ \A i \in 1..Len(todo) : todo[i].do # "new" =>
       /\ \A j \in 1..i - 1 : todo[j].pin = todo[i].pin => todo[j].do # "delete"
       /\ \/ InUse(todo[i].pin)
          \/ \E j \in 1..i - 1 : todo[j].pin = todo[i].pin /\ todo[j].do = "new"

-----------------------------------------------------------------------------
(* During the handshake: nothing but Pings precedes the Reset, and once it *)
(* has been obeyed the SAM is as it was when it was switched on.           *)
NoReset == \A i \in 1..Len(toHost) : toHost[i].says # "Reset"
Quiet   == \A p \in Pins : ~enabled[p] /\ ~shown[p]
Still   == \A p \in Pwm : duty[p] = 0 /\ st[p].val = st[p].set

Greeting ==
  /\ main \in {"ping", "pong", "reset"} =>
       NoReset /\ \A i \in 1..Len(toSam) : toSam[i].do = "Ping"
  /\ main = "acked" =>
       \/ /\ NoReset /\ toSam # <<>> /\ toSam[Len(toSam)].do = "Reset"
          /\ \A i \in 1..Len(toSam) - 1 : toSam[i].do = "Ping"
       \/ /\ toSam = <<>> /\ Quiet /\ Still /\ ~spoilt
          /\ \A i \in 1..Len(toHost) - 1 : toHost[i].says # "Reset"

(* What Get wants is an enabled pin, what Return wants a disabled one.     *)
Wanted     == main \in {"entry", "get"}
Done       == entry # None /\ entry.updated
Held(p)    == map[p] = "pin" \/ (main \in {"map", "derive"} /\ p = Pin)
Current(p) == Waiting /\ p = Pin
Silent(p)  == \A i \in 1..Len(toHost) : ~StatusLine(p, toHost[i])

(* How far a request has come: to the line, to the pin, back to the line,  *)
(* back to the thread that waits (or it is lost).                          *)
Requested(p) == /\ toSam # <<>>
                /\ toSam[Len(toSam)] = Request(p, IF Wanted THEN "enable" ELSE "disable")
                /\ Silent(p) /\ (enabled[p] <=> ~Wanted) /\ (shown[p] <=> ~Wanted)
Obeyed(p)    == /\ toSam = <<>>
                /\ Silent(p) /\ (enabled[p] <=> Wanted) /\ (shown[p] <=> ~Wanted)
Replied(p)   == /\ toSam = <<>> /\ (enabled[p] <=> Wanted) /\ (shown[p] <=> Wanted)
                /\ \E k \in 1..Len(toHost) :
                     /\ toHost[k] = Says(p, IF Wanted THEN "Enabled" ELSE "Disabled")
                     /\ \A i \in 1..Len(toHost) : StatusLine(p, toHost[i]) => i = k
                     /\ ~Wanted => \A i \in k + 1..Len(toHost) : toHost[i].pin # p
Over(p)      == /\ toSam = <<>>
                /\ Silent(p) /\ (enabled[p] <=> Wanted) /\ (shown[p] <=> Wanted)
                /\ IF Done THEN /\ (entry.actual <=> Wanted)
                                /\ Wanted \/ \A i \in 1..Len(toHost) : toHost[i].pin # p
                   ELSE ~Intact
Stage(p)     == (~Done /\ (Requested(p) \/ Obeyed(p) \/ Replied(p))) \/ Over(p)

(* During a session: what is under way concerns the pins in use.           *)
Asked == \A i \in 1..Len(toSam) : \/ toSam[i].do = "set" /\ enabled[toSam[i].pin]
                                  \/ Waiting /\ i = Len(toSam)
Said  == \A i \in 1..Len(toHost) :
  /\ toHost[i].says \notin {"Pong", "Reset"}
  /\ toHost[i].says = "value" => Held(toHost[i].pin) \/ Current(toHost[i].pin)
Agreed(p) == Silent(p) /\ (enabled[p] <=> Held(p)) /\ (shown[p] <=> Held(p))

Protocol == main \in Session =>
  /\ Asked /\ Said
  /\ \A p \in Pins : IF Current(p) THEN Stage(p) ELSE Agreed(p)

(* What drives a PWM pin.                                                  *)
DrivenAs(p) == IF enabled[p] THEN duty[p] = st[p].val
                             ELSE cut[p] \/ (duty[p] = 0 /\ st[p].val = st[p].set)
Drives == main \in Session => \A p \in Pwm : DrivenAs(p)

-----------------------------------------------------------------------------
(* The last request on the line to set a pin asks for what is staged; when *)
(* there is none, the pin is set to it.                                    *)
SetFor(p, l) == l.pin = p /\ l.do = "set"
Matches(p) ==
  /\ p \in Gpio => st[p].dir = staging[p].dir /\ (st[p].val = staging[p].val \/ st[p].dir = "In")
  /\ p \in Pwm  => st[p].set = staging[p].val /\ st[p].ramp = staging[p].ramp
  /\ p \in Adc /\ staging[p].thresh > 0 => st[p].thresh = staging[p].thresh
Sought(p) ==
  /\ \A i \in 1..Len(toSam) :
       SetFor(p, toSam[i]) /\ (\A j \in i + 1..Len(toSam) : ~SetFor(p, toSam[j]))
         => toSam[i].to = staging[p]
  /\ (\A i \in 1..Len(toSam) : ~SetFor(p, toSam[i])) => Matches(p)
Sets == main \in Session => \A p \in Pins : Object(p) => Sought(p)

(* The last value on the line is the one that was reported; when there is  *)
(* none, it is the one that the host believes.                             *)
ValueOf(p, l) == l.pin = p /\ l.says = "value"
Believed(p) ==
  /\ \A i \in 1..Len(toHost) :
       ValueOf(p, toHost[i]) /\ (\A j \in i + 1..Len(toHost) : ~ValueOf(p, toHost[j]))
         => toHost[i].is = rep[p]
  /\ told[p] /\ (\A i \in 1..Len(toHost) : ~ValueOf(p, toHost[i])) => cache[p] = rep[p]
Values == main \in Session /\ Intact => \A p \in Pins : Believed(p)

-----------------------------------------------------------------------------
(* What part k of pin p will be set to when all operations are done: the   *)
(* last one that touches it, and what is staged if there is none.          *)
Touches(o, p, k) == o.pin = p /\ (o.do = "new" \/ (o.do = "set" /\ o.part = k))
Gives(o, k) == IF o.do = "new" THEN o.to[k] ELSE o.to
Will(p, k, v) ==
  /\ (\A i \in 1..Len(todo) : ~Touches(todo[i], p, k)) => Object(p) /\ staging[p][k] = v
  /\ \A i \in 1..Len(todo) :
       Touches(todo[i], p, k) /\ (\A j \in i + 1..Len(todo) : ~Touches(todo[j], p, k))
         => Gives(todo[i], k) = v
Made(p) == Object(p) \/ \E i \in 1..Len(todo) : todo[i].pin = p /\ todo[i].do = "new"

(* A motor has its pins, which will be set as its velocity demands.        *)
Motor ==
  velocity # None =>
    /\ kind # "none"
    /\ \A i \in 1..Len(todo) : todo[i].do # "delete"
    /\ kind # "lite" => Made(PinB)
    /\ Will(DirPin, "dir", "Out") /\ Will(Pulse, "val", Magnitude(velocity))
    /\ velocity > 0 => Will(DirPin, "val", "Hi")
    /\ velocity < 0 => Will(DirPin, "val", "Low")

IInv == TypeInv /\ Control /\ Plan /\ Greeting /\ Protocol /\ Drives /\ Sets /\ Values /\ Motor
-----------------------------------------------------------------------------
(* What a report may find at the pins.                                     *)
LevelsFound == [{p \in Gpio : Visited(p) /\ st[p].dir = "In"} -> Levels]
AnalogFound == [{p \in Adc : Visited(p)} -> Readings]

(* Every pin is of one kind.                                               *)
LEMMA Kinds == ASSUME NEW p \in Pins
               PROVE  /\ p \in Gpio \/ p \in Adc \/ p \in Pwm
                      /\ p \in Gpio => p \notin Adc /\ p \notin Pwm
                      /\ p \in Adc => p \notin Pwm
                      /\ p # None
  BY PinAssumption DEF Pins

LEMMA GpioFacts ==
  ASSUME NEW p \in Gpio
  PROVE  /\ p \in Pins
         /\ Settings(p) = [dir : {"In", "Out"}, val : Levels]
         /\ States(p) = Settings(p) /\ Reports(p) = Settings(p)
         /\ AtReset(p) = [dir |-> "In", val |-> "Hi"] /\ Unreported(p) = None
  BY PinAssumption DEF Pins, Settings, States, Reports, AtReset, Unreported

LEMMA PwmFacts ==
  ASSUME NEW p \in Pwm
  PROVE  /\ p \in Pins
         /\ Settings(p) = [val : Speeds, ramp : Ramps]
         /\ States(p) = [val : 0..100, set : Speeds \cup {0}, ramp : Ramps \cup {-1}]
         /\ Reports(p) = [val : 0..100, ramp : Ramps \cup {-1}]
         /\ AtReset(p) = [val |-> 0, set |-> 0, ramp |-> -1] /\ Unreported(p) = None
  BY PinAssumption DEF Pins, Settings, States, Reports, AtReset, Unreported

LEMMA AdcFacts ==
  ASSUME NEW p \in Adc
  PROVE  /\ p \in Pins
         /\ Settings(p) = [thresh : Thresholds]
         /\ States(p) = [thresh : {5} \cup {t \in Thresholds : t > 0}]
         /\ Reports(p) = [thresh : {5} \cup {t \in Thresholds : t > 0}, val : Readings \cup {0}]
         /\ AtReset(p) = [thresh |-> 5] /\ Unreported(p) = [thresh |-> 5, val |-> 0]
  BY PinAssumption DEF Pins, Settings, States, Reports, AtReset, Unreported

(* What is on the line to the SAM, and on the line to the host.            *)
LEMMA RequestFacts ==
  ASSUME NEW l \in Requests
  PROVE  /\ l.do \in {"Ping", "Reset", "enable", "disable", "set"}
         /\ l.do \in {"Ping", "Reset"} => l.pin = None
         /\ l.do \notin {"Ping", "Reset"} => l.pin \in Pins
         /\ l.do = "set" => l.to \in Settings(l.pin)
  BY DEF Requests

LEMMA RequestTypes ==
  /\ \A do \in {"Ping", "Reset"} : Request(None, do) \in Requests
  /\ \A p \in Pins, do \in {"enable", "disable"} : Request(p, do) \in Requests
  /\ \A p \in Pins : \A s \in Settings(p) : SetRequest(p, s) \in Requests
  BY DEF Requests, Request, SetRequest

LEMMA LineFacts ==
  ASSUME NEW l \in Lines
  PROVE  /\ l.says \in {"Pong", "Reset", "Junk", "Enabled", "Disabled", "value"}
         /\ l.says \in {"Pong", "Reset", "Junk"} => l.pin = None
         /\ l.says \notin {"Pong", "Reset", "Junk"} => l.pin \in Pins
         /\ l.says = "value" => l.is \in Reports(l.pin)
  BY DEF Lines

LEMMA LineTypes ==
  /\ \A says \in {"Pong", "Reset", "Junk"} : Says(None, says) \in Lines
  /\ \A p \in Pins, says \in {"Enabled", "Disabled"} : Says(p, says) \in Lines
  /\ \A p \in Pins : \A v \in Reports(p) : [pin |-> p, says |-> "value", is |-> v] \in Lines
  BY DEF Lines, Says

LEMMA OpFacts ==
  ASSUME NEW o \in Ops
  PROVE  /\ o.pin \in Pins /\ o.do \in {"new", "set", "delete"}
         /\ o.do = "new" => o.to \in Settings(o.pin)
         /\ o.do = "set" =>
              \/ o.pin \in Gpio /\ o.part = "dir" /\ o.to \in {"In", "Out"}
              \/ o.pin \in Gpio /\ o.part = "val" /\ o.to \in Levels
              \/ o.pin \in Pwm /\ o.part = "val" /\ o.to \in Speeds
              \/ o.pin \in Pwm /\ o.part = "ramp" /\ o.to \in Ramps
              \/ o.pin \in Adc /\ o.part = "thresh" /\ o.to \in Thresholds
  <1>1. CASE o \in NewOps BY <1>1 DEF NewOps
  <1>2. CASE o \in DeleteOps BY <1>2 DEF DeleteOps
  <1>3. CASE o \in GpioOps BY <1>3 DEF GpioOps, Pins
  <1>4. CASE o \in PwmOps BY <1>4 DEF PwmOps, Pins
  <1>5. CASE o \in AdcOps BY <1>5 DEF AdcOps, Pins
  <1>. QED BY <1>1, <1>2, <1>3, <1>4, <1>5 DEF Ops

LEMMA OpTypes ==
  /\ \A p \in Pins : \A s \in Settings(p) : New(p, s) \in Ops
  /\ \A p \in Pins : Delete(p) \in Ops
  /\ \A p \in Gpio, v \in {"In", "Out"} : Set(p, "dir", v) \in Ops
  /\ \A p \in Gpio, v \in Levels : Set(p, "val", v) \in Ops
  /\ \A p \in Pwm, v \in Speeds : Set(p, "val", v) \in Ops
  /\ \A p \in Pwm, v \in Ramps : Set(p, "ramp", v) \in Ops
  /\ \A p \in Adc, v \in Thresholds : Set(p, "thresh", v) \in Ops
  <1>1. \A p \in Pins : \A s \in Settings(p) : New(p, s) \in NewOps
    BY DEF NewOps, New
  <1>2. \A p \in Pins : Delete(p) \in DeleteOps
    BY DEF DeleteOps, Delete
  <1>3. \A p \in Gpio : /\ \A v \in {"In", "Out"} : Set(p, "dir", v) \in GpioOps
                        /\ \A v \in Levels : Set(p, "val", v) \in GpioOps
    BY DEF GpioOps, Set
  <1>4. \A p \in Pwm : /\ \A v \in Speeds : Set(p, "val", v) \in PwmOps
                       /\ \A v \in Ramps : Set(p, "ramp", v) \in PwmOps
    BY DEF PwmOps, Set
  <1>5. \A p \in Adc, v \in Thresholds : Set(p, "thresh", v) \in AdcOps
    BY DEF AdcOps, Set
  <1>. QED BY <1>1, <1>2, <1>3, <1>4, <1>5 DEF Ops

-----------------------------------------------------------------------------
LEMMA Ranges ==
  /\ \A v \in Speeds \cup {0} : v \in 0..100
  /\ \A r \in Ramps \cup {-1} : r \in Int /\ r # 0
  /\ \A t \in Thresholds : t \in Int
  BY HostAssumption

LEMMA Between ==
  \A a, b \in 0..100, r \in Int :
    ~(r <= 0 \/ b \in (a - r)..(a + r)) => (IF b > a THEN a + r ELSE a - r) \in 0..100
  OBVIOUS

(* A step towards the set point stays within 0..100 and changes nothing    *)
(* else; it goes nowhere from the set point.                               *)
LEMMA PwmSetFacts ==
  ASSUME NEW p \in Pwm, NEW s \in States(p)
  PROVE  /\ PwmPin_Set(s) \in States(p)
         /\ PwmPin_Set(s).set = s.set /\ PwmPin_Set(s).ramp = s.ramp
         /\ s.val = s.set => PwmPin_Set(s) = s
  <1>1. s \in [val : 0..100, set : Speeds \cup {0}, ramp : Ramps \cup {-1}]
    BY PwmFacts
  <1>2. s.val \in 0..100 /\ s.set \in 0..100 /\ s.ramp \in Int
    <2>1. s.val \in 0..100 /\ s.set \in Speeds \cup {0} /\ s.ramp \in Ramps \cup {-1}
      BY <1>1
    <2>. QED BY <2>1, Ranges
  <1>3. PwmPin_Set(s) = [s EXCEPT !.val = PwmPin_Set(s).val]
    BY <1>1 DEF PwmPin_Set
  <1>4. PwmPin_Set(s).val \in 0..100
    <2>1. CASE s.ramp <= 0 \/ s.set \in (s.val - s.ramp)..(s.val + s.ramp)
      <3>1. PwmPin_Set(s).val = s.set
        BY <1>1, <1>2, <2>1 DEF PwmPin_Set
      <3>. QED BY <1>2, <3>1
    <2>2. CASE ~(s.ramp <= 0 \/ s.set \in (s.val - s.ramp)..(s.val + s.ramp))
      <3>1. PwmPin_Set(s).val = IF s.set > s.val THEN s.val + s.ramp ELSE s.val - s.ramp
        BY <1>1, <1>2, <2>2 DEF PwmPin_Set
      <3>. QED BY <1>2, <2>2, <3>1, Between
    <2>. QED BY <2>1, <2>2
  <1>5. s.val = s.set => PwmPin_Set(s).val = s.val
    BY <1>1, <1>2 DEF PwmPin_Set
  <1>6. PwmPin_Set(s) \in [val : 0..100, set : Speeds \cup {0}, ramp : Ramps \cup {-1}]
    BY <1>1, <1>3, <1>4
  <1>7. PwmPin_Set(s).set = s.set /\ PwmPin_Set(s).ramp = s.ramp
    BY <1>1, <1>3
  <1>8. s.val = s.set => PwmPin_Set(s) = s
    BY <1>1, <1>3, <1>5
  <1>. QED BY <1>6, <1>7, <1>8, PwmFacts

(* What drives a pin goes where its value goes.                            *)
LEMMA DrivenFacts ==
  ASSUME NEW p \in Pwm, NEW s \in States(p), duty[p] \in 0..100
  PROVE  /\ Driven(p, s) \in 0..100
         /\ s.val = s.set => Driven(p, s) = duty[p]
         /\ s.val = duty[p] => Driven(p, s) = PwmPin_Set(s).val
  <1>1. s \in [val : 0..100, set : Speeds \cup {0}, ramp : Ramps \cup {-1}]
    BY PwmFacts
  <1>2. s.val \in 0..100 /\ s.set \in 0..100
    <2>1. s.val \in 0..100 /\ s.set \in Speeds \cup {0}
      BY <1>1
    <2>. QED BY <2>1, Ranges
  <1>3. PwmPin_Set(s) \in States(p) /\ (s.val = s.set => PwmPin_Set(s).val = s.val)
    BY PwmSetFacts
  <1>4. PwmPin_Set(s).val \in 0..100
    <2>1. PwmPin_Set(s) \in [val : 0..100, set : Speeds \cup {0}, ramp : Ramps \cup {-1}]
      BY <1>3, PwmFacts
    <2>. QED BY <2>1
  <1>. QED BY <1>1, <1>2, <1>3, <1>4 DEF Driven

(* What a visit finds and what it says of it.                              *)
LEMMA RefreshedFacts ==
  ASSUME DOMAIN st = Pins, \A p \in Pins : st[p] \in States(p),
         NEW level \in LevelsFound,
         NEW p \in Pins, Visited(p)
  PROVE  /\ Refreshed(p, level) \in States(p)
         /\ p \in Gpio => /\ Refreshed(p, level).dir = st[p].dir
                          /\ st[p].dir # "In" => Refreshed(p, level) = st[p]
         /\ p \in Pwm => Refreshed(p, level) = PwmPin_Set(st[p])
         /\ p \in Adc => Refreshed(p, level) = st[p]
  <1>1. CASE p \in Gpio
    <2>1. st[p] \in [dir : {"In", "Out"}, val : Levels]
      BY <1>1, GpioFacts
    <2>2. Refreshed(p, level) = IF st[p].dir = "In" THEN [st[p] EXCEPT !.val = level[p]] ELSE st[p]
      BY <1>1, Kinds DEF Refreshed
    <2>3. st[p].dir = "In" => level[p] \in Levels
      BY <1>1 DEF LevelsFound
    <2>4. Refreshed(p, level) \in [dir : {"In", "Out"}, val : Levels]
      BY <2>1, <2>2, <2>3
    <2>5. Refreshed(p, level).dir = st[p].dir
      BY <2>1, <2>2
    <2>. QED BY <1>1, <2>2, <2>4, <2>5, GpioFacts, Kinds
  <1>2. CASE p \in Pwm
    BY <1>2, PwmSetFacts, Kinds DEF Refreshed
  <1>3. CASE p \in Adc
    BY <1>3, AdcFacts, Kinds DEF Refreshed
  <1>. QED BY <1>1, <1>2, <1>3, Kinds

LEMMA ValueFacts ==
  ASSUME DOMAIN st = Pins, \A p \in Pins : st[p] \in States(p),
         NEW level \in LevelsFound,
         NEW analog \in AnalogFound,
         NEW p \in Pins, Visited(p)
  PROVE  Value(p, level, analog) \in Reports(p)
  <1>. DEFINE s == Refreshed(p, level)
  <1>0. s \in States(p)
    BY RefreshedFacts
  <1>1. CASE p \in Gpio
    BY <1>0, <1>1, GpioFacts, Kinds DEF Value
  <1>2. CASE p \in Pwm
    <2>1. Value(p, level, analog) = [val |-> s.val, ramp |-> s.ramp]
      BY <1>2, Kinds DEF Value
    <2>2. s \in [val : 0..100, set : Speeds \cup {0}, ramp : Ramps \cup {-1}]
      BY <1>0, <1>2, PwmFacts
    <2>3. Value(p, level, analog) \in [val : 0..100, ramp : Ramps \cup {-1}]
      BY <2>1, <2>2
    <2>. QED BY <1>2, <2>3, PwmFacts
  <1>3. CASE p \in Adc
    <2>1. Value(p, level, analog) = [thresh |-> s.thresh, val |-> analog[p]]
      BY <1>3, Kinds DEF Value
    <2>2. s \in [thresh : {5} \cup {t \in Thresholds : t > 0}] /\ analog[p] \in Readings
      BY <1>0, <1>3, AdcFacts DEF AnalogFound
    <2>3. Value(p, level, analog) \in
            [thresh : {5} \cup {t \in Thresholds : t > 0}, val : Readings \cup {0}]
      BY <2>1, <2>2
    <2>. QED BY <1>3, <2>3, AdcFacts
  <1>. QED BY <1>1, <1>2, <1>3, Kinds

-----------------------------------------------------------------------------
(* The queue of a set of pins names each of them once.                     *)
LEMMA QueueFacts ==
  ASSUME NEW S \in SUBSET Pins, NEW q \in Queues[S]
  PROVE  /\ q \in Seq(S)
         /\ S = {q[i] : i \in 1..Len(q)}
         /\ \A i, j \in 1..Len(q) : q[i] = q[j] => i = j
  <1>1. q \in Queue(S)
    BY DEF Queues
  <1>2. PICK n \in 0..Len(Order) : q \in [1..n -> S]
    BY <1>1 DEF Queue
  <1>3. n \in Nat
    BY PinAssumption, LenProperties
  <1>4. q \in Seq(S) /\ Len(q) = n
    BY <1>2, <1>3
  <1>5. \A i, j \in 1..Len(q) : i < j => Place[q[i]] < Place[q[j]]
    BY <1>1 DEF Queue
  <1>6. ASSUME NEW i \in 1..Len(q), NEW j \in 1..Len(q), q[i] = q[j] PROVE i = j
    <2>1. Place[q[i]] \in 1..Len(Order)
      <3>1. q[i] \in Pins
        BY <1>4, ElementOfSeq
      <3>2. PICK k \in 1..Len(Order) : Order[k] = q[i]
        BY <3>1, PinAssumption
      <3>. QED BY <3>1, <3>2 DEF Place
    <2>2. ~(Place[q[i]] < Place[q[j]]) /\ ~(Place[q[j]] < Place[q[i]])
      BY <2>1, <1>6, <1>3
    <2>. QED BY <2>2, <1>5, <1>4, <1>3
  <1>. QED BY <1>1, <1>4, <1>6 DEF Queue

(* What is written reaches the host, but for the line that the spoilt text *)
(* before it has made into junk.                                           *)
Received(lines) ==
  /\ Len(toHost') = Len(toHost) + Len(lines)
  /\ \A i \in 1..Len(toHost) : toHost'[i] = toHost[i]
  /\ \A i \in 1..Len(lines) :
       toHost'[Len(toHost) + i] = IF spoilt /\ i = 1 THEN Says(None, "Junk") ELSE lines[i]
  /\ lines = <<>> => toHost' = toHost
  /\ spoilt' = (spoilt /\ lines = <<>>)

LEMMA EmitFacts ==
  ASSUME toHost \in Seq(Lines), NEW lines \in Seq(Lines), NEW open \in BOOLEAN,
         Emit(lines, open)
  PROVE  /\ toHost' \in Seq(Lines)
         /\ open => Received(lines)
         /\ ~open => toHost' = <<>>
  <1>1. CASE ~open
    BY <1>1 DEF Emit
  <1>2. CASE open /\ spoilt /\ lines # <<>>
    <2>. DEFINE junk == <<Says(None, "Junk")>>
    <2>1. junk \in Seq(Lines) /\ Len(junk) = 1 /\ junk[1] = Says(None, "Junk")
      BY LineTypes
    <2>2. /\ Tail(lines) \in Seq(Lines) /\ Len(Tail(lines)) = Len(lines) - 1
          /\ \A i \in 1..Len(Tail(lines)) : Tail(lines)[i] = lines[i + 1]
          /\ Len(lines) \in Nat \ {0}
      BY <1>2, HeadTailProperties, EmptySeq
    <2>3. /\ toHost \o junk \in Seq(Lines) /\ Len(toHost \o junk) = Len(toHost) + 1
          /\ \A i \in 1..Len(toHost) + 1 :
               (toHost \o junk)[i] = IF i <= Len(toHost) THEN toHost[i] ELSE Says(None, "Junk")
      BY <2>1, ConcatProperties
    <2>4. toHost' = (toHost \o junk) \o Tail(lines)
      BY <1>2 DEF Emit
    <2>. HIDE DEF junk
    <2>0. Len(toHost) \in Nat /\ Len(lines) \in Nat
      BY LenProperties
    <2>10. /\ toHost' \in Seq(Lines) /\ Len(toHost') = Len(toHost \o junk) + Len(Tail(lines))
           /\ \A i \in 1..Len(toHost \o junk) + Len(Tail(lines)) :
               toHost'[i] = IF i <= Len(toHost \o junk) THEN (toHost \o junk)[i]
                            ELSE Tail(lines)[i - Len(toHost \o junk)]
      BY <2>2, <2>3, <2>4, ConcatProperties
    <2>5. /\ toHost' \in Seq(Lines) /\ Len(toHost') = Len(toHost) + Len(lines)
          /\ \A i \in 1..Len(toHost') :
               toHost'[i] = IF i <= Len(toHost) + 1 THEN (toHost \o junk)[i]
                            ELSE Tail(lines)[i - (Len(toHost) + 1)]
      BY <2>0, <2>2, <2>3, <2>10
    <2>6. Len(toHost) \in Nat /\ Len(lines) \in Nat
      BY LenProperties
    <2>7. \A i \in 1..Len(toHost) : toHost'[i] = toHost[i]
      BY <2>3, <2>5, <2>6
    <2>8. \A i \in 1..Len(lines) :
            toHost'[Len(toHost) + i] = IF i = 1 THEN Says(None, "Junk") ELSE lines[i]
      <3>. SUFFICES ASSUME NEW i \in 1..Len(lines)
                    PROVE  toHost'[Len(toHost) + i] =
                             IF i = 1 THEN Says(None, "Junk") ELSE lines[i]
        OBVIOUS
      <3>1. CASE i = 1
        BY <3>1, <2>3, <2>5, <2>6
      <3>2. CASE i # 1
        <4>0. /\ Len(toHost) + i - (Len(toHost) + 1) = i - 1
              /\ ~(Len(toHost) + i <= Len(toHost) + 1)
              /\ Len(toHost) + i \in 1..Len(toHost')
          BY <3>2, <2>5, <2>6
        <4>1. toHost'[Len(toHost) + i] = Tail(lines)[i - 1]
          BY <4>0, <2>5, <2>6
        <4>2. i - 1 \in 1..Len(Tail(lines))
          BY <3>2, <2>2, <2>6
        <4>. QED BY <3>2, <4>1, <4>2, <2>2
      <3>. QED BY <3>1, <3>2
    <2>. QED BY <1>2, <2>5, <2>7, <2>8 DEF Received, Emit
  <1>3. CASE open /\ ~(spoilt /\ lines # <<>>)
    <2>1. toHost' = toHost \o lines
      BY <1>3 DEF Emit
    <2>2. /\ toHost' \in Seq(Lines) /\ Len(toHost') = Len(toHost) + Len(lines)
          /\ \A i \in 1..Len(toHost') :
               toHost'[i] = IF i <= Len(toHost) THEN toHost[i] ELSE lines[i - Len(toHost)]
      BY <2>1, ConcatProperties
    <2>3. Len(toHost) \in Nat /\ Len(lines) \in Nat
      BY LenProperties
    <2>4. \A i \in 1..Len(toHost) : toHost'[i] = toHost[i]
      BY <2>2, <2>3
    <2>5. \A i \in 1..Len(lines) : toHost'[Len(toHost) + i] = lines[i]
      BY <2>2, <2>3
    <2>6. lines = <<>> => toHost' = toHost /\ Len(lines) = 0
      BY <2>1, ConcatEmptySeq
    <2>. QED BY <1>3, <2>2, <2>3, <2>4, <2>5, <2>6 DEF Received, Emit
  <1>. QED BY <1>1, <1>2, <1>3 DEF Emit

-----------------------------------------------------------------------------
(* What a report makes of the line to the host: what it adds is junk, or   *)
(* the line of a pin that it has visited, one of each; a line is lost only *)
(* if the report is spoilt.                                                *)
Junk == Says(None, "Junk")
Heard(reached, level, analog) ==
  /\ Len(toHost) <= Len(toHost')
  /\ \A i \in 1..Len(toHost) : toHost'[i] = toHost[i]
  /\ \A i \in Len(toHost) + 1..Len(toHost') :
       \/ toHost'[i] = Junk
       \/ \E p \in reached : Speaks(p, level, analog) /\ toHost'[i] = Line(p, level, analog)
  /\ \A i, j \in Len(toHost) + 1..Len(toHost') : toHost'[i].pin = toHost'[j].pin => i = j
  /\ \/ spoilt'
     \/ \E i \in 1..Len(toHost') : toHost'[i] = Junk
     \/ /\ ~spoilt /\ reached = Pins
        /\ \A p \in Pins : Speaks(p, level, analog) =>
             \E i \in Len(toHost) + 1..Len(toHost') : toHost'[i] = Line(p, level, analog)
  /\ (\A p \in Pins : ~Speaks(p, level, analog)) => toHost' = toHost /\ spoilt' = spoilt

Report(reached, level, analog) ==
  /\ Visit(reached, level, analog)
  /\ UNCHANGED <<enabled, cut, toSam>> /\ spoilt' \in BOOLEAN
  /\ toHost' \in Seq(Lines) /\ Len(toHost') <= MaxLines
  /\ IF Open THEN Heard(reached, level, analog) ELSE toHost = <<>> => toHost' = <<>>

LEMMA LineOf ==
  ASSUME DaemonTypes,
         NEW level \in LevelsFound,
         NEW analog \in AnalogFound,
         NEW p \in Pins, Speaks(p, level, analog)
  PROVE  /\ Line(p, level, analog) \in Lines /\ Line(p, level, analog).pin = p
         /\ Line(p, level, analog).says = IF enabled[p] = shown[p] THEN "value"
                                          ELSE IF enabled[p] THEN "Enabled" ELSE "Disabled"
         /\ enabled[p] = shown[p] => /\ Line(p, level, analog).is = Value(p, level, analog)
                                     /\ enabled[p] /\ SaysValue(p, level, analog)
  <1>0. /\ DOMAIN st = Pins /\ \A q \in Pins : st[q] \in States(q)
        /\ enabled \in [Pins -> BOOLEAN] /\ shown \in [Pins -> BOOLEAN]
    BY DEF DaemonTypes
  <1>1. CASE enabled[p] # shown[p]
    <2>1. Line(p, level, analog) = Says(p, IF enabled[p] THEN "Enabled" ELSE "Disabled")
      BY <1>1 DEF Line
    <2>2. Line(p, level, analog) \in Lines
      BY <2>1, LineTypes
    <2>3. /\ Line(p, level, analog).pin = p
          /\ Line(p, level, analog).says = IF enabled[p] THEN "Enabled" ELSE "Disabled"
      BY <2>1 DEF Says
    <2>. QED BY <1>1, <2>2, <2>3
  <1>2. CASE enabled[p] = shown[p]
    <2>1. SaysValue(p, level, analog) /\ enabled[p]
      BY <1>2 DEF Speaks, SaysValue
    <2>2. Value(p, level, analog) \in Reports(p)
      BY <1>0, <2>1, ValueFacts DEF Visited
    <2>3. Line(p, level, analog) = [pin |-> p, says |-> "value", is |-> Value(p, level, analog)]
      BY <1>2 DEF Line
    <2>4. Line(p, level, analog) \in Lines
      BY <2>2, <2>3, LineTypes
    <2>5. /\ Line(p, level, analog).pin = p /\ Line(p, level, analog).says = "value"
          /\ Line(p, level, analog).is = Value(p, level, analog)
      BY <2>3
    <2>. QED BY <1>2, <2>1, <2>4, <2>5
  <1>. QED BY <1>1, <1>2

LEMMA ReportFacts ==
  ASSUME TypeInv, ReportStatus(Open)
  PROVE  \E reached \in SUBSET Pins,
            level \in LevelsFound,
            analog \in AnalogFound :
           Report(reached, level, analog)
  <1>0. PICK level \in LevelsFound,
             analog \in AnalogFound :
          \E q \in Queues[{p \in Pins : Speaks(p, level, analog)}] :
            /\ IF Len(q) > Room
               THEN /\ Visit({p \in Pins : Place[p] <= Place[q[Room + 1]]}, level, analog)
                    /\ spoilt' = TRUE /\ UNCHANGED toHost
               ELSE /\ Len(toHost) + Len(q) <= MaxLines
                    /\ Visit(Pins, level, analog)
                    /\ Emit([i \in 1..Len(q) |-> Line(q[i], level, analog)], Open)
            /\ UNCHANGED <<enabled, cut, toSam>>
    BY DEF ReportStatus, LevelsFound, AnalogFound
  <1>9. PICK S \in SUBSET Pins : S = {p \in Pins : Speaks(p, level, analog)}
    OBVIOUS
  <1>1. PICK q \in Queues[S] :
          /\ IF Len(q) > Room
             THEN /\ Visit({p \in Pins : Place[p] <= Place[q[Room + 1]]}, level, analog)
                  /\ spoilt' = TRUE /\ UNCHANGED toHost
             ELSE /\ Len(toHost) + Len(q) <= MaxLines
                  /\ Visit(Pins, level, analog)
                  /\ Emit([i \in 1..Len(q) |-> Line(q[i], level, analog)], Open)
          /\ UNCHANGED <<enabled, cut, toSam>>
    BY <1>0, <1>9
  <1>. DEFINE lines == [i \in 1..Len(q) |-> Line(q[i], level, analog)]
  <1>2. /\ q \in Seq(S) /\ S = {q[i] : i \in 1..Len(q)}
        /\ \A i, j \in 1..Len(q) : q[i] = q[j] => i = j
    BY QueueFacts
  <1>3. /\ DaemonTypes /\ toHost \in Seq(Lines) /\ Len(toHost) \in Nat /\ Len(q) \in Nat
        /\ Room \in Nat /\ MaxLines \in Nat /\ Len(toHost) <= MaxLines /\ spoilt \in BOOLEAN
    BY <1>2, LenProperties, PinAssumption DEF TypeInv, SerialTypes, DaemonTypes
  <1>4. \A i \in 1..Len(q) : /\ q[i] \in Pins /\ Speaks(q[i], level, analog)
                             /\ Line(q[i], level, analog) \in Lines
                             /\ Line(q[i], level, analog).pin = q[i]
    <2>. SUFFICES ASSUME NEW i \in 1..Len(q)
                  PROVE  /\ q[i] \in Pins /\ Speaks(q[i], level, analog)
                         /\ Line(q[i], level, analog) \in Lines
                         /\ Line(q[i], level, analog).pin = q[i]
      OBVIOUS
    <2>1. q[i] \in S
      BY <1>2, ElementOfSeq
    <2>2. q[i] \in Pins /\ Speaks(q[i], level, analog)
      BY <1>9, <2>1
    <2>3. \A p \in Pins : Speaks(p, level, analog) =>
            Line(p, level, analog) \in Lines /\ Line(p, level, analog).pin = p
      <3>1. DaemonTypes
        BY <1>3
      <3>. HIDE DEF lines
      <3>. QED BY <3>1, LineOf
    <2>. HIDE DEF lines
    <2>. QED BY <2>2, <2>3
  <1>5. (\A p \in Pins : ~Speaks(p, level, analog)) => Len(q) = 0
    <2>1. Len(q) # 0 => 1 \in 1..Len(q)
      BY <1>3
    <2>. QED BY <1>4, <2>1
  <1>6. CASE Len(q) > Room
    <2>. DEFINE reached == {p \in Pins : Place[p] <= Place[q[Room + 1]]}
    <2>0. /\ Visit(reached, level, analog) /\ spoilt' = TRUE /\ toHost' = toHost
          /\ UNCHANGED <<enabled, cut, toSam>>
      BY <1>1, <1>6
    <2>1. Len(toHost') = Len(toHost) /\ Len(toHost) <= Len(toHost') /\ ~(Len(q) = 0)
      BY <2>0, <1>3, <1>6
    <2>2. \A i : i \notin Len(toHost) + 1..Len(toHost')
      BY <2>1, <1>3
    <2>3. Heard(reached, level, analog)
      BY <1>5, <2>0, <2>1, <2>2 DEF Heard
    <2>4. Report(reached, level, analog)
      BY <1>3, <2>0, <2>3 DEF Report
    <2>5. reached \in SUBSET Pins
      OBVIOUS
    <2>. HIDE DEF reached
    <2>. QED BY <2>4, <2>5
  <1>7. CASE ~(Len(q) > Room)
    <2>0. lines \in [1..Len(q) -> Lines]
      BY <1>4
    <2>1. lines \in Seq(Lines) /\ Len(lines) = Len(q) /\ (Len(q) = 0 => lines = <<>>)
      <3>. HIDE DEF lines
      <3>1. lines \in Seq(Lines) /\ Len(lines) = Len(q)
        BY <1>3, <2>0
      <3>. QED BY <3>1, EmptySeq
    <2>2. Emit(lines, Open) /\ Len(toHost) + Len(q) <= MaxLines /\ Visit(Pins, level, analog)
      BY <1>1, <1>7
    <2>3. lines[1] = lines[1] /\ \A i \in 1..Len(q) : lines[i] = Line(q[i], level, analog)
      OBVIOUS
    <2>. HIDE DEF lines
    <2>4. /\ toHost' \in Seq(Lines)
          /\ Open => Received(lines)
          /\ ~Open => toHost' = <<>>
      BY <1>3, <2>1, <2>2, EmitFacts DEF Open
    <2>5. spoilt' \in BOOLEAN
      BY <1>3, <2>2 DEF Emit
    <2>6. CASE ~Open
      <3>1. Len(toHost') <= MaxLines
        BY <1>3, <2>4, <2>6
      <3>2. Report(Pins, level, analog)
        BY <1>1, <2>2, <2>4, <2>5, <2>6, <3>1 DEF Report
      <3>. QED BY <3>2
    <2>7. CASE Open
      <3>1. /\ Len(toHost') = Len(toHost) + Len(q)
            /\ \A i \in 1..Len(toHost) : toHost'[i] = toHost[i]
            /\ \A i \in 1..Len(q) : toHost'[Len(toHost) + i] =
                 IF spoilt /\ i = 1 THEN Junk ELSE Line(q[i], level, analog)
            /\ Len(q) = 0 => toHost' = toHost /\ spoilt' = spoilt
            /\ spoilt' = (spoilt /\ lines = <<>>)
        BY <2>1, <2>3, <2>4, <2>7, <1>3 DEF Received, Junk
      <3>2. \A i \in Len(toHost) + 1..Len(toHost') :
              /\ i - Len(toHost) \in 1..Len(q)
              /\ toHost'[i] = IF spoilt /\ i - Len(toHost) = 1 THEN Junk
                              ELSE Line(q[i - Len(toHost)], level, analog)
        <4>. SUFFICES ASSUME NEW i \in Len(toHost) + 1..Len(toHost')
                      PROVE  /\ i - Len(toHost) \in 1..Len(q)
                             /\ toHost'[i] = IF spoilt /\ i - Len(toHost) = 1 THEN Junk
                                             ELSE Line(q[i - Len(toHost)], level, analog)
          OBVIOUS
        <4>1. i - Len(toHost) \in 1..Len(q) /\ Len(toHost) + (i - Len(toHost)) = i
          BY <1>3, <3>1
        <4>. QED BY <4>1, <3>1
      <3>3. \A i, j \in Len(toHost) + 1..Len(toHost') : toHost'[i].pin = toHost'[j].pin => i = j
        <4>. SUFFICES ASSUME NEW i \in Len(toHost) + 1..Len(toHost'),
                             NEW j \in Len(toHost) + 1..Len(toHost'),
                             toHost'[i].pin = toHost'[j].pin
                      PROVE  i = j
          OBVIOUS
        <4>. DEFINE a == i - Len(toHost)
                    b == j - Len(toHost)
        <4>0. a \in 1..Len(q) /\ b \in 1..Len(q) /\ Junk.pin = None
          BY <3>2 DEF Junk, Says
        <4>1. /\ a \in 1..Len(q) /\ b \in 1..Len(q)
              /\ toHost'[i].pin = IF spoilt /\ a = 1 THEN None ELSE q[a]
              /\ toHost'[j].pin = IF spoilt /\ b = 1 THEN None ELSE q[b]
              /\ q[a] # None /\ q[b] # None
          BY <1>4, <3>2, <4>0, Kinds
        <4>2. a = b
          BY <4>1, <1>2
        <4>. QED BY <4>2, <1>3
      <3>4. \A p \in Pins : Speaks(p, level, analog) => \E i \in 1..Len(q) : q[i] = p
        BY <1>2, <1>9
      <3>5. \/ \E i \in 1..Len(toHost') : toHost'[i] = Junk
            \/ ~spoilt /\ \A p \in Pins : Speaks(p, level, analog) =>
                 \E i \in Len(toHost) + 1..Len(toHost') : toHost'[i] = Line(p, level, analog)
            \/ spoilt'
        <4>1. CASE ~spoilt
          <5>. SUFFICES ASSUME NEW p \in Pins, Speaks(p, level, analog)
                        PROVE  \E i \in Len(toHost) + 1..Len(toHost') :
                                 toHost'[i] = Line(p, level, analog)
            BY <4>1
          <5>1. PICK i \in 1..Len(q) : q[i] = p
            BY <3>4
          <5>2. Len(toHost) + i \in Len(toHost) + 1..Len(toHost')
            BY <1>3, <3>1
          <5>. QED BY <4>1, <5>1, <5>2, <3>1
        <4>2. CASE spoilt /\ Len(q) = 0
          BY <4>2, <3>1
        <4>3. CASE spoilt /\ Len(q) # 0
          <5>1. 1 \in 1..Len(q) /\ Len(toHost) + 1 \in 1..Len(toHost')
            BY <1>3, <3>1, <4>3
          <5>. QED BY <4>3, <5>1, <3>1
        <4>. QED BY <4>1, <4>2, <4>3
      <3>6. \A i \in Len(toHost) + 1..Len(toHost') :
              \/ toHost'[i] = Junk
              \/ \E p \in Pins : Speaks(p, level, analog) /\ toHost'[i] = Line(p, level, analog)
        BY <3>2, <1>4
      <3>7. Len(toHost) <= Len(toHost')
        BY <1>3, <3>1
      <3>8. Heard(Pins, level, analog)
        BY <1>5, <3>1, <3>3, <3>5, <3>6, <3>7 DEF Heard
      <3>9. Report(Pins, level, analog)
        BY <1>1, <1>3, <2>2, <2>4, <2>5, <2>7, <3>1, <3>8 DEF Report
      <3>. QED BY <3>9
    <2>. QED BY <2>6, <2>7
  <1>. QED BY <1>6, <1>7

-----------------------------------------------------------------------------
(* A line, or an operation, is taken off the front, or put at the end.     *)
LEMMA TailFacts ==
  ASSUME NEW S, NEW s \in Seq(S), s # <<>>
  PROVE  /\ Head(s) = s[1] /\ s[1] \in S /\ Len(s) \in Nat \ {0}
         /\ Tail(s) \in Seq(S) /\ Len(Tail(s)) = Len(s) - 1
         /\ \A i \in 1..Len(s) - 1 : Tail(s)[i] = s[i + 1]
         /\ Len(s) = 1 => Tail(s) = <<>>
  <1>1. Len(s) \in Nat \ {0}
    BY EmptySeq
  <1>2. s[1] \in S
    BY <1>1, ElementOfSeq
  <1>3. /\ Tail(s) \in Seq(S) /\ Len(Tail(s)) = Len(s) - 1
        /\ \A i \in 1..Len(Tail(s)) : Tail(s)[i] = s[i + 1]
    BY HeadTailProperties
  <1>4. Len(s) = 1 => Tail(s) = <<>>
    <2>. DEFINE t == Tail(s)
    <2>1. t \in Seq(S) /\ Len(t) = Len(s) - 1
      BY <1>3
    <2>. HIDE DEF t
    <2>2. t # <<>> => Len(t) \in Nat \ {0}
      BY <2>1, EmptySeq
    <2>. QED BY <2>1, <2>2 DEF t
  <1>. QED BY <1>1, <1>2, <1>3, <1>4

LEMMA SendFacts ==
  ASSUME TypeInv, NEW l \in Requests, Send(l)
  PROVE  /\ toSam' \in Seq(Requests) /\ Len(toSam') <= MaxLines /\ toSam' # <<>>
         /\ Len(toSam) \in Nat /\ Len(toSam') = Len(toSam) + 1 /\ toSam'[Len(toSam) + 1] = l
         /\ \A i \in 1..Len(toSam) : toSam'[i] = toSam[i]
  <1>1. toSam \in Seq(Requests) /\ toSam' = Append(toSam, l) /\ Len(toSam) < MaxLines
    BY DEF TypeInv, SerialTypes, Send
  <1>2. Len(toSam) \in Nat /\ MaxLines \in Nat
    BY <1>1, LenProperties, PinAssumption
  <1>. QED BY <1>1, <1>2, AppendProperties

LEMMA ProcessFacts ==
  ASSUME TypeInv, NEW do, Process(do)
  PROVE  /\ toSam' \in Seq(Requests) /\ Len(toSam') <= MaxLines
         /\ Head(toSam) = toSam[1] /\ toSam[1] \in Requests /\ toSam[1].do = do
         /\ Len(toSam) \in Nat \ {0} /\ Len(toSam') = Len(toSam) - 1
         /\ \A i \in 1..Len(toSam') : toSam'[i] = toSam[i + 1]
         /\ Len(toSam) = 1 => toSam' = <<>>
  <1>1. toSam \in Seq(Requests) /\ Len(toSam) <= MaxLines /\ toSam # <<>>
    BY DEF TypeInv, SerialTypes, Process
  <1>2. toSam' = Tail(toSam) /\ Head(toSam).do = do
    BY DEF Process
  <1>3. MaxLines \in Nat
    BY PinAssumption
  <1>. QED BY <1>1, <1>2, <1>3, TailFacts

LEMMA ReadFacts ==
  ASSUME TypeInv, ReadLine
  PROVE  /\ toHost' \in Seq(Lines) /\ Len(toHost') <= MaxLines
         /\ Head(toHost) = toHost[1] /\ toHost[1] \in Lines
         /\ Len(toHost) \in Nat \ {0} /\ Len(toHost') = Len(toHost) - 1
         /\ \A i \in 1..Len(toHost') : toHost'[i] = toHost[i + 1]
         /\ Len(toHost) = 1 => toHost' = <<>>
  <1>1. toHost \in Seq(Lines) /\ Len(toHost) <= MaxLines /\ toHost # <<>>
    BY DEF TypeInv, SerialTypes, ReadLine
  <1>2. toHost' = Tail(toHost)
    BY DEF ReadLine
  <1>3. MaxLines \in Nat
    BY PinAssumption
  <1>. QED BY <1>1, <1>2, <1>3, TailFacts

LEMMA AnswerFacts ==
  ASSUME TypeInv, NEW what \in {"Pong", "Reset"}, Answer(what, Open)
  PROVE  /\ toHost' \in Seq(Lines) /\ Len(toHost') <= MaxLines /\ spoilt' = FALSE
         /\ IF Open
            THEN /\ Len(toHost) \in Nat /\ Len(toHost') = Len(toHost) + 1
                 /\ \A i \in 1..Len(toHost) : toHost'[i] = toHost[i]
                 /\ toHost'[Len(toHost) + 1] \in {Says(None, what), Junk}
            ELSE toHost' = <<>>
  <1>. DEFINE lines == <<Says(None, what)>>
  <1>1. lines \in Seq(Lines) /\ Len(lines) = 1 /\ lines[1] = Says(None, what) /\ lines # <<>>
    BY LineTypes
  <1>2. Emit(lines, Open) /\ Len(toHost) < MaxLines
    BY DEF Answer
  <1>3. toHost \in Seq(Lines) /\ Len(toHost) \in Nat /\ MaxLines \in Nat
    BY LenProperties, PinAssumption DEF TypeInv, SerialTypes
  <1>. HIDE DEF lines
  <1>4. toHost' \in Seq(Lines) /\ (Open => Received(lines)) /\ (~Open => toHost' = <<>>)
    BY <1>1, <1>2, <1>3, EmitFacts DEF Open
  <1>5. spoilt' = FALSE
    BY <1>1, <1>2 DEF Emit
  <1>6. CASE Open
    <2>1. /\ Len(toHost') = Len(toHost) + 1
          /\ \A i \in 1..Len(toHost) : toHost'[i] = toHost[i]
          /\ toHost'[Len(toHost) + 1] \in {Says(None, what), Junk}
      BY <1>1, <1>4, <1>6 DEF Received, Junk
    <2>. QED BY <1>2, <1>3, <1>4, <1>5, <1>6, <2>1
  <1>7. CASE ~Open
    BY <1>3, <1>4, <1>5, <1>7, EmptySeq
  <1>. QED BY <1>6, <1>7

LEMMA FinishFacts ==
  ASSUME TypeInv, todo # <<>>, todo' = Tail(todo)
  PROVE  /\ todo' \in Seq(Ops) /\ Head(todo) = todo[1] /\ todo[1] \in Ops
         /\ Len(todo) \in Nat \ {0} /\ Len(todo') = Len(todo) - 1
         /\ \A i \in 1..Len(todo') : todo'[i] = todo[i + 1]
  BY TailFacts DEF TypeInv, HostTypes

-----------------------------------------------------------------------------
(* Types.                                                                  *)
LEMMA TypesSuffice == TypeInv => TypeOK
  <1>. SUFFICES ASSUME TypeInv PROVE TypeOK
    OBVIOUS
  <1>1. Within(toSam, Requests) /\ Within(toHost, Lines)
    BY ElementOfSeq DEF TypeInv, SerialTypes, Within
  <1>2. \A i \in 1..Len(todo) : todo[i].pin \in Pins
    BY ElementOfSeq, OpFacts DEF TypeInv, HostTypes
  <1>. QED BY <1>1, <1>2 DEF TypeInv, DaemonTypes, HostTypes, TypeOK

LEMMA ResetTypes ==
  \A p \in Pins : /\ AtReset(p) \in States(p)
                  /\ Unreported(p) \in Reports(p) \cup {None}
                  /\ p \in Gpio => [dir |-> "In", val |-> "Low"] \in States(p)
                  /\ p \in Pwm => [val |-> 0, set |-> 0, ramp |-> -1] \in States(p)
  <1>1. \A p \in Gpio : /\ AtReset(p) \in States(p) /\ Unreported(p) = None
                        /\ [dir |-> "In", val |-> "Low"] \in States(p)
    BY GpioFacts DEF Levels
  <1>2. \A p \in Pwm : AtReset(p) \in States(p) /\ Unreported(p) = None
    <2>1. [val |-> 0, set |-> 0, ramp |-> -1] \in
            [val : 0..100, set : Speeds \cup {0}, ramp : Ramps \cup {-1}]
      OBVIOUS
    <2>. QED BY <2>1, PwmFacts
  <1>3. \A p \in Pwm : [val |-> 0, set |-> 0, ramp |-> -1] \in States(p)
    BY <1>2, PwmFacts
  <1>4. \A p \in Adc : AtReset(p) \in States(p) /\ Unreported(p) \in Reports(p)
    <2>1. /\ [thresh |-> 5] \in [thresh : {5} \cup {t \in Thresholds : t > 0}]
          /\ [thresh |-> 5, val |-> 0] \in
               [thresh : {5} \cup {t \in Thresholds : t > 0}, val : Readings \cup {0}]
      OBVIOUS
    <2>. QED BY <2>1, AdcFacts
  <1>. QED BY <1>1, <1>2, <1>3, <1>4, Kinds

LEMMA InitDaemonTypes == DaemonInit => DaemonTypes
  <1>. SUFFICES ASSUME DaemonInit PROVE DaemonTypes
    OBVIOUS
  <1>. QED BY ResetTypes DEF DaemonInit, DaemonTypes

LEMMA VisitTypes ==
  ASSUME DaemonTypes, NEW reached \in SUBSET Pins,
         NEW level \in LevelsFound,
         NEW analog \in AnalogFound,
         Visit(reached, level, analog), UNCHANGED <<enabled, cut>>, spoilt' \in BOOLEAN
  PROVE  DaemonTypes'
  <1>1. /\ DOMAIN st = Pins /\ \A p \in Pins : st[p] \in States(p)
        /\ \A p \in Pins : rep[p] \in Reports(p) \cup {None}
        /\ duty \in [Pwm -> 0..100]
    BY DEF DaemonTypes
  <1>2. \A p \in Pins : st'[p] \in States(p)
    BY <1>1, RefreshedFacts DEF Visit
  <1>3. \A p \in Pins : rep'[p] \in Reports(p) \cup {None}
    <2>. SUFFICES ASSUME NEW p \in Pins PROVE rep'[p] \in Reports(p) \cup {None}
      OBVIOUS
    <2>1. SaysValue(p, level, analog) => Value(p, level, analog) \in Reports(p)
      BY <1>1, ValueFacts DEF SaysValue, Visited
    <2>2. rep'[p] = IF p \in reached /\ SaysValue(p, level, analog)
                    THEN Value(p, level, analog) ELSE rep[p]
      BY DEF Visit
    <2>. QED BY <1>1, <2>1, <2>2
  <1>4. duty' \in [Pwm -> 0..100]
    <2>1. \A p \in Pwm : Driven(p, st[p]) \in 0..100
      BY <1>1, DrivenFacts, PwmFacts
    <2>. QED BY <1>1, <2>1 DEF Visit
  <1>5. shown' \in [Pins -> BOOLEAN]
    BY DEF DaemonTypes, Visit
  <1>. QED BY <1>2, <1>3, <1>4, <1>5 DEF DaemonTypes, Visit

LEMMA ProcessTypes == ASSUME TypeInv, ProcessMessage(Open) PROVE DaemonTypes' /\ SerialTypes'
  <1>. USE DEF TypeInv
  <1>1. ASSUME ProcessPing(Open) PROVE DaemonTypes' /\ SerialTypes'
    <2>1. Process("Ping") /\ Answer("Pong", Open) /\ UNCHANGED <<enabled, shown, st, rep, duty, cut>>
      BY <1>1 DEF ProcessPing
    <2>2. SerialTypes' /\ spoilt' = FALSE
      BY <2>1, ProcessFacts, AnswerFacts DEF SerialTypes
    <2>. QED BY <2>1, <2>2 DEF DaemonTypes
  <1>2. ASSUME ProcessReset(Open) PROVE DaemonTypes' /\ SerialTypes'
    <2>0. Process("Reset") /\ Answer("Reset", Open)
      BY <1>2 DEF ProcessReset
    <2>1. SerialTypes' /\ spoilt' = FALSE
      BY <2>0, ProcessFacts, AnswerFacts DEF SerialTypes
    <2>2. /\ enabled' = [p \in Pins |-> FALSE] /\ shown' = [p \in Pins |-> FALSE]
          /\ st' = [p \in Pins |-> AtReset(p)] /\ rep' = [p \in Pins |-> Unreported(p)]
          /\ duty' = [p \in Pwm |-> 0] /\ cut' = [p \in Pwm |-> FALSE]
      BY <1>2 DEF ProcessReset
    <2>3. 0 \in 0..100
      OBVIOUS
    <2>. QED BY <2>1, <2>2, <2>3, ResetTypes DEF DaemonTypes
  <1>3. ASSUME NEW p \in Pins, ProcessEnable(p) PROVE DaemonTypes' /\ SerialTypes'
    <2>1. SerialTypes'
      BY <1>3, ProcessFacts DEF ProcessEnable, ProcessRequest, SerialTypes
    <2>2. enabled' \in [Pins -> BOOLEAN]
      BY <1>3 DEF ProcessEnable, DaemonTypes
    <2>4. duty' \in [Pwm -> 0..100]
      <3>1. CASE p \in Pwm
        BY <1>3, <3>1 DEF ProcessEnable, DaemonTypes
      <3>. QED BY <1>3, <3>1 DEF ProcessEnable, DaemonTypes
    <2>5. cut' \in [Pwm -> BOOLEAN]
      <3>1. CASE p \in Pwm
        BY <1>3, <3>1 DEF ProcessEnable, DaemonTypes
      <3>. QED BY <1>3, <3>1 DEF ProcessEnable, DaemonTypes
    <2>3. DOMAIN st' = Pins /\ \A q \in Pins : st'[q] \in States(q)
      BY <1>3, ResetTypes DEF ProcessEnable, DaemonTypes
    <2>. QED BY <1>3, <2>1, <2>2, <2>3, <2>4, <2>5 DEF ProcessEnable, ProcessRequest, DaemonTypes
  <1>4. ASSUME NEW p \in Pins, ProcessDisable(p) PROVE DaemonTypes' /\ SerialTypes'
    <2>1. SerialTypes'
      BY <1>4, ProcessFacts DEF ProcessDisable, ProcessRequest, SerialTypes
    <2>2. DOMAIN st' = Pins /\ \A q \in Pins : st'[q] \in States(q)
      BY <1>4, ResetTypes DEF ProcessDisable, DaemonTypes
    <2>3. duty' \in [Pwm -> 0..100] /\ enabled' \in [Pins -> BOOLEAN]
      BY <1>4 DEF ProcessDisable, DaemonTypes
    <2>4. cut' \in [Pwm -> BOOLEAN]
      BY <1>4, Zenon DEF ProcessDisable, DaemonTypes
    <2>. QED BY <1>4, <2>1, <2>2, <2>3, <2>4 DEF ProcessDisable, ProcessRequest, DaemonTypes
  <1>5. ASSUME NEW p \in Pins, ProcessSet(p) PROVE DaemonTypes' /\ SerialTypes'
    <2>. DEFINE to  == Head(toSam).to
                pwm == [val |-> st[p].val, set |-> to.val, ramp |-> to.ramp]
    <2>1. SerialTypes'
      BY <1>5, ProcessFacts DEF ProcessSet, ProcessRequest, SerialTypes
    <2>2. to \in Settings(p)
      BY <1>5, ProcessFacts, RequestFacts DEF ProcessSet, ProcessRequest
    <2>3. st[p] \in States(p) /\ DOMAIN st = Pins /\ duty \in [Pwm -> 0..100]
      BY DEF DaemonTypes
    <2>4. ASSUME p \in Pwm PROVE pwm \in States(p)
      <3>1. to \in [val : Speeds, ramp : Ramps]
        BY <2>2, <2>4, PwmFacts
      <3>2. st[p] \in [val : 0..100, set : Speeds \cup {0}, ramp : Ramps \cup {-1}]
        BY <2>3, <2>4, PwmFacts
      <3>3. pwm \in [val : 0..100, set : Speeds \cup {0}, ramp : Ramps \cup {-1}]
        BY <3>1, <3>2
      <3>. QED BY <3>3, <2>4, PwmFacts
    <2>5. /\ st' = [st EXCEPT ![p] = CASE p \in Gpio -> to
                                       [] p \in Pwm -> PwmPin_Set(pwm)
                                       [] p \in Adc -> IF to.thresh > 0 THEN to ELSE @]
          /\ duty' = [q \in Pwm |-> IF q = p THEN Driven(p, pwm) ELSE duty[q]]
          /\ UNCHANGED <<enabled, shown, rep, cut, spoilt>>
      BY <1>5 DEF ProcessSet, ProcessRequest
    <2>. HIDE DEF pwm, to
    <2>6. st'[p] \in States(p)
      <3>1. CASE p \in Gpio
        BY <3>1, <2>2, <2>3, <2>5, GpioFacts, Kinds
      <3>2. CASE p \in Pwm
        BY <3>2, <2>3, <2>4, <2>5, PwmSetFacts, Kinds
      <3>3. CASE p \in Adc
        <4>0. to \in [thresh : Thresholds]
          BY <2>2, <3>3, AdcFacts
        <4>1. to.thresh > 0 => to \in States(p)
          <5>1. to.thresh > 0 => to \in [thresh : {5} \cup {t \in Thresholds : t > 0}]
            BY <4>0
          <5>. QED BY <5>1, <3>3, AdcFacts
        <4>2. st'[p] = IF to.thresh > 0 THEN to ELSE st[p]
          BY <2>3, <2>5, <3>3, Kinds
        <4>. QED BY <4>1, <4>2, <2>3
      <3>. QED BY <3>1, <3>2, <3>3, Kinds
    <2>7. duty' \in [Pwm -> 0..100]
      BY <2>3, <2>4, <2>5, DrivenFacts
    <2>. QED BY <2>1, <2>5, <2>6, <2>7 DEF DaemonTypes
  <1>. QED BY <1>1, <1>2, <1>3, <1>4, <1>5 DEF ProcessMessage

LEMMA LoopTypes == ASSUME TypeInv, Loop PROVE (DaemonTypes /\ SerialTypes /\ HostTypes)'
  <1>1. HostTypes'
    BY DEF Loop, TypeInv, HostTypes, host
  <1>2. CASE ReportStatus(Open)
    <2>1. PICK reached \in SUBSET Pins,
               level \in LevelsFound,
               analog \in AnalogFound :
                 Report(reached, level, analog)
      BY <1>2, ReportFacts
    <2>2. DaemonTypes'
      BY <2>1, VisitTypes DEF Report, TypeInv
    <2>3. SerialTypes'
      BY <2>1 DEF Report, TypeInv, SerialTypes
    <2>. QED BY <1>1, <2>2, <2>3
  <1>3. CASE ProcessMessage(Open)
    BY <1>1, <1>3, ProcessTypes
  <1>. QED BY <1>2, <1>3 DEF Loop

-----------------------------------------------------------------------------
(* What a motor asks of its pins, operation by operation.                  *)
LEMMA Join ==
  ASSUME NEW S, NEW s \in Seq(S), NEW t \in Seq(S), NEW u \in Seq(S),
         Len(u) = Len(s) + Len(t),
         \A i \in 1..Len(s) : u[i] = s[i],
         \A i \in 1..Len(t) : u[Len(s) + i] = t[i]
  PROVE  s \o t = u
  <1>1. /\ s \o t \in Seq(S) /\ Len(s \o t) = Len(u)
        /\ \A i \in 1..Len(u) : (s \o t)[i] = IF i <= Len(s) THEN s[i] ELSE t[i - Len(s)]
    BY ConcatProperties
  <1>2. Len(s) \in Nat /\ Len(t) \in Nat
    BY LenProperties
  <1>3. ASSUME NEW i \in 1..Len(u) PROVE (s \o t)[i] = u[i]
    <2>1. CASE i <= Len(s)
      BY <2>1, <1>1, <1>2
    <2>2. CASE ~(i <= Len(s))
      <3>1. i - Len(s) \in 1..Len(t) /\ Len(s) + (i - Len(s)) = i
        BY <2>2, <1>2
      <3>2. u[i] = t[i - Len(s)]
        BY <3>1
      <3>. QED BY <3>2, <2>2, <1>1
    <2>. QED BY <2>1, <2>2
  <1>4. \A i \in 1..Len(s \o t) : (s \o t)[i] = u[i]
    BY <1>3, <1>1
  <1>. QED BY <1>1, <1>4, SeqEqual

LEMMA Join31 ==
  ASSUME NEW S, NEW a \in S, NEW b \in S, NEW c \in S, NEW d \in S
  PROVE  <<a, b, c>> \o <<d>> = <<a, b, c, d>>
  <1>. DEFINE s == <<a, b, c>>
              t == <<d>>
              u == <<a, b, c, d>>
  <1>1. /\ s \in Seq(S) /\ t \in Seq(S) /\ u \in Seq(S)
        /\ Len(s) = 3 /\ Len(t) = 1 /\ Len(u) = 4
        /\ \A i \in 1..3 : u[i] = s[i]
        /\ \A i \in 1..1 : u[3 + i] = t[i]
    OBVIOUS
  <1>. HIDE DEF s, t, u
  <1>2. /\ Len(u) = Len(s) + Len(t)
        /\ \A i \in 1..Len(s) : u[i] = s[i]
        /\ \A i \in 1..Len(t) : u[Len(s) + i] = t[i]
    BY <1>1
  <1>3. s \o t = u
    BY <1>1, <1>2, Join
  <1>. QED BY <1>3 DEF s, t, u

LEMMA Join32 ==
  ASSUME NEW S, NEW a \in S, NEW b \in S, NEW c \in S, NEW d \in S, NEW e \in S
  PROVE  <<a, b, c>> \o <<d, e>> = <<a, b, c, d, e>>
  <1>. DEFINE s == <<a, b, c>>
              t == <<d, e>>
              u == <<a, b, c, d, e>>
  <1>1. /\ s \in Seq(S) /\ t \in Seq(S) /\ u \in Seq(S)
        /\ Len(s) = 3 /\ Len(t) = 2 /\ Len(u) = 5
        /\ \A i \in 1..3 : u[i] = s[i]
        /\ \A i \in 1..2 : u[3 + i] = t[i]
    OBVIOUS
  <1>. HIDE DEF s, t, u
  <1>2. /\ Len(u) = Len(s) + Len(t)
        /\ \A i \in 1..Len(s) : u[i] = s[i]
        /\ \A i \in 1..Len(t) : u[Len(s) + i] = t[i]
    BY <1>1
  <1>3. s \o t = u
    BY <1>1, <1>2, Join
  <1>. QED BY <1>3 DEF s, t, u

LEMMA Join43 ==
  ASSUME NEW S, NEW a \in S, NEW b \in S, NEW c \in S, NEW d \in S, NEW e \in S, NEW f \in S, NEW g \in S
  PROVE  <<a, b, c, d>> \o <<e, f, g>> = <<a, b, c, d, e, f, g>>
  <1>. DEFINE s == <<a, b, c, d>>
              t == <<e, f, g>>
              u == <<a, b, c, d, e, f, g>>
  <1>1. /\ s \in Seq(S) /\ t \in Seq(S) /\ u \in Seq(S)
        /\ Len(s) = 4 /\ Len(t) = 3 /\ Len(u) = 7
        /\ \A i \in 1..4 : u[i] = s[i]
        /\ \A i \in 1..3 : u[4 + i] = t[i]
    OBVIOUS
  <1>. HIDE DEF s, t, u
  <1>2. /\ Len(u) = Len(s) + Len(t)
        /\ \A i \in 1..Len(s) : u[i] = s[i]
        /\ \A i \in 1..Len(t) : u[Len(s) + i] = t[i]
    BY <1>1
  <1>3. s \o t = u
    BY <1>1, <1>2, Join
  <1>. QED BY <1>3 DEF s, t, u

Dir       == New(DirPin, [dir |-> "Out", val |-> "Low"])
Back      == New(PinB, [dir |-> "In", val |-> "Hi"])
Thrust    == New(Pulse, [val |-> 0, ramp |-> -1])
SetRamp(r)   == Set(Pulse, "ramp", r)
SetDir(v)    == Set(DirPin, "val", Forward(v))
SetBack(v)   == Set(PinB, "val", Backward(v))
SetThrust(v) == Set(Pulse, "val", Magnitude(v))

LEMMA VelocityFacts ==
  ASSUME NEW v \in Velocities
  PROVE  v \in Int /\ Magnitude(v) \in Speeds
  <1>1. CASE v \in Speeds
    BY <1>1, Ranges DEF Magnitude
  <1>2. CASE v \in {-s : s \in Speeds}
    <2>1. PICK s \in Speeds : v = -s
      BY <1>2
    <2>2. s \in 0..100
      BY Ranges
    <2>3. v \in Int /\ Magnitude(v) = s
      BY <2>1, <2>2 DEF Magnitude
    <2>. QED BY <2>3
  <1>. QED BY <1>1, <1>2 DEF Velocities

LEMMA MotorPins ==
  /\ DirPin \in Gpio /\ DirPin \in Pins /\ DirPin \notin Adc /\ DirPin \notin Pwm
  /\ PinB \in Gpio /\ PinB \in Pins /\ PinB \notin Adc /\ PinB \notin Pwm
  /\ Pulse \in Pwm /\ Pulse \in Pins /\ Pulse \notin Adc /\ Pulse \notin Gpio
  /\ DirPin # PinB /\ DirPin # Pulse /\ PinB # Pulse
  BY MotorAssumption, PinAssumption DEF Pins

LEMMA MotorOps ==
  /\ Dir \in Ops /\ Back \in Ops /\ Thrust \in Ops
  /\ \A r \in Ramps : SetRamp(r) \in Ops
  /\ \A v \in Velocities : SetDir(v) \in Ops /\ SetBack(v) \in Ops /\ SetThrust(v) \in Ops
  /\ Delete(DirPin) \in Ops /\ Delete(PinB) \in Ops /\ Delete(Pulse) \in Ops
  <1>1. /\ [dir |-> "Out", val |-> "Low"] \in Settings(DirPin)
        /\ [dir |-> "In", val |-> "Hi"] \in Settings(PinB)
    BY MotorPins, GpioFacts DEF Levels
  <1>2. [val |-> 0, ramp |-> -1] \in Settings(Pulse)
    BY MotorPins, PwmFacts, MotorAssumption
  <1>3. \A v : Forward(v) \in Levels /\ Backward(v) \in Levels
    BY DEF Forward, Backward, Levels
  <1>4. \A v \in Velocities : SetDir(v) \in Ops /\ SetBack(v) \in Ops /\ SetThrust(v) \in Ops
    BY <1>3, MotorPins, OpTypes, VelocityFacts DEF SetDir, SetBack, SetThrust
  <1>. QED BY <1>1, <1>2, <1>4, MotorPins, OpTypes DEF Dir, Back, Thrust, SetRamp

LEMMA SetVelocityIs ==
  ASSUME NEW v \in Velocities
  PROVE  /\ kind = "lite" /\ v = 0 => SetVelocity(v) = <<SetThrust(v)>>
         /\ kind = "lite" /\ v # 0 => SetVelocity(v) = <<SetDir(v), SetThrust(v)>>
         /\ kind # "lite" => SetVelocity(v) = <<SetDir(v), SetBack(v), SetThrust(v)>>
         /\ SetVelocity(v) \in Seq(Ops)
  <1>1. CASE kind = "lite" /\ v = 0
    <2>1. SetVelocity(v) = <<SetThrust(v)>>
      BY <1>1 DEF SetVelocity, SetThrust
    <2>2. SetVelocity(v) \in Seq(Ops)
      BY <2>1, MotorOps
    <2>. QED BY <1>1, <2>1, <2>2
  <1>2. CASE kind = "lite" /\ v # 0
    <2>1. SetVelocity(v) = <<SetDir(v), SetThrust(v)>>
      BY <1>2 DEF SetVelocity, SetThrust, SetDir
    <2>2. SetVelocity(v) \in Seq(Ops)
      BY <2>1, MotorOps
    <2>. QED BY <1>2, <2>1, <2>2
  <1>3. CASE kind # "lite"
    <2>1. SetVelocity(v) = <<SetDir(v), SetBack(v), SetThrust(v)>>
      BY <1>3 DEF SetVelocity, SetThrust, SetDir, SetBack
    <2>2. SetVelocity(v) \in Seq(Ops)
      BY <2>1, MotorOps
    <2>. QED BY <1>3, <2>1, <2>2
  <1>. QED BY <1>1, <1>2, <1>3

LEMMA ConstructionIs ==
  ASSUME NEW v \in Velocities, NEW r \in Ramps
  PROVE  /\ kind = "lite" /\ v = 0 =>
              Construction(r, v) = <<Dir, Thrust, SetRamp(r), SetThrust(v)>>
         /\ kind = "lite" /\ v # 0 =>
              Construction(r, v) = <<Dir, Thrust, SetRamp(r), SetDir(v), SetThrust(v)>>
         /\ kind # "lite" =>
              Construction(r, v) =
                <<Dir, Back, Thrust, SetRamp(r), SetDir(v), SetBack(v), SetThrust(v)>>
         /\ Construction(r, v) \in Seq(Ops)
  <1>0. /\ kind = "lite" => Stopped(r) = <<Dir, Thrust, SetRamp(r)>>
        /\ kind # "lite" => Stopped(r) = <<Dir, Back, Thrust, SetRamp(r)>>
    BY DEF Stopped, Dir, Back, Thrust, SetRamp
  <1>1. CASE kind = "lite" /\ v = 0
    <2>1. Construction(r, v) = <<Dir, Thrust, SetRamp(r), SetThrust(v)>>
      <3>1. Construction(r, v) = <<Dir, Thrust, SetRamp(r)>> \o <<SetThrust(v)>>
        BY <1>0, <1>1, SetVelocityIs DEF Construction
      <3>. QED BY <3>1, MotorOps, Join31
    <2>2. Construction(r, v) \in Seq(Ops)
      BY <2>1, MotorOps
    <2>. QED BY <1>1, <2>1, <2>2
  <1>2. CASE kind = "lite" /\ v # 0
    <2>1. Construction(r, v) = <<Dir, Thrust, SetRamp(r), SetDir(v), SetThrust(v)>>
      <3>1. Construction(r, v) = <<Dir, Thrust, SetRamp(r)>> \o <<SetDir(v), SetThrust(v)>>
        BY <1>0, <1>2, SetVelocityIs DEF Construction
      <3>. QED BY <3>1, MotorOps, Join32
    <2>2. Construction(r, v) \in Seq(Ops)
      BY <2>1, MotorOps
    <2>. QED BY <1>2, <2>1, <2>2
  <1>3. CASE kind # "lite"
    <2>1. Construction(r, v) =
            <<Dir, Back, Thrust, SetRamp(r), SetDir(v), SetBack(v), SetThrust(v)>>
      <3>1. Construction(r, v) = <<Dir, Back, Thrust, SetRamp(r)>> \o <<SetDir(v), SetBack(v), SetThrust(v)>>
        BY <1>0, <1>3, SetVelocityIs DEF Construction
      <3>. QED BY <3>1, MotorOps, Join43
    <2>2. Construction(r, v) \in Seq(Ops)
      BY <2>1, MotorOps
    <2>. QED BY <1>3, <2>1, <2>2
  <1>. QED BY <1>1, <1>2, <1>3

LEMMA DestructionIs ==
  /\ kind = "lite" => Destruction = <<Delete(DirPin), Delete(Pulse)>>
  /\ kind # "lite" => Destruction = <<Delete(DirPin), Delete(PinB), Delete(Pulse)>>
  /\ Destruction \in Seq(Ops)
  BY MotorOps DEF Destruction

-----------------------------------------------------------------------------
(* A call leaves everything but what is to be done.                        *)
Called ==
  /\ main = "idle" /\ todo = <<>> /\ work > 0 /\ work' = work - 1
  /\ UNCHANGED <<daemon, toSam, toHost, main, tries, entry, map, staging, cache, told>>
  /\ todo' \in Seq(Ops) /\ velocity' \in Velocities \cup {None}

LEMMA CallFacts == ASSUME TypeInv, MotorCall \/ PinCall PROVE Called
  <1>0. ASSUME NEW ops \in Seq(Ops), Call(ops), velocity' \in Velocities \cup {None}
        PROVE  Called
    BY <1>0 DEF Call, Called
  <1>1. CASE NewMotor
    <2>1. PICK r \in Ramps, v \in Velocities : Call(Construction(r, v)) /\ velocity' = v
      BY <1>1 DEF NewMotor
    <2>. QED BY <1>0, <2>1, ConstructionIs
  <1>2. CASE DriveMotor
    <2>1. PICK v \in Velocities : Call(SetVelocity(v)) /\ velocity' = v
      BY <1>2 DEF DriveMotor
    <2>. QED BY <1>0, <2>1, SetVelocityIs
  <1>3. CASE RampMotor
    <2>1. PICK r \in Ramps : Call(<<SetRamp(r)>>) /\ velocity' = velocity
      BY <1>3 DEF RampMotor, SetRamp
    <2>2. <<SetRamp(r)>> \in Seq(Ops)
      BY MotorOps
    <2>. QED BY <1>0, <2>1, <2>2 DEF TypeInv
  <1>4. CASE DeleteMotor
    BY <1>0, <1>4, DestructionIs DEF DeleteMotor
  <1>5. CASE PinCall
    <2>1. PICK p \in Direct : CallPin(p)
      BY <1>5 DEF PinCall
    <2>2. p \in Pins
      BY MotorAssumption
    <2>3. velocity' = velocity
      BY <1>5 DEF PinCall
    <2>4. ASSUME NEW s \in Settings(p), Call(<<New(p, s)>>) PROVE Called
      <3>1. <<New(p, s)>> \in Seq(Ops)
        BY <2>2, OpTypes
      <3>. QED BY <1>0, <2>3, <2>4, <3>1 DEF TypeInv
    <2>5. ASSUME Call(<<Delete(p)>>) PROVE Called
      <3>1. <<Delete(p)>> \in Seq(Ops)
        BY <2>2, OpTypes
      <3>. QED BY <1>0, <2>3, <2>5, <3>1 DEF TypeInv
    <2>6. ASSUME NEW s \in Settings(p), NEW k \in DOMAIN s, Call(<<Set(p, k, s[k])>>) PROVE Called
      <3>1. Set(p, k, s[k]) \in Ops
        <4>1. CASE p \in Gpio
          <5>1. s \in [dir : {"In", "Out"}, val : Levels]
            BY <2>6, <4>1, GpioFacts
          <5>2. (k = "dir" /\ s[k] \in {"In", "Out"}) \/ (k = "val" /\ s[k] \in Levels)
            BY <2>6, <5>1
          <5>. QED BY <4>1, <5>2, OpTypes
        <4>2. CASE p \in Pwm
          <5>1. s \in [val : Speeds, ramp : Ramps]
            BY <2>6, <4>2, PwmFacts
          <5>2. (k = "val" /\ s[k] \in Speeds) \/ (k = "ramp" /\ s[k] \in Ramps)
            BY <2>6, <5>1
          <5>. QED BY <4>2, <5>2, OpTypes
        <4>3. CASE p \in Adc
          <5>1. s \in [thresh : Thresholds]
            BY <2>6, <4>3, AdcFacts
          <5>2. k = "thresh" /\ s[k] \in Thresholds
            BY <2>6, <5>1
          <5>. QED BY <4>3, <5>2, OpTypes
        <4>. QED BY <2>2, <4>1, <4>2, <4>3, Kinds
      <3>2. <<Set(p, k, s[k])>> \in Seq(Ops)
        BY <3>1
      <3>. QED BY <1>0, <2>3, <2>6, <3>2 DEF TypeInv
    <2>. QED BY <2>1, <2>4, <2>5, <2>6 DEF CallPin
  <1>. QED BY <1>1, <1>2, <1>3, <1>4, <1>5 DEF MotorCall

(* The operation that the main thread is at.                               *)
LEMMA PinFacts ==
  ASSUME TypeInv, todo # <<>>
  PROVE  /\ Head(todo) = todo[1] /\ todo[1] \in Ops /\ Len(todo) \in Nat \ {0}
         /\ 1 \in 1..Len(todo) /\ Pin = todo[1].pin /\ Pin \in Pins
         /\ todo[1].do = "new" => todo[1].to \in Settings(Pin)
  BY TailFacts, OpFacts DEF TypeInv, HostTypes, Pin

(* A pin is set when it has an object; what is staged remains what may be. *)
LEMMA StagedFacts ==
  ASSUME TypeInv, Plan, main = "idle", Op("set"),
         staging' = [staging EXCEPT ![Pin][Head(todo).part] = Head(todo).to]
  PROVE  /\ map[Pin] = "pin" /\ staging[Pin] \in Settings(Pin)
         /\ DOMAIN staging' = Pins
         /\ staging'[Pin] \in Settings(Pin)
         /\ staging'[Pin] = [staging[Pin] EXCEPT ![todo[1].part] = todo[1].to]
         /\ todo[1].part \in DOMAIN staging[Pin]
         /\ \A p \in Pins : p # Pin => staging'[p] = staging[p]
  <1>1. /\ Head(todo) = todo[1] /\ todo[1] \in Ops /\ 1 \in 1..Len(todo) /\ todo[1].do = "set"
        /\ Pin = todo[1].pin /\ Pin \in Pins /\ DOMAIN staging = Pins
    BY PinFacts DEF Op, TypeInv, HostTypes
  <1>2. map[Pin] = "pin"
    BY <1>1 DEF Plan, InUse, Removing
  <1>3. staging[Pin] \in Settings(Pin)
    BY <1>1, <1>2 DEF Plan, Object
  <1>4. /\ staging'[Pin] = [staging[Pin] EXCEPT ![todo[1].part] = todo[1].to]
        /\ DOMAIN staging' = Pins /\ \A p \in Pins : p # Pin => staging'[p] = staging[p]
    BY <1>1
  <1>5. staging'[Pin] \in Settings(Pin) /\ todo[1].part \in DOMAIN staging[Pin]
    <2>1. CASE Pin \in Gpio
      <3>1. \/ todo[1].part = "dir" /\ todo[1].to \in {"In", "Out"}
            \/ todo[1].part = "val" /\ todo[1].to \in Levels
        BY <1>1, <2>1, OpFacts, Kinds
      <3>2. staging[Pin] \in [dir : {"In", "Out"}, val : Levels]
        BY <1>3, <2>1, GpioFacts
      <3>3. /\ staging'[Pin] \in [dir : {"In", "Out"}, val : Levels]
            /\ todo[1].part \in DOMAIN staging[Pin]
        BY <1>4, <3>1, <3>2
      <3>. QED BY <2>1, <3>3, GpioFacts
    <2>2. CASE Pin \in Pwm
      <3>1. \/ todo[1].part = "val" /\ todo[1].to \in Speeds
            \/ todo[1].part = "ramp" /\ todo[1].to \in Ramps
        BY <1>1, <2>2, OpFacts, Kinds
      <3>2. staging[Pin] \in [val : Speeds, ramp : Ramps]
        BY <1>3, <2>2, PwmFacts
      <3>3. /\ staging'[Pin] \in [val : Speeds, ramp : Ramps]
            /\ todo[1].part \in DOMAIN staging[Pin]
        BY <1>4, <3>1, <3>2
      <3>. QED BY <2>2, <3>3, PwmFacts
    <2>3. CASE Pin \in Adc
      <3>1. todo[1].part = "thresh" /\ todo[1].to \in Thresholds
        BY <1>1, <2>3, OpFacts, Kinds
      <3>2. staging[Pin] \in [thresh : Thresholds]
        BY <1>3, <2>3, AdcFacts
      <3>3. /\ staging'[Pin] \in [thresh : Thresholds]
            /\ todo[1].part \in DOMAIN staging[Pin]
        BY <1>4, <3>1, <3>2
      <3>. QED BY <2>3, <3>3, AdcFacts
    <2>. QED BY <1>1, <2>1, <2>2, <2>3, Kinds
  <1>. QED BY <1>1, <1>2, <1>3, <1>4, <1>5

-----------------------------------------------------------------------------
(* Types, action by action.                                                *)
LEMMA EndTypes == ASSUME TypeInv, End PROVE (DaemonTypes /\ SerialTypes /\ HostTypes)'
  <1>1. UNCHANGED <<enabled, shown, st, rep, duty, cut, spoilt, toSam, work>>
    BY DEF End, daemon
  <1>2. /\ toHost' = <<>> /\ todo' = <<>> /\ main' = "down" /\ tries' = 0 /\ entry' = None
        /\ map' = [p \in Pins |-> "none"] /\ told' = [p \in Pins |-> FALSE]
        /\ staging' = [p \in Pins |-> None] /\ cache' = [p \in Pins |-> None]
    BY DEF End, NoObjects
  <1>3. DaemonTypes'
    BY <1>1 DEF TypeInv, DaemonTypes
  <1>4. SerialTypes'
    <2>1. <<>> \in Seq(Lines) /\ Len(<<>>) = 0 /\ MaxLines \in Nat
      BY PinAssumption
    <2>. QED BY <1>1, <1>2, <2>1 DEF TypeInv, SerialTypes
  <1>5. tries' \in 0..Tries + 1
    BY <1>2, HostAssumption
  <1>6. HostTypes'
    BY <1>1, <1>2, <1>5 DEF TypeInv, HostTypes
  <1>. QED BY <1>3, <1>4, <1>6

LEMMA ConnectTypes ==
  ASSUME TypeInv, Connect \/ Quit \/ Start PROVE (DaemonTypes /\ SerialTypes /\ HostTypes)'
  <1>. USE DEF TypeInv, HostTypes
  <1>0. MaxLines \in Nat /\ Tries \in Nat /\ MaxWork \in Nat
    BY PinAssumption, HostAssumption
  <1>1. CASE Start
    <2>1. DaemonTypes'
      BY <1>1 DEF Start, DaemonTypes
    <2>2. SerialTypes' /\ HostTypes'
      BY <1>0, <1>1 DEF Start, SerialTypes, Handshake
    <2>. QED BY <2>1, <2>2
  <1>2. CASE Quit
    BY <1>2, EndTypes DEF Quit
  <1>3. CASE Ping
    <2>1. DaemonTypes'
      BY <1>3 DEF Ping, DaemonTypes, daemon
    <2>2. SerialTypes'
      BY <1>3, RequestTypes, SendFacts DEF Ping, SerialTypes
    <2>3. HostTypes'
      BY <1>0, <1>3 DEF Ping, Handshake
    <2>. QED BY <2>1, <2>2, <2>3
  <1>4. CASE ReadPong
    <2>1. DaemonTypes'
      BY <1>4 DEF ReadPong, DaemonTypes, daemon
    <2>2. SerialTypes'
      BY <1>4, ReadFacts DEF ReadPong, SerialTypes
    <2>3. HostTypes'
      BY <1>0, <1>4 DEF ReadPong, Goto, Handshake
    <2>. QED BY <2>1, <2>2, <2>3
  <1>5. CASE GiveUp
    BY <1>5, EndTypes DEF GiveUp
  <1>6. CASE SendReset
    <2>1. DaemonTypes'
      BY <1>6 DEF SendReset, DaemonTypes, daemon
    <2>2. SerialTypes'
      BY <1>6, RequestTypes, SendFacts DEF SendReset, SerialTypes
    <2>3. HostTypes'
      BY <1>0, <1>6 DEF SendReset, Goto, Handshake
    <2>. QED BY <2>1, <2>2, <2>3
  <1>7. CASE ReadReset
    <2>1. DaemonTypes'
      BY <1>7 DEF ReadReset, DaemonTypes, daemon
    <2>2. SerialTypes'
      BY <1>7, ReadFacts DEF ReadReset, SerialTypes
    <2>3. HostTypes'
      BY <1>0, <1>7 DEF ReadReset, Session
    <2>. QED BY <2>1, <2>2, <2>3
  <1>8. CASE NotReset
    BY <1>8, EndTypes DEF NotReset
  <1>. QED BY <1>1, <1>2, <1>3, <1>4, <1>5, <1>6, <1>7, <1>8 DEF Connect

LEMMA ReaderTypes ==
  ASSUME TypeInv, Reader PROVE (DaemonTypes /\ SerialTypes /\ HostTypes)'
  <1>. USE DEF TypeInv, HostTypes
  <1>1. CASE RouteAnswer
    <2>1. DaemonTypes'
      BY <1>1 DEF RouteAnswer, DaemonTypes, daemon
    <2>2. SerialTypes'
      BY <1>1, ReadFacts DEF RouteAnswer, SerialTypes
    <2>3. HostTypes'
      BY <1>1 DEF RouteAnswer
    <2>. QED BY <2>1, <2>2, <2>3
  <1>2. CASE RouteValue
    <2>1. DaemonTypes'
      BY <1>2 DEF RouteValue, DaemonTypes, daemon
    <2>2. SerialTypes'
      BY <1>2, ReadFacts DEF RouteValue, SerialTypes
    <2>3. HostTypes'
      BY <1>2 DEF RouteValue
    <2>. QED BY <2>1, <2>2, <2>3
  <1>3. CASE ReaderDies
    BY <1>3, EndTypes DEF ReaderDies
  <1>. QED BY <1>1, <1>2, <1>3 DEF Reader

LEMMA OperateTypes ==
  ASSUME TypeInv, Control, Plan, Operate PROVE (DaemonTypes /\ SerialTypes /\ HostTypes)'
  <1>. USE DEF TypeInv, HostTypes
  <1>1. CASE GetSend
    <2>1. DaemonTypes'
      BY <1>1 DEF GetSend, DaemonTypes, daemon
    <2>2. Request(Pin, "enable") \in Requests
      BY <1>1, PinFacts, RequestTypes DEF GetSend, Op
    <2>3. SerialTypes'
      BY <1>1, <2>2, SendFacts DEF GetSend, SerialTypes
    <2>4. HostTypes'
      BY <1>1 DEF GetSend, Goto, Session
    <2>. QED BY <2>1, <2>3, <2>4
  <1>2. CASE GetTwice
    BY <1>2, EndTypes DEF GetTwice
  <1>3. CASE GetEntry \/ ReturnEntry
    <2>1. PICK to \in {"get", "return"} : MakeEntry(main, to)
      BY <1>3 DEF GetEntry, ReturnEntry, MakeEntry
    <2>2. DaemonTypes' /\ SerialTypes'
      BY <2>1 DEF MakeEntry, DaemonTypes, SerialTypes, daemon
    <2>3. [actual |-> FALSE, updated |-> FALSE] \in [actual : BOOLEAN, updated : BOOLEAN]
      OBVIOUS
    <2>. QED BY <2>1, <2>2, <2>3 DEF MakeEntry, Goto, Session
  <1>4. CASE GetAnswered \/ ReturnAnswered
    BY <1>4 DEF GetAnswered, ReturnAnswered, Answered, Goto, Session, DaemonTypes, SerialTypes,
                daemon
  <1>5. CASE GetMap \/ Derive
    <2>1. DaemonTypes' /\ SerialTypes'
      BY <1>5 DEF GetMap, Derive, Remap, DaemonTypes, SerialTypes, daemon
    <2>. QED BY <1>5, <2>1 DEF GetMap, Derive, Remap, Goto, Session
  <1>6. CASE Construct
    <2>1. DaemonTypes'
      BY <1>6 DEF Construct, DaemonTypes, daemon
    <2>2. Op("new") /\ Finished /\ UNCHANGED <<entry, map, work>>
          /\ told' = [told EXCEPT ![Pin] = FALSE]
      BY <1>6 DEF Construct, Control, Adding
    <2>3. PICK s \in {Head(todo).to} \cup Uninitialized(Pin) :
            /\ Send(SetRequest(Pin, s))
            /\ staging' = [staging EXCEPT ![Pin] = s]
            /\ cache' = [cache EXCEPT ![Pin] = Invented(s)]
      BY <1>6 DEF Construct
    <2>4. Pin \in Pins /\ s \in Settings(Pin) /\ todo # <<>> /\ todo' = Tail(todo)
      BY <2>2, PinFacts DEF Op, Uninitialized, Finished
    <2>5. SerialTypes'
      <3>1. SetRequest(Pin, s) \in Requests
        BY <2>4, RequestTypes
      <3>2. toSam' \in Seq(Requests) /\ Len(toSam') <= MaxLines
        BY <2>3, <3>1, SendFacts
      <3>. QED BY <1>6, <3>2 DEF Construct, SerialTypes
    <2>6. todo' \in Seq(Ops)
      BY <2>4, FinishFacts
    <2>7. main' = "idle" /\ tries' = tries
      BY <2>2 DEF Finished, Goto
    <2>. QED BY <2>1, <2>2, <2>3, <2>4, <2>5, <2>6, <2>7 DEF Session
  <1>7. CASE SetState
    <2>1. DaemonTypes'
      BY <1>7 DEF SetState, DaemonTypes, daemon
    <2>2. /\ main = "idle" /\ Op("set") /\ Finished
          /\ staging' = [staging EXCEPT ![Pin][Head(todo).part] = Head(todo).to]
          /\ Send(SetRequest(Pin, staging'[Pin]))
          /\ UNCHANGED <<toHost, entry, map, cache, told, work>>
      BY <1>7 DEF SetState
    <2>3. /\ DOMAIN staging' = Pins /\ staging'[Pin] \in Settings(Pin)
          /\ \A p \in Pins : p # Pin => staging'[p] = staging[p]
      BY <2>2, StagedFacts
    <2>4. Pin \in Pins /\ todo # <<>> /\ todo' = Tail(todo)
      BY <2>2, PinFacts DEF Op, Finished
    <2>5. SerialTypes'
      <3>1. SetRequest(Pin, staging'[Pin]) \in Requests
        BY <2>3, <2>4, RequestTypes
      <3>2. toSam' \in Seq(Requests) /\ Len(toSam') <= MaxLines
        BY <2>2, <3>1, SendFacts
      <3>. QED BY <2>2, <3>2 DEF SerialTypes
    <2>6. todo' \in Seq(Ops)
      BY <2>4, FinishFacts
    <2>7. main' = "idle" /\ tries' = tries
      BY <2>2 DEF Finished, Goto
    <2>. QED BY <2>1, <2>2, <2>3, <2>4, <2>5, <2>6, <2>7 DEF Session
  <1>8. CASE ReturnSend
    <2>1. DaemonTypes'
      BY <1>8 DEF ReturnSend, DaemonTypes, daemon
    <2>2. Request(Pin, "disable") \in Requests
      BY <1>8, PinFacts, RequestTypes DEF ReturnSend, Op
    <2>3. SerialTypes'
      BY <1>8, <2>2, SendFacts DEF ReturnSend, SerialTypes
    <2>4. HostTypes'
      BY <1>8 DEF ReturnSend, Goto, Session
    <2>. QED BY <2>1, <2>3, <2>4
  <1>9. CASE ReturnMap
    <2>1. DaemonTypes' /\ SerialTypes'
      BY <1>9 DEF ReturnMap, DaemonTypes, SerialTypes, daemon
    <2>2. todo # <<>> /\ todo' = Tail(todo) /\ main' = "idle" /\ tries' = tries
      BY <1>9 DEF ReturnMap, Finished, Goto, Control, Removing, Op
    <2>3. todo' \in Seq(Ops)
      BY <2>2, FinishFacts
    <2>. QED BY <1>9, <2>1, <2>2, <2>3 DEF ReturnMap, Session
  <1>. QED BY <1>1, <1>2, <1>3, <1>4, <1>5, <1>6, <1>7, <1>8, <1>9 DEF Operate

LEMMA NextTypes == ASSUME TypeInv, Control, Plan, MotorsNext PROVE TypeInv'
  <1>1. CASE MotorCall \/ PinCall
    <2>1. Called
      BY <1>1, CallFacts
    <2>2. work' \in 0..MaxWork
      BY <2>1, HostAssumption DEF Called, TypeInv, HostTypes
    <2>3. DaemonTypes' /\ SerialTypes'
      BY <2>1 DEF Called, TypeInv, DaemonTypes, SerialTypes, daemon
    <2>4. HostTypes'
      BY <2>1, <2>2 DEF Called, TypeInv, HostTypes
    <2>. QED BY <2>1, <2>3, <2>4 DEF Called, TypeInv
  <1>2. CASE Serve /\ Kept
    <2>1. (DaemonTypes /\ SerialTypes /\ HostTypes)'
      BY <1>2, LoopTypes, ConnectTypes, OperateTypes, ReaderTypes DEF Serve
    <2>2. velocity' \in Velocities \cup {None}
      BY <1>2 DEF Kept, TypeInv
    <2>. QED BY <2>1, <2>2 DEF TypeInv
  <1>. QED BY <1>1, <1>2 DEF MotorsNext

-----------------------------------------------------------------------------
(* Where the main thread is, action by action.                             *)
LEMMA EntryFacts == \A a, u \in BOOLEAN : [actual |-> a, updated |-> u] # None
  <1>. SUFFICES ASSUME NEW a \in BOOLEAN, NEW u \in BOOLEAN
                PROVE  [actual |-> a, updated |-> u] # None
    OBVIOUS
  <1>1. [actual |-> a, updated |-> u] \in [actual : BOOLEAN, updated : BOOLEAN]
    OBVIOUS
  <1>. QED BY <1>1, HostAssumption

LEMMA EndControl == ASSUME End PROVE Control'
  <1>1. /\ toHost' = <<>> /\ todo' = <<>> /\ main' = "down" /\ entry' = None
        /\ map' = [p \in Pins |-> "none"] /\ told' = [p \in Pins |-> FALSE]
        /\ NoObjects(staging)'
    BY DEF End, NoObjects
  <1>. QED BY <1>1 DEF Control, Session, Adding, Removing

LEMMA LoopControl == ASSUME TypeInv, Control, Loop PROVE Control'
  <1>1. UNCHANGED <<main, todo, entry, map, staging, told>>
    BY DEF Loop, host
  <1>2. main = "down" => toHost' = <<>>
    <2>. SUFFICES ASSUME main = "down" PROVE toHost' = <<>>
      OBVIOUS
    <2>1. toHost = <<>> /\ ~Open
      BY DEF Control, Open
    <2>2. CASE ReportStatus(Open)
      BY <2>1, <2>2, ReportFacts DEF Report
    <2>3. CASE ProcessPing(Open) \/ ProcessReset(Open)
      BY <2>1, <2>3, AnswerFacts DEF ProcessPing, ProcessReset
    <2>4. ASSUME NEW p \in Pins, ProcessEnable(p) \/ ProcessDisable(p) \/ ProcessSet(p)
          PROVE  toHost' = <<>>
      BY <2>1, <2>4 DEF ProcessEnable, ProcessDisable, ProcessSet, ProcessRequest
    <2>. QED BY <2>2, <2>3, <2>4 DEF Loop, ProcessMessage
  <1>. QED BY <1>1, <1>2 DEF Control, NoObjects, Op, Pin

LEMMA NextControl == ASSUME TypeInv, Control, Plan, MotorsNext PROVE Control'
  <1>. USE DEF Control, Session, Adding, Removing, Goto
  <1>1. CASE MotorCall \/ PinCall
    <2>1. Called
      BY <1>1, CallFacts
    <2>. QED BY <2>1 DEF Called
  <1>2. CASE Loop
    BY <1>2, LoopControl
  <1>3. CASE Connect \/ Quit \/ Start
    <2>1. CASE Start
      BY <2>1 DEF Start, NoObjects, Op
    <2>2. CASE Ping
      BY <2>2 DEF Ping, NoObjects, Op
    <2>3. CASE ReadPong
      BY <2>3 DEF ReadPong, NoObjects, Op
    <2>4. CASE SendReset
      BY <2>4 DEF SendReset, NoObjects, Op
    <2>5. CASE ReadReset
      BY <2>5 DEF ReadReset
    <2>. QED BY <1>3, <2>1, <2>2, <2>3, <2>4, <2>5, EndControl DEF Connect, Quit, GiveUp, NotReset
  <1>4. CASE Operate
    <2>1. todo # <<>> => Pin \in Pins
      BY PinFacts
    <2>2. map \in [Pins -> {"none", "base", "pin"}]
      BY DEF TypeInv, HostTypes
    <2>3. CASE GetSend
      BY <2>1, <2>2, <2>3 DEF GetSend, Op, Pin
    <2>4. CASE GetEntry
      <3>1. entry' # None
        BY <2>4, EntryFacts DEF GetEntry, MakeEntry
      <3>. QED BY <2>1, <2>2, <2>4, <3>1 DEF GetEntry, MakeEntry, Op, Pin
    <2>5. CASE GetAnswered
      BY <2>1, <2>2, <2>5 DEF GetAnswered, Answered, Op, Pin
    <2>6. CASE GetMap
      BY <2>1, <2>2, <2>6 DEF GetMap, Remap, Op, Pin
    <2>7. CASE Derive
      BY <2>1, <2>2, <2>7 DEF Derive, Remap, Op, Pin
    <2>8. CASE Construct
      BY <2>1, <2>2, <2>8 DEF Construct, Finished, Op, Pin
    <2>9. CASE SetState
      BY <2>1, <2>2, <2>9 DEF SetState, Finished
    <2>10. CASE ReturnSend
      BY <2>1, <2>2, <2>10 DEF ReturnSend, Op, Pin
    <2>11. CASE ReturnEntry
      <3>1. entry' # None
        BY <2>11, EntryFacts DEF ReturnEntry, MakeEntry
      <3>. QED BY <2>1, <2>2, <2>11, <3>1 DEF ReturnEntry, MakeEntry, Op, Pin
    <2>12. CASE ReturnAnswered
      BY <2>1, <2>2, <2>12 DEF ReturnAnswered, Answered, Op, Pin
    <2>13. CASE ReturnMap
      BY <2>1, <2>2, <2>13 DEF ReturnMap, Finished, Op, Pin
    <2>. QED BY <1>4, <2>3, <2>4, <2>5, <2>6, <2>7, <2>8, <2>9, <2>10, <2>11, <2>12, <2>13,
                EndControl DEF Operate, GetTwice
  <1>5. CASE Reader
    <2>1. CASE RouteAnswer
      <3>1. entry # None /\ entry' # None
        BY <2>1, EntryFacts DEF RouteAnswer, IsAnswer, Awaited
      <3>. QED BY <2>1, <3>1 DEF RouteAnswer, Op, Pin
    <2>2. CASE RouteValue
      BY <2>2 DEF RouteValue, Op, Pin
    <2>. QED BY <1>5, <2>1, <2>2, EndControl DEF Reader, ReaderDies
  <1>. QED BY <1>1, <1>2, <1>3, <1>4, <1>5 DEF MotorsNext, Serve

-----------------------------------------------------------------------------
(* The operations to be done, action by action.                            *)
LEMMA TodoFacts ==
  ASSUME TypeInv
  PROVE  /\ Len(todo) \in Nat
         /\ \A i \in 1..Len(todo) : todo[i] \in Ops /\ todo[i].pin \in Pins
                                    /\ todo[i].do \in {"new", "set", "delete"}
  BY LenProperties, ElementOfSeq, OpFacts DEF TypeInv, HostTypes

(* A step that does not finish an operation.                               *)
LEMMA PlanKept ==
  ASSUME TypeInv, Plan, todo' = todo,
         \A p \in Pins : Object(p)' => Object(p) /\ staging'[p] = staging[p],
         \A p \in Pins : InUse(p) => InUse(p)'
  PROVE  Plan'
  BY TodoFacts DEF Plan

LEMMA PlanEmpty ==
  ASSUME todo' = <<>>, \A p \in Pins : Object(p)' => staging'[p] \in Settings(p) PROVE Plan'
  BY DEF Plan

(* A step that finishes one.                                               *)
LEMMA PlanFinished ==
  ASSUME TypeInv, Plan, todo # <<>>, Finished,
         \A p \in Pins : Object(p)' => staging'[p] \in Settings(p),
         \A p \in Pins : InUse(p) => InUse(p)' \/ (todo[1].do = "delete" /\ todo[1].pin = p),
         \A p \in Pins : todo[1].do = "new" /\ todo[1].pin = p => InUse(p)'
  PROVE  Plan'
  <1>1. /\ Len(todo) \in Nat \ {0} /\ Len(todo') = Len(todo) - 1
        /\ \A i \in 1..Len(todo') : todo'[i] = todo[i + 1]
    BY FinishFacts DEF Finished
  <1>2. ASSUME NEW i \in 1..Len(todo'), todo'[i].do # "new",
               NEW p \in Pins, p = todo'[i].pin
        PROVE  /\ \A j \in 1..i - 1 : todo'[j].pin = p => todo'[j].do # "delete"
               /\ InUse(p)' \/ \E j \in 1..i - 1 : todo'[j].pin = p /\ todo'[j].do = "new"
    <2>1. /\ i + 1 \in 1..Len(todo) /\ todo'[i] = todo[i + 1] /\ todo[i + 1].pin = p
          /\ i + 1 - 1 = i /\ 1 \in 1..i
      BY <1>1, <1>2
    <2>2. \A j \in 1..i - 1 : j + 1 \in 1..i /\ todo'[j] = todo[j + 1]
      BY <1>1
    <2>3. /\ \A j \in 1..i : todo[j].pin = p => todo[j].do # "delete"
          /\ \/ InUse(p)
             \/ \E j \in 1..i : todo[j].pin = p /\ todo[j].do = "new"
      BY <1>2, <2>1 DEF Plan
    <2>4. \A j \in 1..i - 1 : todo'[j].pin = p => todo'[j].do # "delete"
      BY <2>1, <2>2, <2>3
    <2>5. CASE InUse(p)
      BY <2>1, <2>3, <2>4, <2>5
    <2>6. CASE \E j \in 1..i : todo[j].pin = p /\ todo[j].do = "new"
      <3>1. PICK j \in 1..i : todo[j].pin = p /\ todo[j].do = "new"
        BY <2>6
      <3>2. CASE j = 1
        BY <2>1, <2>4, <3>1, <3>2
      <3>3. CASE j # 1
        <4>1. j - 1 \in 1..i - 1 /\ todo'[j - 1] = todo[j]
          BY <1>1, <3>3
        <4>. QED BY <2>1, <2>4, <3>1, <4>1
      <3>. QED BY <3>2, <3>3
    <2>. QED BY <2>3, <2>5, <2>6
  <1>3. \A i \in 1..Len(todo') : todo'[i].pin \in Pins
    <2>. SUFFICES ASSUME NEW i \in 1..Len(todo') PROVE todo'[i].pin \in Pins
      OBVIOUS
    <2>1. i + 1 \in 1..Len(todo) /\ todo'[i] = todo[i + 1]
      BY <1>1
    <2>. QED BY <2>1, TodoFacts
  <1>. QED BY <1>2, <1>3 DEF Plan

LEMMA OpFields ==
  /\ Dir.do = "new" /\ Dir.pin = DirPin /\ Dir.to = [dir |-> "Out", val |-> "Low"]
  /\ Back.do = "new" /\ Back.pin = PinB
  /\ Thrust.do = "new" /\ Thrust.pin = Pulse /\ Thrust.to = [val |-> 0, ramp |-> -1]
  /\ \A r : SetRamp(r).do = "set" /\ SetRamp(r).pin = Pulse /\ SetRamp(r).part = "ramp"
  /\ \A v : /\ SetDir(v).do = "set" /\ SetDir(v).pin = DirPin
            /\ SetDir(v).part = "val" /\ SetDir(v).to = Forward(v)
            /\ SetBack(v).do = "set" /\ SetBack(v).pin = PinB
            /\ SetThrust(v).do = "set" /\ SetThrust(v).pin = Pulse
            /\ SetThrust(v).part = "val" /\ SetThrust(v).to = Magnitude(v)
  /\ \A p : Delete(p).do = "delete" /\ Delete(p).pin = p
  BY DEF Dir, Back, Thrust, SetRamp, SetDir, SetBack, SetThrust, Delete, New, Set

(* A motor that has nothing to do has its pins.                            *)
LEMMA MotorHas ==
  ASSUME TypeInv, Motor, velocity # None, todo = <<>>, main = "idle"
  PROVE  map[DirPin] = "pin" /\ map[Pulse] = "pin" /\ (kind # "lite" => map[PinB] = "pin")
  <1>1. Len(todo) = 0
    OBVIOUS
  <1>2. Will(DirPin, "dir", "Out") /\ Will(Pulse, "val", Magnitude(velocity))
        /\ (kind # "lite" => Made(PinB))
    BY DEF Motor
  <1>. QED BY <1>1, <1>2 DEF Will, Made, Object

LEMMA CallPlan == ASSUME TypeInv, Plan, Motor, MotorCall \/ PinCall PROVE Plan'
  <1>1. Called
    BY CallFacts
  <1>2. \A p \in Pins : Object(p)' => staging'[p] \in Settings(p)
    BY <1>1 DEF Called, Object, Plan
  <1>3. /\ main = "idle" /\ main' = "idle" /\ todo = <<>>
        /\ \A p \in Pins : InUse(p)' <=> map[p] = "pin"
    BY <1>1 DEF Called, InUse, Removing
  <1>. USE DEF Call
  <1>4. CASE NewMotor
    <2>1. PICK r \in Ramps, v \in Velocities : todo' = Construction(r, v)
      BY <1>4 DEF NewMotor
    <2>2. CASE kind = "lite" /\ v = 0
      <3>1. todo' = <<Dir, Thrust, SetRamp(r), SetThrust(v)>>
        BY <2>1, <2>2, ConstructionIs
      <3>. QED BY <1>2, <3>1, OpFields DEF Plan
    <2>3. CASE kind = "lite" /\ v # 0
      <3>1. todo' = <<Dir, Thrust, SetRamp(r), SetDir(v), SetThrust(v)>>
        BY <2>1, <2>3, ConstructionIs
      <3>. QED BY <1>2, <3>1, OpFields DEF Plan
    <2>4. CASE kind # "lite"
      <3>1. todo' = <<Dir, Back, Thrust, SetRamp(r), SetDir(v), SetBack(v), SetThrust(v)>>
        BY <2>1, <2>4, ConstructionIs
      <3>2. /\ Len(todo') = 7
            /\ todo'[1] = Dir /\ todo'[2] = Back /\ todo'[3] = Thrust /\ todo'[4] = SetRamp(r)
            /\ todo'[5] = SetDir(v) /\ todo'[6] = SetBack(v) /\ todo'[7] = SetThrust(v)
        BY <3>1
      <3>3. \A i \in 1..7 : todo'[i].do # "delete"
        BY <3>2, OpFields
      <3>4. \A i \in 1..7 : todo'[i].do # "new" =>
              \E j \in 1..i - 1 : todo'[j].pin = todo'[i].pin /\ todo'[j].do = "new"
        <4>1. /\ \A i \in 1..3 : todo'[i].do = "new"
              /\ todo'[4].pin = todo'[3].pin /\ todo'[5].pin = todo'[1].pin
              /\ todo'[6].pin = todo'[2].pin /\ todo'[7].pin = todo'[3].pin
          BY <3>2, OpFields
        <4>2. 3 \in 1..4 - 1 /\ 1 \in 1..5 - 1 /\ 2 \in 1..6 - 1 /\ 3 \in 1..7 - 1
          OBVIOUS
        <4>. QED BY <4>1, <4>2
      <3>5. \A i \in 1..Len(todo') : \A j \in 1..i - 1 : j \in 1..7 /\ i \in 1..7
        BY <3>2
      <3>. QED BY <1>2, <3>2, <3>3, <3>4, <3>5 DEF Plan
    <2>. QED BY <2>2, <2>3, <2>4
  <1>5. CASE DriveMotor
    <2>1. PICK v \in Velocities : todo' = SetVelocity(v)
      BY <1>5 DEF DriveMotor
    <2>2. /\ InUse(DirPin)' /\ InUse(Pulse)' /\ (kind # "lite" => InUse(PinB)')
      BY <1>3, <1>5, MotorHas, MotorPins DEF DriveMotor
    <2>3. CASE kind = "lite" /\ v = 0
      <3>1. todo' = <<SetThrust(v)>>
        BY <2>1, <2>3, SetVelocityIs
      <3>. QED BY <1>2, <2>2, <3>1, OpFields DEF Plan
    <2>4. CASE kind = "lite" /\ v # 0
      <3>1. todo' = <<SetDir(v), SetThrust(v)>>
        BY <2>1, <2>4, SetVelocityIs
      <3>. QED BY <1>2, <2>2, <3>1, OpFields DEF Plan
    <2>5. CASE kind # "lite"
      <3>1. todo' = <<SetDir(v), SetBack(v), SetThrust(v)>>
        BY <2>1, <2>5, SetVelocityIs
      <3>. QED BY <1>2, <2>2, <2>5, <3>1, OpFields DEF Plan
    <2>. QED BY <2>3, <2>4, <2>5
  <1>6. CASE RampMotor
    <2>1. PICK r \in Ramps : todo' = <<SetRamp(r)>>
      BY <1>6 DEF RampMotor, SetRamp
    <2>2. InUse(Pulse)'
      BY <1>3, <1>6, MotorHas, MotorPins DEF RampMotor
    <2>. QED BY <1>2, <2>1, <2>2, OpFields DEF Plan
  <1>7. CASE DeleteMotor
    <2>1. todo' = Destruction
      BY <1>7 DEF DeleteMotor
    <2>2. /\ InUse(DirPin)' /\ InUse(Pulse)' /\ (kind # "lite" => InUse(PinB)')
      BY <1>3, <1>7, MotorHas, MotorPins DEF DeleteMotor
    <2>3. CASE kind = "lite"
      <3>1. todo' = <<Delete(DirPin), Delete(Pulse)>>
        BY <2>1, <2>3, DestructionIs
      <3>. QED BY <1>2, <2>2, <3>1, OpFields, MotorPins DEF Plan
    <2>4. CASE kind # "lite"
      <3>1. todo' = <<Delete(DirPin), Delete(PinB), Delete(Pulse)>>
        BY <2>1, <2>4, DestructionIs
      <3>. QED BY <1>2, <2>2, <2>4, <3>1, OpFields, MotorPins DEF Plan
    <2>. QED BY <2>3, <2>4
  <1>8. CASE PinCall
    <2>1. PICK p \in Direct : CallPin(p)
      BY <1>8 DEF PinCall
    <2>2. p \in Pins
      BY MotorAssumption
    <2>3. \/ \E s \in Settings(p) : todo' = <<New(p, s)>>
          \/ map[p] = "pin" /\ todo' = <<Delete(p)>>
          \/ map[p] = "pin" /\ \E k, v : todo' = <<Set(p, k, v)>>
      BY <2>1 DEF CallPin, Exists
    <2>4. CASE \E s \in Settings(p) : todo' = <<New(p, s)>>
      BY <1>2, <2>4 DEF Plan, New
    <2>5. CASE map[p] = "pin" /\ todo' = <<Delete(p)>>
      <3>1. InUse(p)'
        BY <1>3, <2>2, <2>5
      <3>. QED BY <1>2, <2>5, <3>1 DEF Plan, Delete
    <2>6. CASE map[p] = "pin" /\ \E k, v : todo' = <<Set(p, k, v)>>
      <3>1. InUse(p)'
        BY <1>3, <2>2, <2>6
      <3>. QED BY <1>2, <2>6, <3>1 DEF Plan, Set
    <2>. QED BY <2>3, <2>4, <2>5, <2>6
  <1>. QED BY <1>4, <1>5, <1>6, <1>7, <1>8 DEF MotorCall

(* What the end of a construction asks for is what its operation gives,    *)
(* but for the ADC pin that was never told.                                *)
LEMMA ConstructFacts ==
  ASSUME TypeInv, Control, Construct
  PROVE  /\ Finished /\ main = "construct" /\ main' = "idle" /\ todo # <<>>
         /\ todo[1].do = "new" /\ Pin = todo[1].pin /\ Pin \in Pins /\ map[Pin] = "pin"
         /\ UNCHANGED <<map, daemon, toHost, entry>>
         /\ \E s \in Settings(Pin) :
              /\ Pin \in Gpio \cup Pwm => s = todo[1].to
              /\ Send(SetRequest(Pin, s))
              /\ staging' = [staging EXCEPT ![Pin] = s]
              /\ cache' = [cache EXCEPT ![Pin] = Invented(s)]
         /\ told' = [told EXCEPT ![Pin] = FALSE]
  <1>1. Finished /\ main = "construct" /\ main' = "idle" /\ todo # <<>> /\ Head(todo).do = "new"
    BY DEF Construct, Finished, Goto, Control, Adding, Op
  <1>2. /\ Pin = todo[1].pin /\ Pin \in Pins /\ Head(todo) = todo[1]
        /\ todo[1].do = "new" /\ todo[1].to \in Settings(Pin)
    BY <1>1, PinFacts
  <1>3. map[Pin] = "pin"
    BY <1>1, <1>2 DEF Control, Adding, Session
  <1>4. PICK s \in {todo[1].to} \cup Uninitialized(Pin) :
          /\ Send(SetRequest(Pin, s))
          /\ staging' = [staging EXCEPT ![Pin] = s]
          /\ cache' = [cache EXCEPT ![Pin] = Invented(s)]
    BY <1>2 DEF Construct
  <1>5. s \in Settings(Pin) /\ (Pin \in Gpio \cup Pwm => s = todo[1].to)
    BY <1>2, <1>4, PinAssumption DEF Uninitialized
  <1>6. UNCHANGED <<map, daemon, toHost, entry>> /\ told' = [told EXCEPT ![Pin] = FALSE]
    BY DEF Construct
  <1>. QED BY <1>1, <1>2, <1>3, <1>4, <1>5, <1>6

LEMMA NextPlan == ASSUME TypeInv, Control, Plan, Motor, MotorsNext PROVE Plan'
  <1>. DEFINE Kept1 == \A p \in Pins : Object(p)' => Object(p) /\ staging'[p] = staging[p]
              Kept2 == \A p \in Pins : InUse(p) => InUse(p)'
  <1>0. /\ map \in [Pins -> {"none", "base", "pin"}] /\ DOMAIN staging = Pins
        /\ \A p \in Pins : Object(p) => staging[p] \in Settings(p)
    BY DEF TypeInv, HostTypes, Plan
  <1>1. CASE MotorCall \/ PinCall
    BY <1>1, CallPlan
  <1>2. CASE Loop
    <2>1. UNCHANGED <<main, todo, map, staging>>
      BY <1>2 DEF Loop, host
    <2>2. Kept1 /\ Kept2
      BY <2>1 DEF Object, InUse, Pin
    <2>. QED BY <2>1, <2>2, PlanKept
  <1>3. CASE End
    <2>1. todo' = <<>> /\ map' = [p \in Pins |-> "none"]
      BY <1>3 DEF End
    <2>. QED BY <2>1, PlanEmpty DEF Object
  <1>4. CASE Start \/ Ping \/ ReadPong \/ SendReset \/ ReadReset
    <2>1. UNCHANGED <<todo, map, staging>>
      BY <1>4 DEF Start, Ping, ReadPong, SendReset, ReadReset
    <2>2. todo = <<>> /\ \A p \in Pins : map[p] = "none"
      BY <1>4 DEF Start, Ping, ReadPong, SendReset, ReadReset, Control, Session
    <2>. QED BY <2>1, <2>2, PlanEmpty DEF Object
  <1>5. CASE Operate
    <2>0. todo # <<>> => /\ Pin = todo[1].pin /\ Pin \in Pins /\ Head(todo) = todo[1]
                         /\ todo[1].do = "new" => todo[1].to \in Settings(Pin)
      BY PinFacts
    <2>1. CASE GetSend \/ GetEntry \/ GetAnswered \/ ReturnEntry \/ ReturnAnswered
      <3>1. /\ UNCHANGED <<todo, map, staging>>
            /\ main \in {"idle", "entry", "get", "leave", "return"}
            /\ main' \in {"entry", "get", "map", "return", "unmap"}
            /\ main \in Removing <=> main' \in Removing
        BY <2>1 DEF GetSend, GetEntry, GetAnswered, ReturnEntry, ReturnAnswered, MakeEntry, Answered,
                    Goto, Removing
      <3>2. Kept1
        BY <3>1 DEF Object, Pin
      <3>3. Kept2
        BY <3>1 DEF InUse, Pin
      <3>. QED BY <3>1, <3>2, <3>3, PlanKept
    <2>2. CASE GetMap
      <3>1. /\ UNCHANGED <<todo, staging>> /\ main = "map" /\ main' = "derive"
            /\ map' = [map EXCEPT ![Pin] = "base"] /\ map[Pin] = "none" /\ Pin \in Pins
        BY <2>0, <2>2 DEF GetMap, Remap, Goto, Control, Adding, Session, Op
      <3>2. Kept1
        BY <1>0, <3>1 DEF Object, Pin
      <3>3. Kept2
        BY <1>0, <3>1 DEF InUse, Pin, Removing
      <3>. QED BY <3>1, <3>2, <3>3, PlanKept
    <2>3. CASE Derive
      <3>1. /\ UNCHANGED <<todo, staging>> /\ main = "derive" /\ main' = "construct"
            /\ map' = [map EXCEPT ![Pin] = "pin"] /\ Pin \in Pins /\ Pin' = Pin
        BY <2>0, <2>3 DEF Derive, Remap, Goto, Control, Adding, Op, Pin
      <3>2. Kept1
        BY <1>0, <3>1 DEF Object
      <3>3. Kept2
        BY <1>0, <3>1 DEF InUse, Removing
      <3>. QED BY <3>1, <3>2, <3>3, PlanKept
    <2>4. CASE ReturnSend
      <3>1. /\ UNCHANGED <<todo, staging>> /\ main = "idle" /\ main' = "leave"
            /\ map' = [map EXCEPT ![Pin] = "base"] /\ Pin \in Pins /\ Pin' = Pin
        BY <2>0, <2>4 DEF ReturnSend, Goto, Op, Pin
      <3>2. Kept1
        BY <1>0, <3>1 DEF Object
      <3>3. Kept2
        BY <1>0, <3>1 DEF InUse, Removing
      <3>. QED BY <3>1, <3>2, <3>3, PlanKept
    <2>5. CASE Construct
      <3>1. /\ Finished /\ UNCHANGED map /\ main = "construct" /\ main' = "idle" /\ todo # <<>>
            /\ todo[1].do = "new" /\ map[Pin] = "pin" /\ Pin \in Pins /\ Pin = todo[1].pin
            /\ \E s \in Settings(Pin) : staging' = [staging EXCEPT ![Pin] = s]
        BY <2>5, ConstructFacts
      <3>2. \A p \in Pins : Object(p)' => staging'[p] \in Settings(p)
        BY <1>0, <3>1 DEF Object
      <3>3. Kept2 /\ \A p \in Pins : todo[1].do = "new" /\ todo[1].pin = p => InUse(p)'
        BY <3>1 DEF InUse, Removing
      <3>. QED BY <3>1, <3>2, <3>3, PlanFinished
    <2>6. CASE SetState
      <3>1. /\ Finished /\ UNCHANGED map /\ main = "idle" /\ main' = "idle" /\ todo # <<>>
            /\ todo[1].do = "set" /\ Op("set") /\ Pin \in Pins
            /\ staging' = [staging EXCEPT ![Pin][Head(todo).part] = Head(todo).to]
        BY <2>0, <2>6 DEF SetState, Finished, Goto, Op
      <3>2. staging'[Pin] \in Settings(Pin) /\ \A p \in Pins : p # Pin => staging'[p] = staging[p]
        BY <3>1, StagedFacts
      <3>3. \A p \in Pins : Object(p)' => staging'[p] \in Settings(p)
        BY <1>0, <3>1, <3>2 DEF Object
      <3>4. Kept2
        BY <3>1 DEF InUse, Removing
      <3>. QED BY <3>1, <3>3, <3>4, PlanFinished
    <2>7. CASE ReturnMap
      <3>1. /\ Finished /\ main = "unmap" /\ main' = "idle" /\ todo # <<>>
            /\ todo[1].do = "delete" /\ Pin \in Pins /\ Pin = todo[1].pin
            /\ map' = [map EXCEPT ![Pin] = "none"]
            /\ staging' = [staging EXCEPT ![Pin] = None]
        BY <2>0, <2>7 DEF ReturnMap, Finished, Goto, Control, Removing, Op
      <3>2. \A p \in Pins : Object(p)' => staging'[p] \in Settings(p)
        BY <1>0, <3>1 DEF Object
      <3>3. \A p \in Pins : InUse(p) => InUse(p)' \/ (todo[1].do = "delete" /\ todo[1].pin = p)
        BY <1>0, <3>1 DEF InUse
      <3>. QED BY <3>1, <3>2, <3>3, PlanFinished
    <2>. QED BY <1>3, <1>5, <2>1, <2>2, <2>3, <2>4, <2>5, <2>6, <2>7 DEF Operate, GetTwice
  <1>6. CASE RouteAnswer \/ RouteValue
    <2>1. UNCHANGED <<main, todo, map, staging>>
      BY <1>6 DEF RouteAnswer, RouteValue
    <2>2. Kept1 /\ Kept2
      BY <2>1 DEF Object, InUse, Pin
    <2>. QED BY <2>1, <2>2, PlanKept
  <1>. QED BY <1>1, <1>2, <1>3, <1>4, <1>5, <1>6
           DEF MotorsNext, Serve, Connect, Reader, Quit, GiveUp, NotReset, ReaderDies

-----------------------------------------------------------------------------
(* What the motor's pins will be set to, action by action.                 *)
LEMMA WillKept ==
  ASSUME todo' = todo, NEW p, NEW k, NEW v, Object(p) => Object(p)' /\ staging'[p] = staging[p]
  PROVE  (Will(p, k, v) => Will(p, k, v)') /\ (Made(p) => Made(p)')
  BY DEF Will, Made

LEMMA WillFinished ==
  ASSUME TypeInv, todo # <<>>, Finished, NEW p, NEW k, NEW v,
         IF Touches(todo[1], p, k)
         THEN Object(p)' /\ staging'[p][k] = Gives(todo[1], k)
         ELSE Object(p) => Object(p)' /\ staging'[p][k] = staging[p][k],
         Will(p, k, v)
  PROVE  Will(p, k, v)'
  <1>1. /\ Len(todo) \in Nat \ {0} /\ Len(todo') = Len(todo) - 1
        /\ \A i \in 1..Len(todo') : todo'[i] = todo[i + 1]
    BY FinishFacts DEF Finished
  <1>2. \A i \in 2..Len(todo) : i - 1 \in 1..Len(todo') /\ todo[i] = todo'[i - 1]
    <2>. SUFFICES ASSUME NEW i \in 2..Len(todo)
                  PROVE  i - 1 \in 1..Len(todo') /\ todo[i] = todo'[i - 1]
      OBVIOUS
    <2>1. i - 1 \in 1..Len(todo') /\ i - 1 + 1 = i
      BY <1>1
    <2>. QED BY <1>1, <2>1
  <1>3. ASSUME NEW i \in 1..Len(todo'), Touches(todo'[i], p, k),
               \A j \in i + 1..Len(todo') : ~Touches(todo'[j], p, k)
        PROVE  Gives(todo'[i], k) = v
    <2>1. i + 1 \in 1..Len(todo) /\ todo'[i] = todo[i + 1]
      BY <1>1
    <2>2. \A j \in i + 1 + 1..Len(todo) : ~Touches(todo[j], p, k)
      <3>. SUFFICES ASSUME NEW j \in i + 1 + 1..Len(todo) PROVE ~Touches(todo[j], p, k)
        OBVIOUS
      <3>1. j \in 2..Len(todo) /\ j - 1 \in i + 1..Len(todo')
        BY <1>1
      <3>. QED BY <1>2, <1>3, <3>1
    <2>. QED BY <1>3, <2>1, <2>2 DEF Will
  <1>4. ASSUME \A i \in 1..Len(todo') : ~Touches(todo'[i], p, k)
        PROVE  Object(p)' /\ staging'[p][k] = v
    <2>1. \A i \in 2..Len(todo) : ~Touches(todo[i], p, k)
      BY <1>2, <1>4
    <2>2. CASE Touches(todo[1], p, k)
      <3>1. 1 \in 1..Len(todo)
        BY <1>1
      <3>2. Gives(todo[1], k) = v
        BY <2>1, <2>2, <3>1 DEF Will
      <3>. QED BY <2>2, <3>2
    <2>3. CASE ~Touches(todo[1], p, k)
      <3>1. \A i \in 1..Len(todo) : i = 1 \/ i \in 2..Len(todo)
        BY <1>1
      <3>2. Object(p) /\ staging[p][k] = v
        BY <2>1, <2>3, <3>1 DEF Will
      <3>. QED BY <2>3, <3>2
    <2>. QED BY <2>2, <2>3
  <1>. QED BY <1>3, <1>4 DEF Will

LEMMA MadeFinished ==
  ASSUME TypeInv, todo # <<>>, Finished, NEW p,
         Object(p) => Object(p)', todo[1].do = "new" /\ todo[1].pin = p => Object(p)', Made(p)
  PROVE  Made(p)'
  <1>1. /\ Len(todo) \in Nat \ {0} /\ Len(todo') = Len(todo) - 1
        /\ \A i \in 1..Len(todo') : todo'[i] = todo[i + 1]
    BY FinishFacts DEF Finished
  <1>2. CASE Object(p)
    BY <1>2 DEF Made
  <1>3. CASE ~Object(p)
    <2>1. PICK i \in 1..Len(todo) : todo[i].pin = p /\ todo[i].do = "new"
      BY <1>3 DEF Made
    <2>2. CASE i = 1
      BY <2>1, <2>2 DEF Made
    <2>3. CASE i # 1
      <3>1. i - 1 \in 1..Len(todo') /\ i - 1 + 1 = i
        BY <1>1, <2>3
      <3>2. todo'[i - 1] = todo[i]
        BY <1>1, <3>1
      <3>. QED BY <2>1, <3>1, <3>2 DEF Made
    <2>. QED BY <2>2, <2>3
  <1>. QED BY <1>2, <1>3

(* A call says how its pins will be set, by the last operation that        *)
(* touches them, or leaves them as they were to be.                        *)
LEMMA WillBy ==
  ASSUME NEW p, NEW k, NEW v, Len(todo') \in Nat, NEW n \in 1..Len(todo'),
         Touches(todo'[n], p, k), Gives(todo'[n], k) = v,
         \A j \in n + 1..Len(todo') : ~Touches(todo'[j], p, k)
  PROVE  Will(p, k, v)'
  <1>1. ASSUME NEW i \in 1..Len(todo'), Touches(todo'[i], p, k),
               \A j \in i + 1..Len(todo') : ~Touches(todo'[j], p, k)
        PROVE  i = n
    <2>1. ~(i > n)
      BY <1>1
    <2>2. ~(n > i)
      BY <1>1
    <2>. QED BY <2>1, <2>2
  <1>2. \A i \in 1..Len(todo') :
          Touches(todo'[i], p, k) /\ (\A j \in i + 1..Len(todo') : ~Touches(todo'[j], p, k))
            => Gives(todo'[i], k) = v
    BY <1>1
  <1>3. ~(\A i \in 1..Len(todo') : ~Touches(todo'[i], p, k))
    OBVIOUS
  <1>. QED BY <1>2, <1>3 DEF Will

LEMMA WillStay ==
  ASSUME NEW p, NEW k, NEW v, Called, Will(p, k, v),
         \A i \in 1..Len(todo') : ~Touches(todo'[i], p, k)
  PROVE  Will(p, k, v)'
  <1>1. Object(p) /\ staging[p][k] = v
    <2>1. \A i \in 1..Len(todo) : ~Touches(todo[i], p, k)
      BY DEF Called
    <2>. QED BY <2>1 DEF Will
  <1>2. Object(p)' /\ staging'[p][k] = v
    BY <1>1 DEF Called, Object
  <1>. QED BY <1>2 DEF Will

LEMMA MotorFrom ==
  ASSUME NEW w \in Velocities, velocity' = w, kind' # "none",
         \A i \in 1..Len(todo') : todo'[i].do # "delete",
         kind' # "lite" => Made(PinB)',
         Will(DirPin, "dir", "Out")', Will(Pulse, "val", Magnitude(w))',
         w > 0 => Will(DirPin, "val", "Hi")', w < 0 => Will(DirPin, "val", "Low")'
  PROVE  Motor'
  BY DEF Motor, Will

(* What the operations of a motor touch.                                   *)
LEMMA OpTouches ==
  /\ \A k : Touches(Dir, DirPin, k) /\ Touches(Thrust, Pulse, k)
  /\ Gives(Dir, "dir") = "Out" /\ Gives(Dir, "val") = "Low"
  /\ \A k : /\ ~Touches(Dir, Pulse, k) /\ ~Touches(Thrust, DirPin, k)
            /\ ~Touches(Back, DirPin, k) /\ ~Touches(Back, Pulse, k)
  /\ \A r : /\ ~Touches(SetRamp(r), Pulse, "val")
            /\ \A k : ~Touches(SetRamp(r), DirPin, k)
  /\ \A v : /\ Touches(SetDir(v), DirPin, "val") /\ Gives(SetDir(v), "val") = Forward(v)
            /\ ~Touches(SetDir(v), DirPin, "dir")
            /\ Touches(SetThrust(v), Pulse, "val") /\ Gives(SetThrust(v), "val") = Magnitude(v)
            /\ \A k : /\ ~Touches(SetDir(v), Pulse, k)
                      /\ ~Touches(SetBack(v), DirPin, k) /\ ~Touches(SetBack(v), Pulse, k)
                      /\ ~Touches(SetThrust(v), DirPin, k)
  BY OpFields, MotorPins DEF Touches, Gives

LEMMA ForwardIs == \A v \in Velocities : v \in Int /\ (v > 0 => Forward(v) = "Hi") /\ (v < 0 => Forward(v) = "Low")
  <1>1. \A v \in Velocities : v \in Int
    BY VelocityFacts
  <1>. QED BY <1>1 DEF Forward

LEMMA CallMotor == ASSUME TypeInv, Motor, MotorCall \/ PinCall, kind' = kind PROVE Motor'
  <1>1. Called
    BY CallFacts
  <1>. USE DEF Call
  <1>3. CASE NewMotor /\ kind # "none"
    <2>1. PICK r \in Ramps, v \in Velocities : todo' = Construction(r, v) /\ velocity' = v
      BY <1>3 DEF NewMotor
    <2>2. CASE kind = "lite" /\ v = 0
      <3>1. todo' = <<Dir, Thrust, SetRamp(r), SetThrust(v)>>
        BY <2>1, <2>2, ConstructionIs
      <3>2. /\ Len(todo') = 4 /\ todo'[1] = Dir /\ todo'[2] = Thrust
            /\ todo'[3] = SetRamp(r) /\ todo'[4] = SetThrust(v)
        BY <3>1
      <3>3. \A i \in 1..Len(todo') : todo'[i].do # "delete"
        BY <3>2, OpFields
      <3>4. Will(DirPin, "dir", "Out")'
        <4>1. 1 \in 1..Len(todo') /\ \A j \in 1 + 1..Len(todo') : ~Touches(todo'[j], DirPin, "dir")
          BY <3>2, OpTouches
        <4>. QED BY <3>2, <4>1, WillBy, OpTouches
      <3>5. Will(Pulse, "val", Magnitude(v))'
        <4>1. 4 \in 1..Len(todo') /\ \A j \in 4 + 1..Len(todo') : ~Touches(todo'[j], Pulse, "val")
          BY <3>2, OpTouches
        <4>. QED BY <3>2, <4>1, WillBy, OpTouches
      <3>. QED BY <1>3, <2>1, <2>2, <3>3, <3>4, <3>5, MotorFrom
    <2>3. CASE kind = "lite" /\ v # 0
      <3>1. todo' = <<Dir, Thrust, SetRamp(r), SetDir(v), SetThrust(v)>>
        BY <2>1, <2>3, ConstructionIs
      <3>2. /\ Len(todo') = 5 /\ todo'[1] = Dir /\ todo'[2] = Thrust
            /\ todo'[3] = SetRamp(r) /\ todo'[4] = SetDir(v) /\ todo'[5] = SetThrust(v)
        BY <3>1
      <3>3. \A i \in 1..Len(todo') : todo'[i].do # "delete"
        BY <3>2, OpFields
      <3>4. Will(DirPin, "dir", "Out")'
        <4>1. 1 \in 1..Len(todo') /\ \A j \in 1 + 1..Len(todo') : ~Touches(todo'[j], DirPin, "dir")
          BY <3>2, OpTouches
        <4>. QED BY <3>2, <4>1, WillBy, OpTouches
      <3>5. Will(Pulse, "val", Magnitude(v))'
        <4>1. 5 \in 1..Len(todo') /\ \A j \in 5 + 1..Len(todo') : ~Touches(todo'[j], Pulse, "val")
          BY <3>2, OpTouches
        <4>. QED BY <3>2, <4>1, WillBy, OpTouches
      <3>6. Will(DirPin, "val", Forward(v))'
        <4>1. 4 \in 1..Len(todo') /\ \A j \in 4 + 1..Len(todo') : ~Touches(todo'[j], DirPin, "val")
          BY <3>2, OpTouches
        <4>. QED BY <3>2, <4>1, WillBy, OpTouches
      <3>. QED BY <1>3, <2>1, <2>3, <3>3, <3>4, <3>5, <3>6, MotorFrom, ForwardIs
    <2>4. CASE kind # "lite"
      <3>1. todo' = <<Dir, Back, Thrust, SetRamp(r), SetDir(v), SetBack(v), SetThrust(v)>>
        BY <2>1, <2>4, ConstructionIs
      <3>2. /\ Len(todo') = 7
            /\ todo'[1] = Dir /\ todo'[2] = Back /\ todo'[3] = Thrust /\ todo'[4] = SetRamp(r)
            /\ todo'[5] = SetDir(v) /\ todo'[6] = SetBack(v) /\ todo'[7] = SetThrust(v)
        BY <3>1
      <3>3. \A i \in 1..Len(todo') : todo'[i].do # "delete"
        BY <3>2, OpFields
      <3>4. Will(DirPin, "dir", "Out")'
        <4>1. 1 \in 1..Len(todo') /\ \A j \in 1 + 1..Len(todo') : ~Touches(todo'[j], DirPin, "dir")
          BY <3>2, OpTouches
        <4>. QED BY <3>2, <4>1, WillBy, OpTouches
      <3>5. Will(Pulse, "val", Magnitude(v))'
        <4>1. 7 \in 1..Len(todo') /\ \A j \in 7 + 1..Len(todo') : ~Touches(todo'[j], Pulse, "val")
          BY <3>2, OpTouches
        <4>. QED BY <3>2, <4>1, WillBy, OpTouches
      <3>6. Will(DirPin, "val", Forward(v))'
        <4>1. 5 \in 1..Len(todo') /\ \A j \in 5 + 1..Len(todo') : ~Touches(todo'[j], DirPin, "val")
          BY <3>2, OpTouches
        <4>. QED BY <3>2, <4>1, WillBy, OpTouches
      <3>7. Made(PinB)'
        <4>1. 2 \in 1..Len(todo') /\ todo'[2].pin = PinB /\ todo'[2].do = "new"
          BY <3>2, OpFields
        <4>. QED BY <4>1 DEF Made
      <3>. QED BY <1>3, <2>1, <2>4, <3>3, <3>4, <3>5, <3>6, <3>7, MotorFrom, ForwardIs
    <2>. QED BY <2>2, <2>3, <2>4
  <1>4. CASE DriveMotor /\ kind # "none"
    <2>1. PICK v \in Velocities : todo' = SetVelocity(v) /\ velocity' = v
      BY <1>4 DEF DriveMotor
    <2>2. velocity # None /\ Will(DirPin, "dir", "Out") /\ (kind # "lite" => map[PinB] = "pin")
      BY <1>1, <1>4, MotorHas DEF DriveMotor, Motor, Called
    <2>3. kind # "lite" => Made(PinB)'
      BY <1>1, <2>2 DEF Made, Called, Object
    <2>4. CASE kind = "lite" /\ v = 0
      <3>1. todo' = <<SetThrust(v)>>
        BY <2>1, <2>4, SetVelocityIs
      <3>2. Len(todo') = 1 /\ todo'[1] = SetThrust(v)
        BY <3>1
      <3>3. \A i \in 1..Len(todo') : /\ todo'[i].do # "delete"
                                     /\ ~Touches(todo'[i], DirPin, "dir")
        BY <3>2, OpFields, OpTouches
      <3>4. Will(DirPin, "dir", "Out")'
        BY <1>1, <2>2, <3>3, WillStay
      <3>5. Will(Pulse, "val", Magnitude(v))'
        <4>1. 1 \in 1..Len(todo') /\ \A j \in 1 + 1..Len(todo') : ~Touches(todo'[j], Pulse, "val")
          BY <3>2, OpTouches
        <4>. QED BY <3>2, <4>1, WillBy, OpTouches
      <3>. QED BY <1>4, <2>1, <2>4, <3>3, <3>4, <3>5, MotorFrom
    <2>5. CASE kind = "lite" /\ v # 0
      <3>1. todo' = <<SetDir(v), SetThrust(v)>>
        BY <2>1, <2>5, SetVelocityIs
      <3>2. Len(todo') = 2 /\ todo'[1] = SetDir(v) /\ todo'[2] = SetThrust(v)
        BY <3>1
      <3>3. \A i \in 1..Len(todo') : /\ todo'[i].do # "delete"
                                     /\ ~Touches(todo'[i], DirPin, "dir")
        BY <3>2, OpFields, OpTouches
      <3>4. Will(DirPin, "dir", "Out")'
        BY <1>1, <2>2, <3>3, WillStay
      <3>5. Will(Pulse, "val", Magnitude(v))'
        <4>1. 2 \in 1..Len(todo') /\ \A j \in 2 + 1..Len(todo') : ~Touches(todo'[j], Pulse, "val")
          BY <3>2, OpTouches
        <4>. QED BY <3>2, <4>1, WillBy, OpTouches
      <3>6. Will(DirPin, "val", Forward(v))'
        <4>1. 1 \in 1..Len(todo') /\ \A j \in 1 + 1..Len(todo') : ~Touches(todo'[j], DirPin, "val")
          BY <3>2, OpTouches
        <4>. QED BY <3>2, <4>1, WillBy, OpTouches
      <3>. QED BY <1>4, <2>1, <2>5, <3>3, <3>4, <3>5, <3>6, MotorFrom, ForwardIs
    <2>6. CASE kind # "lite"
      <3>1. todo' = <<SetDir(v), SetBack(v), SetThrust(v)>>
        BY <2>1, <2>6, SetVelocityIs
      <3>2. /\ Len(todo') = 3 /\ todo'[1] = SetDir(v) /\ todo'[2] = SetBack(v)
            /\ todo'[3] = SetThrust(v)
        BY <3>1
      <3>3. \A i \in 1..Len(todo') : /\ todo'[i].do # "delete"
                                     /\ ~Touches(todo'[i], DirPin, "dir")
        BY <3>2, OpFields, OpTouches
      <3>4. Will(DirPin, "dir", "Out")'
        BY <1>1, <2>2, <3>3, WillStay
      <3>5. Will(Pulse, "val", Magnitude(v))'
        <4>1. 3 \in 1..Len(todo') /\ \A j \in 3 + 1..Len(todo') : ~Touches(todo'[j], Pulse, "val")
          BY <3>2, OpTouches
        <4>. QED BY <3>2, <4>1, WillBy, OpTouches
      <3>6. Will(DirPin, "val", Forward(v))'
        <4>1. 1 \in 1..Len(todo') /\ \A j \in 1 + 1..Len(todo') : ~Touches(todo'[j], DirPin, "val")
          BY <3>2, OpTouches
        <4>. QED BY <3>2, <4>1, WillBy, OpTouches
      <3>. QED BY <1>4, <2>1, <2>3, <2>6, <3>3, <3>4, <3>5, <3>6, MotorFrom, ForwardIs
    <2>. QED BY <2>4, <2>5, <2>6
  <1>5. CASE RampMotor
    <2>1. PICK r \in Ramps : todo' = <<SetRamp(r)>> /\ velocity' = velocity
      BY <1>5 DEF RampMotor, SetRamp
    <2>2. PICK v \in Velocities : v = velocity
      BY <1>5 DEF RampMotor, TypeInv
    <2>3. velocity # None /\ kind # "none" /\ (kind # "lite" => map[PinB] = "pin")
      BY <1>1, <1>5, MotorHas DEF RampMotor, Motor, Called
    <2>4. Len(todo') = 1 /\ todo'[1] = SetRamp(r)
      BY <2>1
    <2>5. \A i \in 1..Len(todo') :
            /\ todo'[i].do # "delete" /\ ~Touches(todo'[i], Pulse, "val")
            /\ ~Touches(todo'[i], DirPin, "dir") /\ ~Touches(todo'[i], DirPin, "val")
      BY <2>4, OpFields, OpTouches
    <2>6. /\ Will(DirPin, "dir", "Out") /\ Will(Pulse, "val", Magnitude(v))
          /\ v > 0 => Will(DirPin, "val", "Hi")
          /\ v < 0 => Will(DirPin, "val", "Low")
      BY <2>2, <2>3 DEF Motor
    <2>7. kind # "lite" => Made(PinB)'
      BY <1>1, <2>3 DEF Made, Called, Object
    <2>8. /\ Will(DirPin, "dir", "Out")' /\ Will(Pulse, "val", Magnitude(v))'
          /\ v > 0 => Will(DirPin, "val", "Hi")'
          /\ v < 0 => Will(DirPin, "val", "Low")'
      BY <1>1, <2>5, <2>6, WillStay
    <2>. QED BY <2>1, <2>2, <2>3, <2>5, <2>7, <2>8, MotorFrom
  <1>6. CASE DeleteMotor
    BY <1>6 DEF DeleteMotor, Motor
  <1>7. CASE PinCall
    <2>1. velocity = None /\ velocity' = None
      BY <1>7 DEF PinCall, Motor
    <2>. QED BY <2>1 DEF Motor
  <1>. QED BY <1>3, <1>4, <1>5, <1>6, <1>7 DEF MotorCall

(* A step of the motor's own that does not finish an operation, or does.   *)
LEMMA MotorKept ==
  ASSUME TypeInv, Motor, todo' = todo, UNCHANGED <<kind, velocity>>,
         \A p \in Pins : Object(p) => Object(p)' /\ staging'[p] = staging[p]
  PROVE  Motor'
  <1>1. CASE velocity = None
    BY <1>1 DEF Motor
  <1>2. CASE velocity # None
    <2>1. PICK v \in Velocities : v = velocity
      BY <1>2 DEF TypeInv
    <2>2. /\ kind # "none" /\ \A i \in 1..Len(todo) : todo[i].do # "delete"
          /\ kind # "lite" => Made(PinB)
          /\ Will(DirPin, "dir", "Out") /\ Will(Pulse, "val", Magnitude(v))
          /\ v > 0 => Will(DirPin, "val", "Hi")
          /\ v < 0 => Will(DirPin, "val", "Low")
      BY <1>2, <2>1 DEF Motor
    <2>3. /\ Object(DirPin) => Object(DirPin)' /\ staging'[DirPin] = staging[DirPin]
          /\ Object(PinB) => Object(PinB)' /\ staging'[PinB] = staging[PinB]
          /\ Object(Pulse) => Object(Pulse)' /\ staging'[Pulse] = staging[Pulse]
      BY MotorPins
    <2>4. /\ kind # "lite" => Made(PinB)'
          /\ Will(DirPin, "dir", "Out")' /\ Will(Pulse, "val", Magnitude(v))'
          /\ v > 0 => Will(DirPin, "val", "Hi")'
          /\ v < 0 => Will(DirPin, "val", "Low")'
      BY <2>2, <2>3, WillKept
    <2>. QED BY <2>1, <2>2, <2>4, MotorFrom
  <1>. QED BY <1>1, <1>2

LEMMA MotorFinished ==
  ASSUME TypeInv, Motor, todo # <<>>, Finished, UNCHANGED <<kind, velocity>>,
         \A p \in Pins : Object(p) => Object(p)',
         \A p \in Pins : todo[1].do = "new" /\ todo[1].pin = p => Object(p)',
         \A p \in {DirPin, Pulse}, k \in {"dir", "val"} : p = DirPin \/ k = "val" =>
           IF Touches(todo[1], p, k)
           THEN Object(p)' /\ staging'[p][k] = Gives(todo[1], k)
           ELSE Object(p) => Object(p)' /\ staging'[p][k] = staging[p][k]
  PROVE  Motor'
  <1>1. CASE velocity = None
    BY <1>1 DEF Motor
  <1>2. CASE velocity # None
    <2>1. PICK v \in Velocities : v = velocity
      BY <1>2 DEF TypeInv
    <2>2. /\ kind # "none" /\ \A i \in 1..Len(todo) : todo[i].do # "delete"
          /\ kind # "lite" => Made(PinB)
          /\ Will(DirPin, "dir", "Out") /\ Will(Pulse, "val", Magnitude(v))
          /\ v > 0 => Will(DirPin, "val", "Hi")
          /\ v < 0 => Will(DirPin, "val", "Low")
      BY <1>2, <2>1 DEF Motor
    <2>3. kind # "lite" => Made(PinB)'
      BY <2>2, MotorPins, MadeFinished
    <2>4. Will(DirPin, "dir", "Out")'
      BY <2>2, WillFinished, MotorPins
    <2>5. Will(Pulse, "val", Magnitude(v))'
      BY <2>2, WillFinished, MotorPins
    <2>6. /\ v > 0 => Will(DirPin, "val", "Hi")'
          /\ v < 0 => Will(DirPin, "val", "Low")'
      BY <2>2, WillFinished, MotorPins
    <2>7. \A i \in 1..Len(todo') : todo'[i].do # "delete"
      <3>1. /\ Len(todo) \in Nat \ {0} /\ Len(todo') = Len(todo) - 1
            /\ \A i \in 1..Len(todo') : todo'[i] = todo[i + 1]
        BY FinishFacts DEF Finished
      <3>. SUFFICES ASSUME NEW i \in 1..Len(todo') PROVE todo'[i].do # "delete"
        OBVIOUS
      <3>2. i + 1 \in 1..Len(todo) /\ todo'[i] = todo[i + 1]
        BY <3>1
      <3>. QED BY <2>2, <3>2
    <2>. QED BY <2>1, <2>2, <2>3, <2>4, <2>5, <2>6, <2>7, MotorFrom
  <1>. QED BY <1>1, <1>2

LEMMA NextMotor == ASSUME TypeInv, Control, Plan, Motor, MotorsNext PROVE Motor'
  <1>1. CASE (MotorCall \/ PinCall) /\ UNCHANGED kind
    BY <1>1, CallMotor
  <1>2. CASE Serve /\ Kept
    <2>1. CASE velocity = None \/ main' = "down"
      <3>1. velocity' = None
        BY <1>2, <2>1 DEF Kept
      <3>. QED BY <3>1 DEF Motor
    <2>2. CASE velocity # None /\ main' # "down"
      <3>0. UNCHANGED <<kind, velocity>>
        BY <1>2, <2>2 DEF Kept
      <3>1. main \in Session
        <4>1. SUFFICES ASSUME main \notin Session PROVE FALSE
          OBVIOUS
        <4>2. Len(todo) = 0 /\ \A p \in Pins : map[p] = "none"
          BY <4>1 DEF Control
        <4>3. Will(DirPin, "dir", "Out")
          BY <2>2 DEF Motor
        <4>. QED BY <4>2, <4>3, MotorPins DEF Will, Object
      <3>2. /\ map \in [Pins -> {"none", "base", "pin"}] /\ DOMAIN staging = Pins
            /\ todo # <<>> => /\ Pin = todo[1].pin /\ Pin \in Pins /\ Head(todo) = todo[1]
                              /\ todo[1].do # "delete"
        BY <2>2, PinFacts DEF TypeInv, HostTypes, Motor
      <3>3. main \notin Removing /\ ~Op("delete")
        BY <3>2 DEF Control, Op
      <3>4. CASE Loop \/ RouteAnswer \/ RouteValue \/ GetSend \/ GetEntry \/ GetAnswered
        <4>1. UNCHANGED <<todo, map, staging>> /\ (main' = main \/ main' # "construct")
          BY <3>4 DEF Loop, host, RouteAnswer, RouteValue, GetSend, GetEntry, GetAnswered,
                      MakeEntry, Answered, Goto
        <4>2. \A p \in Pins : Object(p) => Object(p)' /\ staging'[p] = staging[p]
          BY <4>1 DEF Object, Pin
        <4>. QED BY <3>0, <4>1, <4>2, MotorKept
      <3>5. CASE GetMap \/ Derive
        <4>1. /\ UNCHANGED <<todo, staging>> /\ map[Pin] # "pin" /\ Pin \in Pins /\ Pin' = Pin
              /\ map' = [map EXCEPT ![Pin] = map'[Pin]]
              /\ main' = "construct" \/ main' = "derive"
          BY <3>2, <3>5 DEF GetMap, Derive, Remap, Goto, Control, Adding, Session, Op, Pin
        <4>2. \A p \in Pins : Object(p) => Object(p)' /\ staging'[p] = staging[p]
          BY <3>2, <4>1 DEF Object
        <4>. QED BY <3>0, <4>1, <4>2, MotorKept
      <3>6. CASE Construct
        <4>1. /\ Finished /\ main = "construct" /\ main' = "idle" /\ todo # <<>>
              /\ todo[1].do = "new" /\ Pin = todo[1].pin /\ Pin \in Pins /\ map[Pin] = "pin"
              /\ map' = map
          BY <3>6, ConstructFacts
        <4>2. PICK s \in Settings(Pin) : /\ Pin \in Gpio \cup Pwm => s = todo[1].to
                                         /\ staging' = [staging EXCEPT ![Pin] = s]
          BY <3>6, ConstructFacts
        <4>3. /\ \A p \in Pins : Object(p) => Object(p)' /\ p # Pin
              /\ \A p \in Pins : todo[1].pin = p => Object(p)'
          BY <4>1 DEF Object
        <4>4. /\ staging'[Pin] = s
              /\ \A p \in Pins : p # Pin => staging'[p] = staging[p]
          BY <3>2, <4>1, <4>2
        <4>5. \A p \in {DirPin, Pulse}, k \in {"dir", "val"} :
                IF Touches(todo[1], p, k)
                THEN Object(p)' /\ staging'[p][k] = Gives(todo[1], k)
                ELSE Object(p) => Object(p)' /\ staging'[p][k] = staging[p][k]
          BY <4>1, <4>2, <4>3, <4>4, MotorPins DEF Touches, Gives
        <4>. QED BY <3>0, <4>1, <4>3, <4>5, MotorFinished
      <3>7. CASE SetState
        <4>1. /\ Finished /\ main = "idle" /\ main' = "idle" /\ todo # <<>> /\ Op("set")
              /\ todo[1].do = "set" /\ Pin = todo[1].pin /\ Pin \in Pins /\ map' = map
              /\ staging' = [staging EXCEPT ![Pin][Head(todo).part] = Head(todo).to]
          BY <3>2, <3>7 DEF SetState, Finished, Goto, Op
        <4>2. /\ map[Pin] = "pin" /\ staging[Pin] \in Settings(Pin)
              /\ staging'[Pin] = [staging[Pin] EXCEPT ![todo[1].part] = todo[1].to]
              /\ todo[1].part \in DOMAIN staging[Pin]
              /\ \A p \in Pins : p # Pin => staging'[p] = staging[p]
          BY <4>1, StagedFacts
        <4>3. \A p \in Pins : Object(p) => Object(p)'
          BY <4>1, <4>2 DEF Object
        <4>4. \A p \in Pins : p = todo[1].pin => Object(p)'
          BY <4>1, <4>2 DEF Object
        <4>5. ASSUME NEW p \in {DirPin, Pulse}, NEW k \in {"dir", "val"}, p = DirPin \/ k = "val"
              PROVE  IF Touches(todo[1], p, k)
                     THEN Object(p)' /\ staging'[p][k] = Gives(todo[1], k)
                     ELSE Object(p) => Object(p)' /\ staging'[p][k] = staging[p][k]
          <5>1. p \in Pins /\ (p \in Gpio \/ (p \in Pwm /\ k = "val"))
            BY <4>5, MotorPins
          <5>2. CASE p # Pin
            BY <4>1, <4>2, <4>3, <5>1, <5>2 DEF Touches
          <5>3. CASE p = Pin
            <6>1. k \in DOMAIN staging[p]
              <7>1. p \in Gpio => staging[p] \in [dir : {"In", "Out"}, val : Levels]
                BY <4>2, <5>3, GpioFacts
              <7>2. p \in Pwm => staging[p] \in [val : Speeds, ramp : Ramps]
                BY <4>2, <5>3, PwmFacts
              <7>. QED BY <5>1, <7>1, <7>2
            <6>2. staging'[p][k] = IF k = todo[1].part THEN todo[1].to ELSE staging[p][k]
              BY <4>2, <5>3, <6>1
            <6>. QED BY <4>1, <4>4, <5>1, <5>3, <6>2 DEF Touches, Gives
          <5>. QED BY <5>2, <5>3
        <4>. QED BY <3>0, <4>1, <4>3, <4>5, MotorFinished
      <3>8. CASE GetTwice \/ ReturnSend \/ ReturnEntry \/ ReturnAnswered \/ ReturnMap
        BY <2>2, <3>3, <3>8 DEF GetTwice, End, ReturnSend, ReturnEntry, ReturnAnswered, ReturnMap,
                                MakeEntry, Answered, Removing
      <3>9. CASE Connect \/ Start \/ ReaderDies \/ Quit
        BY <2>2, <3>1, <3>9 DEF Connect, Ping, ReadPong, GiveUp, SendReset, ReadReset, NotReset,
                                Start, ReaderDies, Quit, End, Session
      <3>. QED BY <1>2, <3>4, <3>5, <3>6, <3>7, <3>8, <3>9 DEF Serve, Operate, Reader
    <2>. QED BY <2>1, <2>2
  <1>. QED BY <1>1, <1>2 DEF MotorsNext

=============================================================================
