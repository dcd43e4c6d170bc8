----------------------------- MODULE SamDaemon ------------------------------
(***************************************************************************)
(* clank/SAM: the firmware of the SAM, the board that owns the pins.  Its  *)
(* loop reports the pins that have changed and obeys the lines it gets.    *)
(*                                                                         *)
(* A line is a record.  To the host: pin, says (Enabled, Disabled, value)  *)
(* and, for a value, is (what it says).  From the host: pin, do (enable,   *)
(* disable, set) and, for a set, to.  pin is None in Ping and Reset, in    *)
(* what answers them, and in Junk: a line that names nothing known.        *)
(***************************************************************************)
EXTENDS Integers, Sequences

CONSTANTS Gpio, Adc, Pwm,  \* the pins, by kind
          Order,           \* the order in which ReportStatus visits them
          Room,            \* lines that TxBuf holds
          Readings,        \* what analogRead may find, in percent
          MaxLines,        \* lines that may wait in each direction
          None

Pins   == Gpio \cup Adc \cup Pwm
Levels == {"Hi", "Low"}

ASSUME PinAssumption ==
  /\ Gpio \cap Adc = {} /\ Gpio \cap Pwm = {} /\ Adc \cap Pwm = {}
  /\ Order \in Seq(Pins) /\ Room \in Nat
  /\ Readings \subseteq 0..99 /\ MaxLines \in Nat
  /\ \A p \in Pins : \E i \in 1..Len(Order) : Order[i] = p
  /\ None \notin Pins

VARIABLES
  enabled,  \* Enabled
  shown,    \* LastReportedEnabled
  st,       \* what a pin is set to: Direction and Value; Threshold;
            \* PwmValue, SetPoint and RampSpeed
  rep,      \* the last value reported, None for the -1 of Init
  duty,     \* what analogWrite drives a PWM pin with, 0 if it does not
  cut,      \* (history) the PWM pin was disabled while on its way
  spoilt,   \* text without a newline has been written to the host
  toSam, toHost  \* the serial line, in each direction

daemon == <<enabled, shown, st, rep, duty, cut, spoilt>>

Says(p, what)  == [pin |-> p, says |-> what]
Request(p, do) == [pin |-> p, do |-> do]

AtReset(p) == CASE p \in Gpio -> [dir |-> "In", val |-> "Hi"]
                [] p \in Adc  -> [thresh |-> 5]
                [] p \in Pwm  -> [val |-> 0, set |-> 0, ramp |-> -1]
Unreported(p) == IF p \in Adc THEN [thresh |-> 5, val |-> 0] ELSE None

(* setup: nothing is enabled; "Done initializing!" has no newline.         *)
DaemonInit ==
  /\ enabled = [p \in Pins |-> FALSE] /\ shown = enabled
  /\ st = [p \in Pins |-> AtReset(p)]
  /\ rep = [p \in Pins |-> Unreported(p)]
  /\ duty = [p \in Pwm |-> 0] /\ cut = [p \in Pwm |-> FALSE]
  /\ spoilt = TRUE /\ toSam = <<>> /\ toHost = <<>>

(* Serial.write of whole lines, which nothing receives unless the host has *)
(* opened the port.                                                        *)
Emit(lines, open) ==
  /\ spoilt' = (spoilt /\ lines = <<>>)
  /\ toHost' = IF ~open THEN <<>>
               ELSE IF spoilt /\ lines # <<>> THEN toHost \o <<Says(None, "Junk")>> \o Tail(lines)
               ELSE toHost \o lines

-----------------------------------------------------------------------------
(* PwmPin_Set: a step towards the set point, RampSpeed long if positive.   *)
PwmPin_Set(s) ==
  IF s.set < 0 \/ s.ramp <= 0 \/ s.set \in (s.val - s.ramp)..(s.val + s.ramp)
  THEN [s EXCEPT !.val = IF s.set < 0 THEN @ ELSE s.set]
  ELSE [s EXCEPT !.val = IF s.set > @ THEN @ + s.ramp ELSE @ - s.ramp]

(* What it drives the pin with: it writes only when it moves.              *)
Driven(p, s) == IF s.set # s.val /\ s.set >= 0 THEN PwmPin_Set(s).val ELSE duty[p]

-----------------------------------------------------------------------------
(* A visit of *_Report to pin p, which finds level[p] or analog[p] there.  *)
Visited(p) == enabled[p] \/ shown[p]

(* Mutant: the report does not go on with a ramp.                          *)
Refreshed_NoRamp(p, level) ==
  IF p \in Gpio /\ st[p].dir = "In" THEN [st[p] EXCEPT !.val = level[p]] ELSE st[p]

Refreshed(p, level) ==
  IF p \in Pwm THEN PwmPin_Set(st[p])
  ELSE IF p \in Gpio /\ st[p].dir = "In" THEN [st[p] EXCEPT !.val = level[p]]
  ELSE st[p]

Value(p, level, analog) ==
  LET s == Refreshed(p, level)
  IN  CASE p \in Gpio -> s
        [] p \in Adc  -> [thresh |-> s.thresh, val |-> analog[p]]
        [] p \in Pwm  -> [val |-> s.val, ramp |-> s.ramp]

Differs(p, v) ==
  IF p \in Adc THEN \/ v.thresh # rep[p].thresh
                    \/ v.val - rep[p].val \notin (-v.thresh)..v.thresh
  ELSE v # rep[p]

SaysValue(p, level, analog) ==
  enabled[p] /\ shown[p] /\ Differs(p, Value(p, level, analog))

Line(p, level, analog) ==
  IF enabled[p] # shown[p]
  THEN Says(p, IF enabled[p] THEN "Enabled" ELSE "Disabled")
  ELSE [pin |-> p, says |-> "value", is |-> Value(p, level, analog)]

(* What a report does that gets as far as the pins in reached.             *)
Visit(reached, level, analog) ==
  /\ st' = [p \in Pins |-> IF p \in reached /\ Visited(p) THEN Refreshed(p, level) ELSE st[p]]
  /\ duty' = [p \in Pwm |-> IF p \in reached /\ Visited(p) THEN Driven(p, st[p]) ELSE duty[p]]
  /\ rep' = [p \in Pins |-> IF p \in reached /\ SaysValue(p, level, analog)
                            THEN Value(p, level, analog) ELSE rep[p]]
  /\ shown' = [p \in Pins |-> IF p \in reached THEN enabled[p] ELSE shown[p]]

(* The pins of a set in the order in which they are visited.               *)
Place == [p \in Pins |-> CHOOSE i \in 1..Len(Order) : Order[i] = p]
Queue(S) == {q \in UNION {[1..n -> S] : n \in 0..Len(Order)} :
               /\ S = {q[i] : i \in 1..Len(q)}
               /\ \A i, j \in 1..Len(q) : i < j => Place[q[i]] < Place[q[j]]}
Queues == [S \in SUBSET Pins |-> Queue(S)]

Speaks(p, level, analog) == enabled[p] # shown[p] \/ SaysValue(p, level, analog)

(* ReportStatus.  A pin whose line does not fit in TxBuf ends the report:  *)
(* the lines before it are lost, and an error without newline is written.  *)
ReportStatus(open) ==
  \E level \in [{p \in Gpio : Visited(p) /\ st[p].dir = "In"} -> Levels],
     analog \in [{p \in Adc : Visited(p)} -> Readings] :
  \E speakers \in Queues[{p \in Pins : Speaks(p, level, analog)}] :
    /\ IF Len(speakers) > Room
       THEN /\ Visit({p \in Pins : Place[p] <= Place[speakers[Room + 1]]}, level, analog)
            /\ spoilt' = TRUE /\ UNCHANGED toHost
       ELSE /\ Len(toHost) + Len(speakers) <= MaxLines
            /\ Visit(Pins, level, analog)
            /\ Emit([i \in 1..Len(speakers) |-> Line(speakers[i], level, analog)], open)
    /\ UNCHANGED <<enabled, cut, toSam>>

-----------------------------------------------------------------------------
(* ProcessMessage.                                                         *)
Process(do) == toSam # <<>> /\ Head(toSam).do = do /\ toSam' = Tail(toSam)

Answer(what, open) == Len(toHost) < MaxLines /\ Emit(<<Says(None, what)>>, open)

ProcessPing(open) ==
  /\ Process("Ping") /\ Answer("Pong", open)
  /\ UNCHANGED <<enabled, shown, st, rep, duty, cut>>

(* Mutant: it answers, but without ResetAll.                               *)
ProcessReset_Nothing(open) ==
  /\ Process("Reset") /\ Answer("Reset", open)
  /\ UNCHANGED <<enabled, shown, st, rep, duty, cut>>

ProcessReset(open) ==
  /\ Process("Reset") /\ Answer("Reset", open)
  /\ enabled' = [p \in Pins |-> FALSE] /\ shown' = enabled'
  /\ st' = [p \in Pins |-> AtReset(p)]
  /\ rep' = [p \in Pins |-> Unreported(p)]
  /\ duty' = [p \in Pwm |-> 0] /\ cut' = [p \in Pwm |-> FALSE]

ProcessRequest(p, do) ==
  /\ Process(do) /\ Head(toSam).pin = p
  /\ UNCHANGED <<shown, rep, spoilt, toHost>>

(* PwmPin_Enable: from 1 percent to 0, at once.                            *)
ProcessEnable(p) ==
  /\ ProcessRequest(p, "enable")
  /\ enabled' = [enabled EXCEPT ![p] = TRUE]
  /\ IF p \in Pwm THEN /\ st' = [st EXCEPT ![p] = [val |-> 0, set |-> 0, ramp |-> -1]]
                       /\ duty' = [duty EXCEPT ![p] = 0]
                       /\ cut' = [cut EXCEPT ![p] = FALSE]
     ELSE UNCHANGED <<st, duty, cut>>

(* Mutant: a PWM pin goes on being driven.                                 *)
ProcessDisable_Driven(p) ==
  /\ ProcessRequest(p, "disable")
  /\ enabled' = [enabled EXCEPT ![p] = FALSE]
  /\ st' = IF p \in Gpio THEN [st EXCEPT ![p] = [dir |-> "In", val |-> "Low"]] ELSE st
  /\ UNCHANGED <<duty, cut>>

(* A GPIO pin becomes an input; a PWM pin stops being driven.              *)
ProcessDisable(p) ==
  /\ ProcessRequest(p, "disable")
  /\ enabled' = [enabled EXCEPT ![p] = FALSE]
  /\ st' = IF p \in Gpio THEN [st EXCEPT ![p] = [dir |-> "In", val |-> "Low"]] ELSE st
  /\ duty' = [q \in Pwm |-> IF q = p THEN 0 ELSE duty[q]]
  /\ cut' = [q \in Pwm |-> IF q = p THEN st[p].val # st[p].set ELSE cut[q]]

(* Mutant: a threshold of 0 is taken.                                      *)
ProcessSet_Zero(p) ==
  LET to == Head(toSam).to
      pwm == [val |-> st[p].val, set |-> to.val, ramp |-> to.ramp]
  IN  /\ ProcessRequest(p, "set")
      /\ st' = [st EXCEPT ![p] = IF p \in Pwm THEN PwmPin_Set(pwm) ELSE to]
      /\ duty' = [q \in Pwm |-> IF q = p THEN Driven(p, pwm) ELSE duty[q]]
      /\ UNCHANGED <<enabled, cut>>

(* A value; it is taken whether or not the pin is enabled.  A threshold    *)
(* that is not positive is refused.                                        *)
ProcessSet(p) ==
  LET to == Head(toSam).to
      pwm == [val |-> st[p].val, set |-> to.val, ramp |-> to.ramp]
  IN  /\ ProcessRequest(p, "set")
      /\ st' = [st EXCEPT ![p] = CASE p \in Gpio -> to
                                   [] p \in Pwm -> PwmPin_Set(pwm)
                                   [] p \in Adc -> IF to.thresh > 0 THEN to ELSE @]
      /\ duty' = [q \in Pwm |-> IF q = p THEN Driven(p, pwm) ELSE duty[q]]
      /\ UNCHANGED <<enabled, cut>>

ProcessMessage(open) ==
  \/ ProcessPing(open) \/ ProcessReset(open)
  \/ \E p \in Pins : ProcessEnable(p) \/ ProcessDisable(p) \/ ProcessSet(p)
=============================================================================
