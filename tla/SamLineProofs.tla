---------------------------- MODULE SamLineProofs ----------------------------
(***************************************************************************)
(* The rest of the inductive invariant of the SAM and its host: what is    *)
(* under way on the serial line, in both directions, and what both ends    *)
(* may conclude from it.  Then the theorems.                               *)
(***************************************************************************)
EXTENDS SamProofs

-----------------------------------------------------------------------------
(* The handshake.                                                          *)
LEMMA SeqFacts ==
  ASSUME TypeInv
  PROVE  /\ Len(toSam) \in Nat /\ (toSam = <<>> <=> Len(toSam) = 0)
         /\ Len(toHost) \in Nat /\ (toHost = <<>> <=> Len(toHost) = 0)
         /\ \A i \in 1..Len(toSam) : toSam[i] \in Requests
         /\ \A i \in 1..Len(toHost) : toHost[i] \in Lines
  BY LenProperties, EmptySeq, ElementOfSeq DEF TypeInv, SerialTypes

(* No report says Reset.                                                   *)
LEMMA ReportSays ==
  ASSUME TypeInv, Open, NEW reached \in SUBSET Pins,
         NEW level \in LevelsFound,
         NEW analog \in AnalogFound,
         Report(reached, level, analog)
  PROVE  /\ Len(toHost') \in Nat /\ Len(toHost) <= Len(toHost')
         /\ \A i \in 1..Len(toHost) : i \in 1..Len(toHost') /\ toHost'[i] = toHost[i]
         /\ \A i \in 1..Len(toHost') :
              \/ i \in 1..Len(toHost)
              \/ i \in Len(toHost) + 1..Len(toHost') /\ toHost'[i] = Junk
              \/ /\ i \in Len(toHost) + 1..Len(toHost')
                 /\ \E p \in reached : /\ Speaks(p, level, analog)
                                       /\ toHost'[i] = Line(p, level, analog)
                                       /\ toHost'[i].pin = p
                 /\ toHost'[i].says \in {"Enabled", "Disabled", "value"}
  <1>1. /\ Heard(reached, level, analog) /\ toHost' \in Seq(Lines)
        /\ Len(toHost) \in Nat /\ Len(toHost') \in Nat /\ DaemonTypes
    BY SeqFacts, LenProperties DEF Report, TypeInv
  <1>2. Len(toHost) <= Len(toHost') /\ \A i \in 1..Len(toHost) : toHost'[i] = toHost[i]
    BY <1>1 DEF Heard
  <1>3. ASSUME NEW i \in Len(toHost) + 1..Len(toHost')
        PROVE  \/ toHost'[i] = Junk
               \/ /\ \E p \in reached : /\ Speaks(p, level, analog)
                                       /\ toHost'[i] = Line(p, level, analog)
                                       /\ toHost'[i].pin = p
                  /\ toHost'[i].says \in {"Enabled", "Disabled", "value"}
    <2>1. CASE toHost'[i] # Junk
      <3>1. PICK p \in reached : Speaks(p, level, analog) /\ toHost'[i] = Line(p, level, analog)
        BY <1>1, <2>1 DEF Heard
      <3>2. p \in Pins
        OBVIOUS
      <3>. QED BY <1>1, <3>1, <3>2, LineOf
    <2>. QED BY <2>1
  <1>4. \A i \in 1..Len(toHost') : i \in 1..Len(toHost) \/ i \in Len(toHost) + 1..Len(toHost')
    BY <1>1
  <1>. QED BY <1>1, <1>2, <1>3, <1>4

LEMMA JunkFacts == Junk.says = "Junk" /\ Junk.pin = None
  BY DEF Junk, Says

LEMMA LoopGreeting == ASSUME TypeInv, Greeting, Loop PROVE Greeting'
  <1>0. main' = main
    BY DEF Loop, host
  <1>1. CASE main \notin {"ping", "pong", "reset", "acked"}
    BY <1>0, <1>1 DEF Greeting
  <1>2. CASE main \in {"ping", "pong", "reset", "acked"} /\ ReportStatus(Open)
    <2>0. Open
      BY <1>2 DEF Open
    <2>1. PICK reached \in SUBSET Pins,
               level \in LevelsFound,
               analog \in AnalogFound :
                 Report(reached, level, analog)
      BY <1>2, ReportFacts
    <2>2. toSam' = toSam /\ enabled' = enabled
      BY <2>1 DEF Report
    <2>3. NoReset => NoReset'
      <3>. SUFFICES ASSUME NoReset, NEW i \in 1..Len(toHost') PROVE toHost'[i].says # "Reset"
        BY DEF NoReset
      <3>1. CASE i \in 1..Len(toHost)
        BY <2>0, <2>1, <3>1, ReportSays DEF NoReset
      <3>2. CASE toHost'[i] = Junk
        BY <3>2, JunkFacts
      <3>. QED BY <2>0, <2>1, <3>1, <3>2, ReportSays
    <2>4. CASE main \in {"ping", "pong", "reset"}
      BY <1>0, <2>2, <2>3, <2>4 DEF Greeting
    <2>5. CASE main = "acked" /\ toSam # <<>>
      BY <1>0, <2>2, <2>3, <2>5 DEF Greeting
    <2>6. CASE main = "acked" /\ toSam = <<>>
      <3>1. Quiet /\ Still /\ ~spoilt /\ \A i \in 1..Len(toHost) - 1 : toHost[i].says # "Reset"
        BY <2>6 DEF Greeting
      <3>2. \A p \in Pins : ~Visited(p) /\ ~Speaks(p, level, analog)
        BY <3>1 DEF Quiet, Visited, Speaks, SaysValue, TypeInv, DaemonTypes
      <3>3. toHost' = toHost /\ spoilt' = spoilt
        BY <2>0, <2>1, <3>2 DEF Report, Heard
      <3>4. \A p \in Pins : st'[p] = st[p] /\ shown'[p] = FALSE
        BY <2>1, <3>1, <3>2 DEF Report, Visit, Quiet
      <3>5. \A p \in Pwm : p \in Pins /\ duty'[p] = duty[p]
        BY <2>1, <3>2, PwmFacts DEF Report, Visit
      <3>6. Quiet' /\ Still'
        BY <2>2, <3>1, <3>4, <3>5 DEF Quiet, Still
      <3>. QED BY <1>0, <2>2, <2>6, <3>1, <3>3, <3>6 DEF Greeting
    <2>. QED BY <1>2, <2>4, <2>5, <2>6
  <1>3. CASE main \in {"ping", "pong", "reset", "acked"} /\ ProcessMessage(Open)
    <2>0. Open /\ Len(toHost) \in Nat /\ Len(toSam) \in Nat
      BY <1>3, SeqFacts DEF Open
    <2>1. toSam # <<>>
      BY <1>3 DEF ProcessMessage, ProcessPing, ProcessReset, ProcessEnable, ProcessDisable,
                  ProcessSet, ProcessRequest, Process
    <2>2. 1 \in 1..Len(toSam) /\ Head(toSam) = toSam[1]
      BY <2>0, <2>1, SeqFacts, TailFacts DEF TypeInv, SerialTypes
    <2>3. /\ NoReset
          /\ \/ main # "acked" /\ \A i \in 1..Len(toSam) : toSam[i].do = "Ping"
             \/ /\ main = "acked" /\ toSam[Len(toSam)].do = "Reset"
                /\ \A i \in 1..Len(toSam) - 1 : toSam[i].do = "Ping"
      BY <1>3, <2>1 DEF Greeting
    <2>4. /\ toSam[1].do \in {"Ping", "Reset"}
          /\ toSam[1].do = "Ping" /\ main = "acked" => Len(toSam) # 1
          /\ toSam[1].do = "Reset" => main = "acked" /\ Len(toSam) = 1
      <3>0. \A n \in Nat : 1 \in 1..n => n = 1 \/ 1 \in 1..n - 1
        OBVIOUS
      <3>1. Len(toSam) = 1 \/ 1 \in 1..Len(toSam) - 1
        BY <2>0, <2>2, <3>0
      <3>. QED BY <2>2, <2>3, <3>1
    <2>5. CASE ProcessPing(Open)
      <3>1. Process("Ping") /\ Answer("Pong", Open)
        BY <2>5 DEF ProcessPing
      <3>2. /\ Len(toSam') = Len(toSam) - 1 /\ toSam[1].do = "Ping"
            /\ \A i \in 1..Len(toSam') : toSam'[i] = toSam[i + 1]
        BY <3>1, ProcessFacts
      <3>3. NoReset'
        <4>1. /\ Len(toHost') = Len(toHost) + 1
              /\ \A i \in 1..Len(toHost) : toHost'[i] = toHost[i]
              /\ toHost'[Len(toHost) + 1] \in {Says(None, "Pong"), Junk}
          BY <2>0, <3>1, AnswerFacts
        <4>2. toHost'[Len(toHost) + 1].says # "Reset"
          BY <4>1, JunkFacts DEF Says
        <4>3. \A i \in 1..Len(toHost') : i \in 1..Len(toHost) \/ i = Len(toHost) + 1
          BY <2>0, <4>1
        <4>. QED BY <2>3, <4>1, <4>2, <4>3 DEF NoReset
      <3>4. CASE main # "acked"
        <4>1. \A i \in 1..Len(toSam') : i + 1 \in 1..Len(toSam)
          BY <2>0, <3>2
        <4>2. \A i \in 1..Len(toSam') : toSam'[i].do = "Ping"
          BY <2>3, <3>2, <3>4, <4>1
        <4>. QED BY <1>0, <1>3, <3>3, <3>4, <4>2 DEF Greeting
      <3>5. CASE main = "acked"
        <4>1. /\ \A i \in 1..Len(toSam') - 1 : i + 1 \in 1..Len(toSam) - 1 /\ i \in 1..Len(toSam')
              /\ Len(toSam') \in 1..Len(toSam') /\ Len(toSam') + 1 = Len(toSam)
          BY <2>0, <2>2, <2>4, <3>2, <3>5
        <4>2. \A i \in 1..Len(toSam') - 1 : toSam'[i].do = "Ping"
          BY <2>3, <3>2, <3>5, <4>1
        <4>3. toSam'[Len(toSam')].do = "Reset"
          BY <2>3, <3>2, <3>5, <4>1
        <4>4. toSam' # <<>>
          BY <4>1
        <4>. QED BY <1>0, <3>3, <3>5, <4>2, <4>3, <4>4 DEF Greeting
      <3>. QED BY <3>4, <3>5
    <2>6. CASE ProcessReset(Open)
      <3>1. Process("Reset") /\ Answer("Reset", Open)
        BY <2>6 DEF ProcessReset
      <3>2. toSam' = <<>> /\ main = "acked"
        BY <2>4, <3>1, ProcessFacts
      <3>3. Quiet'
        BY <2>6 DEF ProcessReset, Quiet
      <3>4. Still'
        <4>1. \A p \in Pwm : p \in Pins /\ AtReset(p) = [val |-> 0, set |-> 0, ramp |-> -1]
          BY PwmFacts
        <4>2. \A p \in Pwm : duty'[p] = 0 /\ st'[p] = AtReset(p)
          BY <2>6, <4>1 DEF ProcessReset
        <4>. QED BY <4>1, <4>2 DEF Still
      <3>5. /\ Len(toHost') = Len(toHost) + 1 /\ spoilt' = FALSE
            /\ \A i \in 1..Len(toHost) : toHost'[i] = toHost[i]
        BY <2>0, <3>1, AnswerFacts
      <3>6. \A i \in 1..Len(toHost') - 1 : toHost'[i].says # "Reset"
        <4>1. \A i \in 1..Len(toHost') - 1 : i \in 1..Len(toHost)
          BY <2>0, <3>5
        <4>. QED BY <2>3, <3>5, <4>1 DEF NoReset
      <3>. QED BY <1>0, <3>2, <3>3, <3>4, <3>5, <3>6 DEF Greeting
    <2>7. CASE \E p \in Pins : ProcessEnable(p) \/ ProcessDisable(p) \/ ProcessSet(p)
      BY <2>2, <2>4, <2>7 DEF ProcessEnable, ProcessDisable, ProcessSet, ProcessRequest, Process
    <2>. QED BY <1>3, <2>5, <2>6, <2>7 DEF ProcessMessage
  <1>. QED BY <1>1, <1>2, <1>3 DEF Loop

LEMMA NextGreeting == ASSUME TypeInv, Control, Greeting, MotorsNext PROVE Greeting'
  <1>1. CASE main' \notin {"ping", "pong", "reset", "acked"}
    BY <1>1 DEF Greeting
  <1>2. CASE Loop
    BY <1>2, LoopGreeting
  <1>3. CASE Start
    <2>1. toSam' = <<>> /\ toHost' = <<>> /\ main' = "ping"
      BY <1>3 DEF Start, Control
    <2>. QED BY <2>1 DEF Greeting, NoReset
  <1>4. CASE Ping
    <2>1. /\ main = "ping" /\ main' = "pong" /\ toHost' = toHost
          /\ Send(Request(None, "Ping")) /\ Request(None, "Ping").do = "Ping"
      BY <1>4 DEF Ping, Request
    <2>2. /\ Len(toSam) \in Nat /\ Len(toSam') = Len(toSam) + 1
          /\ toSam'[Len(toSam) + 1].do = "Ping"
          /\ \A i \in 1..Len(toSam) : toSam'[i] = toSam[i]
      BY <2>1, SendFacts, RequestTypes
    <2>3. \A i \in 1..Len(toSam') : i \in 1..Len(toSam) \/ i = Len(toSam) + 1
      BY <2>2
    <2>. QED BY <2>1, <2>2, <2>3 DEF Greeting, NoReset
  <1>5. CASE ReadPong
    <2>1. /\ main = "pong" /\ main' \in {"ping", "reset"} /\ toSam' = toSam
          /\ Len(toHost) \in Nat \ {0} /\ Len(toHost') = Len(toHost) - 1
          /\ \A i \in 1..Len(toHost') : toHost'[i] = toHost[i + 1]
      BY <1>5, ReadFacts DEF ReadPong, Goto
    <2>2. \A i \in 1..Len(toHost') : i + 1 \in 1..Len(toHost)
      BY <2>1
    <2>. QED BY <2>1, <2>2 DEF Greeting, NoReset
  <1>6. CASE SendReset
    <2>1. /\ main = "reset" /\ main' = "acked" /\ toHost' = toHost
          /\ Send(Request(None, "Reset")) /\ Request(None, "Reset").do = "Reset"
      BY <1>6 DEF SendReset, Goto, Request
    <2>2. /\ Len(toSam) \in Nat /\ Len(toSam') = Len(toSam) + 1 /\ toSam' # <<>>
          /\ toSam'[Len(toSam')].do = "Reset"
          /\ \A i \in 1..Len(toSam) : toSam'[i] = toSam[i]
      BY <2>1, SendFacts, RequestTypes
    <2>3. \A i \in 1..Len(toSam') - 1 : i \in 1..Len(toSam)
      BY <2>2
    <2>. QED BY <2>1, <2>2, <2>3 DEF Greeting, NoReset
  <1>7. CASE MotorCall \/ PinCall \/ Operate \/ Reader \/ Quit \/ GiveUp \/ NotReset \/ ReadReset
    <2>1. main' \notin {"ping", "pong", "reset", "acked"}
      <3>1. MotorCall \/ PinCall => main' = "idle"
        BY CallFacts DEF Called
      <3>2. End => main' = "down"
        BY DEF End
      <3>3. Operate => main' \in Session \cup {"down"}
        BY <3>2 DEF Operate, GetSend, GetTwice, GetEntry, MakeEntry, GetAnswered, Answered, GetMap,
                    Derive, Remap, Construct, SetState, ReturnSend, ReturnEntry, ReturnAnswered,
                    ReturnMap, Finished, Goto, Session
      <3>4. Reader => main' \in Session \cup {"down"}
        BY <3>2 DEF Reader, RouteAnswer, RouteValue, ReaderDies
      <3>. QED BY <1>7, <3>1, <3>2, <3>3, <3>4 DEF Session, Quit, GiveUp, NotReset, ReadReset
    <2>. QED BY <1>1, <2>1
  <1>. QED BY <1>2, <1>3, <1>4, <1>5, <1>6, <1>7 DEF MotorsNext, Serve, Connect

(* The line that ends the handshake is the answer to the Reset: nothing    *)
(* else can say so, and by then everything before it has been read.        *)
LEMMA ResetRead ==
  ASSUME TypeInv, Greeting, ReadReset
  PROVE  /\ toSam = <<>> /\ toHost' = <<>> /\ Quiet /\ Still /\ ~spoilt
         /\ UNCHANGED <<daemon, toSam, todo, entry, map, staging, cache, told>>
         /\ main = "acked" /\ main' = "idle"
  <1>1. /\ main = "acked" /\ main' = "idle" /\ ReadLine /\ Head(toHost).says = "Reset"
        /\ UNCHANGED <<daemon, toSam, todo, entry, map, staging, cache, told>>
    BY DEF ReadReset
  <1>2. /\ toHost[1].says = "Reset" /\ Len(toHost) \in Nat \ {0}
        /\ Len(toHost) = 1 => toHost' = <<>>
    BY <1>1, ReadFacts
  <1>3. 1 \in 1..Len(toHost)
    BY <1>2
  <1>4. /\ toSam = <<>> /\ Quiet /\ Still /\ ~spoilt
        /\ \A i \in 1..Len(toHost) - 1 : toHost[i].says # "Reset"
    BY <1>1, <1>2, <1>3 DEF Greeting, NoReset
  <1>5. Len(toHost) = 1
    <2>0. \A n \in Nat \ {0} : n # 1 => 1 \in 1..n - 1
      OBVIOUS
    <2>1. Len(toHost) # 1 => 1 \in 1..Len(toHost) - 1
      BY <1>2, <2>0
    <2>. QED BY <1>2, <1>4, <2>1
  <1>. QED BY <1>1, <1>2, <1>4, <1>5

-----------------------------------------------------------------------------
(* What the daemon's loop keeps of the protocol.                           *)
LEMMA HostKept ==
  ASSUME UNCHANGED host
  PROVE  /\ (main \in Session)' = (main \in Session)
         /\ (Wanted' <=> Wanted) /\ (Waiting' <=> Waiting) /\ (Done' <=> Done)
         /\ \A p : (Held(p)' <=> Held(p)) /\ (Current(p)' <=> Current(p))
         /\ \A p : (Object(p)' <=> Object(p))
         /\ UNCHANGED <<entry, main, todo, map, staging, cache, told>>
  BY DEF host, Wanted, Waiting, Done, Held, Current, Object, Pin

(* Once a report has been dropped, that shows until the session ends.      *)
LEMMA ReportBroken ==
  ASSUME TypeInv, Open, ~Intact, NEW reached \in SUBSET Pins,
         NEW level \in LevelsFound,
         NEW analog \in AnalogFound,
         Report(reached, level, analog)
  PROVE  ~Intact'
  <1>1. CASE spoilt
    BY <1>1, JunkFacts DEF Report, Heard, Intact
  <1>2. CASE \E i \in 1..Len(toHost) : toHost[i].says = "Junk"
    BY <1>2, ReportSays DEF Intact
  <1>. QED BY <1>1, <1>2 DEF Intact

LEMMA ReportSilent ==
  ASSUME TypeInv, Open, NEW reached \in SUBSET Pins,
         NEW level \in LevelsFound,
         NEW analog \in AnalogFound,
         Report(reached, level, analog), NEW q \in Pins
  PROVE  /\ enabled[q] = shown[q] =>
              /\ \A i \in 1..Len(toHost') :
                   StatusLine(q, toHost'[i]) => i \in 1..Len(toHost) /\ toHost'[i] = toHost[i]
              /\ shown'[q] = shown[q]
         /\ ~enabled[q] /\ ~shown[q] =>
              \A i \in Len(toHost) + 1..Len(toHost') : toHost'[i].pin # q
         /\ Silent(q) /\ (enabled[q] = shown[q] \/ q \notin reached) => Silent(q)'
         /\ shown'[q] = IF q \in reached THEN enabled[q] ELSE shown[q]
  <1>0. /\ DaemonTypes /\ enabled[q] \in BOOLEAN /\ shown[q] \in BOOLEAN
        /\ shown'[q] = IF q \in reached THEN enabled[q] ELSE shown[q]
        /\ q # None /\ Len(toHost) \in Nat
    BY Kinds, SeqFacts DEF TypeInv, DaemonTypes, Report, Visit
  <1>1. ASSUME NEW i \in 1..Len(toHost'), toHost'[i].pin = q, i \notin 1..Len(toHost)
        PROVE  /\ q \in reached /\ Speaks(q, level, analog)
               /\ enabled[q] = shown[q] => enabled[q] /\ ~StatusLine(q, toHost'[i])
    <2>1. toHost'[i].pin # None
      BY <1>0, <1>1
    <2>2. PICK p \in reached : /\ Speaks(p, level, analog)
                               /\ toHost'[i] = Line(p, level, analog)
                               /\ toHost'[i].pin = p
      BY <1>1, <2>1, ReportSays, JunkFacts
    <2>3. p = q
      BY <1>1, <2>2
    <2>4. enabled[q] = shown[q] => enabled[q] /\ toHost'[i].says = "value"
      BY <1>0, <2>2, <2>3, LineOf
    <2>. QED BY <2>2, <2>3, <2>4 DEF StatusLine
  <1>2. \A i \in 1..Len(toHost) : i \in 1..Len(toHost') /\ toHost'[i] = toHost[i]
    BY ReportSays
  <1>3. enabled[q] = shown[q] =>
          \A i \in 1..Len(toHost') :
            StatusLine(q, toHost'[i]) => i \in 1..Len(toHost) /\ toHost'[i] = toHost[i]
    BY <1>1, <1>2 DEF StatusLine
  <1>4. ~enabled[q] /\ ~shown[q] =>
          \A i \in Len(toHost) + 1..Len(toHost') : toHost'[i].pin # q
    <2>. SUFFICES ASSUME ~enabled[q], ~shown[q], NEW i \in Len(toHost) + 1..Len(toHost')
                  PROVE  toHost'[i].pin # q
      OBVIOUS
    <2>1. i \in 1..Len(toHost') /\ i \notin 1..Len(toHost)
      BY <1>0
    <2>. QED BY <1>0, <1>1, <2>1
  <1>5. Silent(q) /\ q \notin reached => Silent(q)'
    BY <1>1, <1>2 DEF Silent, StatusLine
  <1>6. Silent(q) /\ enabled[q] = shown[q] => Silent(q)'
    BY <1>3 DEF Silent
  <1>. QED BY <1>0, <1>3, <1>4, <1>5, <1>6

LEMMA ReportProtocol ==
  ASSUME TypeInv, Protocol, UNCHANGED host, main \in Session, NEW reached \in SUBSET Pins,
         NEW level \in LevelsFound,
         NEW analog \in AnalogFound,
         Report(reached, level, analog)
  PROVE  Protocol'
  <1>0. /\ Open /\ Asked /\ Said /\ Len(toHost) \in Nat /\ Len(toHost') \in Nat
        /\ \A p \in Pins : IF Current(p) THEN Stage(p) ELSE Agreed(p)
        /\ toSam' = toSam /\ enabled' = enabled
        /\ enabled \in [Pins -> BOOLEAN] /\ shown \in [Pins -> BOOLEAN]
    BY SeqFacts, ReportSays DEF Protocol, Open, Session, Report, TypeInv, DaemonTypes
  <1>1. Asked'
    BY <1>0, HostKept DEF Asked
  <1>2. Said'
    <2>. SUFFICES ASSUME NEW i \in 1..Len(toHost')
                  PROVE  /\ toHost'[i].says \notin {"Pong", "Reset"}
                         /\ toHost'[i].says = "value" =>
                              Held(toHost'[i].pin) \/ Current(toHost'[i].pin)
      BY HostKept DEF Said
    <2>1. CASE i \in 1..Len(toHost)
      BY <1>0, <2>1, ReportSays DEF Said
    <2>2. CASE toHost'[i] = Junk
      BY <2>2, JunkFacts
    <2>3. CASE i \notin 1..Len(toHost) /\ toHost'[i] # Junk
      <3>1. PICK p \in reached : Speaks(p, level, analog) /\ toHost'[i] = Line(p, level, analog)
                                 /\ toHost'[i].pin = p
        BY <1>0, <2>3, ReportSays
      <3>2. p \in Pins /\ toHost'[i].says \in {"Enabled", "Disabled", "value"}
        BY <1>0, <2>3, ReportSays
      <3>3. toHost'[i].says = "value" => enabled[p]
        BY <1>0, <3>1, <3>2, LineOf DEF TypeInv
      <3>. QED BY <1>0, <3>1, <3>2, <3>3 DEF Agreed
    <2>. QED BY <2>1, <2>2, <2>3
  <1>3. ASSUME NEW p \in Pins, ~Current(p) PROVE Agreed(p)'
    <2>1. Agreed(p) /\ enabled[p] = shown[p]
      BY <1>0, <1>3 DEF Agreed
    <2>. QED BY <1>0, <2>1, ReportSilent, HostKept DEF Agreed
  <1>4. ASSUME NEW p \in Pins, Current(p) PROVE Stage(p)'
    <2>0. Stage(p) /\ enabled'[p] = enabled[p] /\ enabled[p] \in BOOLEAN /\ shown[p] \in BOOLEAN
      BY <1>0, <1>4
    <2>1. CASE ~Done /\ Requested(p)
      <3>1. enabled[p] = shown[p] /\ Silent(p)
        BY <2>0, <2>1 DEF Requested
      <3>2. Silent(p)' /\ shown'[p] = shown[p]
        BY <1>0, <3>1, ReportSilent
      <3>. QED BY <1>0, <2>1, <3>2, HostKept DEF Stage, Requested
    <2>2. CASE ~Done /\ Obeyed(p)
      <3>1. CASE p \notin reached
        <4>1. Silent(p)' /\ shown'[p] = shown[p]
          <5>1. Silent(p)
            BY <2>2 DEF Obeyed
          <5>. QED BY <1>0, <3>1, <5>1, ReportSilent
        <4>. QED BY <1>0, <2>2, <4>1, HostKept DEF Stage, Obeyed
      <3>2. CASE p \in reached
        <4>1. shown'[p] = enabled[p] /\ enabled[p] # shown[p] /\ Speaks(p, level, analog)
          BY <1>0, <2>2, <3>2, ReportSilent DEF Obeyed, Speaks
        <4>2. CASE \E i \in 1..Len(toHost') : i \notin 1..Len(toHost) /\ toHost'[i].pin = p
          <5>1. PICK k \in 1..Len(toHost') : k \notin 1..Len(toHost) /\ toHost'[k].pin = p
            BY <4>2
          <5>2. toHost'[k] = Line(p, level, analog)
            <6>1. toHost'[k] # Junk
              BY <5>1, Kinds, JunkFacts
            <6>. QED BY <1>0, <5>1, <6>1, ReportSays
          <5>3. toHost'[k] = Says(p, IF Wanted THEN "Enabled" ELSE "Disabled")
            BY <2>2, <4>1, <5>2 DEF Line, Obeyed
          <5>4. /\ \A i \in 1..Len(toHost) : toHost'[i] = toHost[i]
                /\ \A i, j \in Len(toHost) + 1..Len(toHost') :
                     toHost'[i].pin = toHost'[j].pin => i = j
            BY <1>0 DEF Report, Heard
          <5>5. \A i \in 1..Len(toHost') : i \in 1..Len(toHost) \/ i \in Len(toHost) + 1..Len(toHost')
            BY <1>0
          <5>6. \A i \in 1..Len(toHost') : StatusLine(p, toHost'[i]) => i = k
            BY <2>2, <5>1, <5>4, <5>5 DEF Obeyed, Silent, StatusLine
          <5>7. \A i \in k + 1..Len(toHost') : toHost'[i].pin # p
            <6>1. \A i \in k + 1..Len(toHost') : i \in Len(toHost) + 1..Len(toHost') /\ i # k
              BY <1>0, <5>1
            <6>. QED BY <5>1, <5>4, <5>5, <6>1
          <5>8. Replied(p)'
            BY <1>0, <2>2, <4>1, <5>3, <5>6, <5>7, HostKept DEF Replied, Obeyed
          <5>. QED BY <2>2, <5>8, HostKept DEF Stage
        <4>3. CASE ~\E i \in 1..Len(toHost') : i \notin 1..Len(toHost) /\ toHost'[i].pin = p
          <5>1. Silent(p)'
            BY <1>0, <2>2, <4>3, ReportSays DEF Obeyed, Silent, StatusLine
          <5>2. ~\E i \in Len(toHost) + 1..Len(toHost') : toHost'[i] = Line(p, level, analog)
            <6>1. Line(p, level, analog).pin = p
              BY <4>1, LineOf DEF TypeInv
            <6>2. \A i \in Len(toHost) + 1..Len(toHost') :
                    i \in 1..Len(toHost') /\ i \notin 1..Len(toHost)
              BY <1>0
            <6>. QED BY <4>3, <6>1, <6>2
          <5>3. ~Intact'
            BY <1>0, <4>1, <5>2, JunkFacts DEF Report, Heard, Intact
          <5>. QED BY <1>0, <2>2, <4>1, <5>1, <5>3, HostKept DEF Stage, Over, Obeyed
        <4>. QED BY <4>2, <4>3
      <3>. QED BY <3>1, <3>2
    <2>3. CASE ~Done /\ Replied(p)
      <3>1. enabled[p] = shown[p]
        BY <2>0, <2>3 DEF Replied
      <3>2. PICK k \in 1..Len(toHost) :
              /\ toHost[k] = Says(p, IF Wanted THEN "Enabled" ELSE "Disabled")
              /\ \A i \in 1..Len(toHost) : StatusLine(p, toHost[i]) => i = k
              /\ ~Wanted => \A i \in k + 1..Len(toHost) : toHost[i].pin # p
        BY <2>3 DEF Replied
      <3>3. k \in 1..Len(toHost') /\ toHost'[k] = toHost[k]
        BY <1>0, ReportSays
      <3>4. \A i \in 1..Len(toHost') : StatusLine(p, toHost'[i]) => i = k
        BY <1>0, <3>1, <3>2, ReportSilent
      <3>5. ~Wanted => \A i \in k + 1..Len(toHost') : toHost'[i].pin # p
        <4>. SUFFICES ASSUME ~Wanted, NEW i \in k + 1..Len(toHost') PROVE toHost'[i].pin # p
          OBVIOUS
        <4>1. i \in k + 1..Len(toHost) \/ i \in Len(toHost) + 1..Len(toHost')
          BY <1>0
        <4>2. ~enabled[p] /\ ~shown[p]
          BY <2>3 DEF Replied
        <4>3. \A j \in k + 1..Len(toHost) : j \in 1..Len(toHost)
          BY <1>0
        <4>. QED BY <1>0, <3>2, <4>1, <4>2, <4>3, ReportSilent, ReportSays
      <3>6. shown'[p] = shown[p]
        BY <1>0, <3>1, ReportSilent
      <3>7. Replied(p)'
        BY <1>0, <2>3, <3>2, <3>3, <3>4, <3>5, <3>6, HostKept DEF Replied
      <3>. QED BY <2>3, <3>7, HostKept DEF Stage
    <2>4. CASE Over(p)
      <3>1. enabled[p] = shown[p] /\ Silent(p)
        BY <2>0, <2>4 DEF Over
      <3>2. Silent(p)' /\ shown'[p] = shown[p]
        BY <1>0, <3>1, ReportSilent
      <3>3. ~Intact => ~Intact'
        BY <1>0, ReportBroken
      <3>4. ~Wanted /\ (\A i \in 1..Len(toHost) : toHost[i].pin # p)
              => \A i \in 1..Len(toHost') : toHost'[i].pin # p
        <4>. SUFFICES ASSUME ~Wanted, \A i \in 1..Len(toHost) : toHost[i].pin # p,
                             NEW i \in 1..Len(toHost')
                      PROVE  toHost'[i].pin # p
          OBVIOUS
        <4>1. ~enabled[p] /\ ~shown[p]
          BY <2>4 DEF Over
        <4>2. i \in 1..Len(toHost) \/ i \in Len(toHost) + 1..Len(toHost')
          BY <1>0
        <4>3. i \in 1..Len(toHost) => toHost'[i] = toHost[i]
          BY <1>0, ReportSays
        <4>. QED BY <1>0, <4>1, <4>2, <4>3, ReportSilent
      <3>. QED BY <1>0, <2>4, <3>2, <3>3, <3>4, HostKept DEF Stage, Over
    <2>. QED BY <2>0, <2>1, <2>2, <2>3, <2>4 DEF Stage
  <1>. QED BY <1>1, <1>2, <1>3, <1>4, HostKept DEF Protocol

(* What the daemon obeys in a session: settings of enabled pins, and the   *)
(* request that somebody waits for.                                        *)
LEMMA WaitingPin == ASSUME TypeInv, Control, Waiting PROVE Pin \in Pins /\ Current(Pin)
  BY PinFacts DEF Control, Waiting, Adding, Removing, Op, Current

LEMMA Obeys ==
  ASSUME TypeInv, Control, Protocol, main \in Session, ProcessMessage(Open)
  PROVE  \E p \in Pins :
           \/ ProcessSet(p) /\ enabled[p]
           \/ Current(p) /\ Requested(p) /\ toSam' = <<>> /\ Wanted /\ ProcessEnable(p)
           \/ Current(p) /\ Requested(p) /\ toSam' = <<>> /\ ~Wanted /\ ProcessDisable(p)
  <1>0. /\ Asked /\ \A p \in Pins : Current(p) => Stage(p)
        /\ Len(toSam) \in Nat
    BY SeqFacts DEF Protocol
  <1>1. PICK do : Process(do) /\ \/ do = "Ping" \/ do = "Reset"
                                 \/ \E p \in Pins : \/ do = "enable" /\ ProcessEnable(p)
                                                    \/ do = "disable" /\ ProcessDisable(p)
                                                    \/ do = "set" /\ ProcessSet(p)
    <2>1. CASE ProcessPing(Open) BY <2>1 DEF ProcessPing
    <2>2. CASE ProcessReset(Open) BY <2>2 DEF ProcessReset
    <2>3. CASE \E p \in Pins : ProcessEnable(p)
      BY <2>3 DEF ProcessEnable, ProcessRequest
    <2>4. CASE \E p \in Pins : ProcessDisable(p)
      BY <2>4 DEF ProcessDisable, ProcessRequest
    <2>5. CASE \E p \in Pins : ProcessSet(p)
      <3>1. PICK p \in Pins : ProcessSet(p)
        BY <2>5
      <3>2. Process("set")
        BY <3>1 DEF ProcessSet, ProcessRequest
      <3>. QED BY <3>1, <3>2
    <2>. QED BY <2>1, <2>2, <2>3, <2>4, <2>5 DEF ProcessMessage
  <1>2. /\ toSam[1].do = do /\ Len(toSam) \in Nat \ {0} /\ Head(toSam) = toSam[1]
        /\ Len(toSam) = 1 => toSam' = <<>>
    BY <1>1, ProcessFacts
  <1>3. 1 \in 1..Len(toSam)
    BY <1>2
  <1>4. CASE toSam[1].do = "set" /\ enabled[toSam[1].pin]
    <2>1. PICK p \in Pins : ProcessSet(p)
      BY <1>1, <1>2, <1>4
    <2>2. p = toSam[1].pin
      BY <1>2, <2>1 DEF ProcessSet, ProcessRequest
    <2>. QED BY <1>4, <2>1, <2>2
  <1>5. CASE Waiting /\ 1 = Len(toSam)
    <2>1. Pin \in Pins /\ Stage(Pin) /\ toSam # <<>> /\ Current(Pin)
      BY <1>0, <1>2, <1>5, WaitingPin, SeqFacts
    <2>2. Requested(Pin)
      BY <2>1 DEF Stage, Obeyed, Replied, Over
    <2>3. toSam[1] = Request(Pin, IF Wanted THEN "enable" ELSE "disable")
      BY <1>5, <2>2 DEF Requested
    <2>4. /\ toSam[1].do = IF Wanted THEN "enable" ELSE "disable"
          /\ toSam[1].pin = Pin
      BY <2>3 DEF Request
    <2>. QED BY <1>1, <1>2, <1>5, <2>1, <2>2, <2>4 DEF ProcessEnable, ProcessDisable, ProcessRequest
  <1>. QED BY <1>0, <1>3, <1>4, <1>5 DEF Asked

(* A request is taken off the line.                                        *)
LEMMA AskedTail ==
  ASSUME TypeInv, Asked, NEW do, Process(do), UNCHANGED <<host, enabled>>
  PROVE  Asked'
  <1>1. /\ Len(toSam) \in Nat \ {0} /\ Len(toSam') = Len(toSam) - 1
        /\ \A i \in 1..Len(toSam') : toSam'[i] = toSam[i + 1]
    BY ProcessFacts
  <1>2. \A i \in 1..Len(toSam') : /\ i + 1 \in 1..Len(toSam)
                                  /\ i + 1 = Len(toSam) => i = Len(toSam')
    BY <1>1
  <1>. QED BY <1>1, <1>2, HostKept DEF Asked

LEMMA ProcessProtocol ==
  ASSUME TypeInv, Control, Protocol, UNCHANGED host, main \in Session, ProcessMessage(Open)
  PROVE  Protocol'
  <1>0. /\ Asked /\ Said
        /\ \A p \in Pins : IF Current(p) THEN Stage(p) ELSE Agreed(p)
        /\ enabled \in [Pins -> BOOLEAN] /\ shown \in [Pins -> BOOLEAN]
    BY DEF Protocol, TypeInv, DaemonTypes
  <1>1. PICK q \in Pins :
          \/ ProcessSet(q) /\ enabled[q]
          \/ Current(q) /\ Requested(q) /\ toSam' = <<>> /\ Wanted /\ ProcessEnable(q)
          \/ Current(q) /\ Requested(q) /\ toSam' = <<>> /\ ~Wanted /\ ProcessDisable(q)
    BY Obeys
  <1>2. UNCHANGED <<shown, toHost, spoilt>>
    BY <1>1 DEF ProcessSet, ProcessEnable, ProcessDisable, ProcessRequest
  <1>3. Said' /\ (Intact' <=> Intact) /\ \A p : Silent(p)' <=> Silent(p)
    BY <1>0, <1>2, HostKept DEF Said, Silent, Intact
  <1>4. CASE ProcessSet(q)
    <2>1. Process("set") /\ UNCHANGED enabled
      BY <1>4 DEF ProcessSet, ProcessRequest
    <2>2. Asked'
      BY <1>0, <2>1, AskedTail
    <2>3. ASSUME NEW p \in Pins, ~Current(p) PROVE Agreed(p)'
      BY <1>0, <1>2, <1>3, <2>1, <2>3, HostKept DEF Agreed
    <2>4. ASSUME NEW p \in Pins, Current(p) PROVE Stage(p)'
      <3>0. /\ Len(toSam) \in Nat \ {0} /\ Len(toSam') = Len(toSam) - 1 /\ toSam[1].do = "set"
            /\ \A i \in 1..Len(toSam') : toSam'[i] = toSam[i + 1]
        BY <2>1, ProcessFacts
      <3>1. Requested(p) /\ ~Done
        <4>1. toSam # <<>>
          BY <2>1 DEF Process
        <4>. QED BY <1>0, <2>4, <4>1 DEF Stage, Obeyed, Replied, Over
      <3>2. Len(toSam) # 1
        BY <3>0, <3>1 DEF Requested, Request
      <3>3. Len(toSam') \in 1..Len(toSam') /\ Len(toSam') + 1 = Len(toSam)
        BY <3>0, <3>2
      <3>4. toSam'[Len(toSam')] = toSam[Len(toSam)] /\ toSam' # <<>>
        BY <3>0, <3>3
      <3>5. Requested(p)'
        BY <1>2, <1>3, <2>1, <3>1, <3>4, HostKept DEF Requested
      <3>. QED BY <3>1, <3>5, HostKept DEF Stage
    <2>. QED BY <1>3, <2>2, <2>3, <2>4, HostKept DEF Protocol
  <1>5. CASE ~ProcessSet(q)
    <2>1. Current(q) /\ Requested(q) /\ toSam' = <<>>
      BY <1>1, <1>5
    <2>2. /\ \A p \in Pins : Current(p) => p = q
          /\ \A p \in Pins : p # q => enabled'[p] = enabled[p]
          /\ enabled'[q] <=> Wanted
      BY <1>0, <1>1, <1>5, <2>1 DEF Current, ProcessEnable, ProcessDisable
    <2>3. Asked'
      BY <2>1 DEF Asked
    <2>4. ASSUME NEW p \in Pins, ~Current(p) PROVE Agreed(p)'
      <3>1. p # q
        BY <2>1, <2>4
      <3>. QED BY <1>0, <1>2, <1>3, <2>2, <2>4, <3>1, HostKept DEF Agreed
    <2>5. ASSUME NEW p \in Pins, Current(p) PROVE Stage(p)'
      <3>1. p = q /\ ~Done
        <4>1. toSam # <<>>
          BY <2>1 DEF Requested
        <4>. QED BY <1>0, <2>2, <2>5, <4>1 DEF Stage, Over
      <3>2. Obeyed(p)'
        BY <1>2, <1>3, <2>1, <2>2, <3>1, HostKept DEF Obeyed, Requested
      <3>. QED BY <3>1, <3>2, HostKept DEF Stage
    <2>. QED BY <1>3, <2>3, <2>4, <2>5, HostKept DEF Protocol
  <1>. QED BY <1>4, <1>5

LEMMA LoopProtocol == ASSUME TypeInv, Control, Protocol, Loop PROVE Protocol'
  <1>1. UNCHANGED host
    BY DEF Loop
  <1>2. CASE main \notin Session
    BY <1>1, <1>2, HostKept DEF Protocol
  <1>3. CASE main \in Session /\ ReportStatus(Open)
    BY <1>1, <1>3, ReportFacts, ReportProtocol
  <1>4. CASE main \in Session /\ ProcessMessage(Open)
    BY <1>1, <1>4, ProcessProtocol
  <1>. QED BY <1>2, <1>3, <1>4 DEF Loop

-----------------------------------------------------------------------------
(* What the host's two threads keep of the protocol.                       *)
Fewer == \A i \in 1..Len(toHost') : \E j \in 1..Len(toHost) : toHost'[i] = toHost[j]

LEMMA FewerFacts == ASSUME TypeInv, ReadLine \/ toHost' = toHost PROVE Fewer
  <1>1. CASE toHost' = toHost
    BY <1>1 DEF Fewer
  <1>2. CASE ReadLine
    <2>1. /\ Len(toHost) \in Nat \ {0} /\ Len(toHost') = Len(toHost) - 1
          /\ \A i \in 1..Len(toHost') : toHost'[i] = toHost[i + 1]
      BY <1>2, ReadFacts
    <2>2. \A i \in 1..Len(toHost') : i + 1 \in 1..Len(toHost)
      BY <2>1
    <2>. QED BY <2>1, <2>2 DEF Fewer
  <1>. QED BY <1>1, <1>2

LEMMA SaidKept ==
  ASSUME TypeInv, Said, Fewer,
         \A p \in Pins : \/ Held(p) \/ Current(p) => Held(p)' \/ Current(p)'
                         \/ \A j \in 1..Len(toHost) : toHost[j].pin # p
  PROVE  Said'
  <1>. SUFFICES ASSUME NEW i \in 1..Len(toHost'), NEW p, p = toHost'[i].pin
                PROVE  /\ toHost'[i].says \notin {"Pong", "Reset"}
                       /\ toHost'[i].says = "value" => Held(p)' \/ Current(p)'
    BY DEF Said, Held, Current, Waiting, Pin
  <1>1. PICK j \in 1..Len(toHost) : toHost'[i] = toHost[j]
    BY DEF Fewer
  <1>2. /\ toHost[j].says \notin {"Pong", "Reset"} /\ p = toHost[j].pin
        /\ toHost[j].says = "value" => p \in Pins /\ (Held(p) \/ Current(p))
    BY <1>1, SeqFacts, LineFacts DEF Said
  <1>. QED BY <1>1, <1>2

LEMMA AgreedKept ==
  ASSUME NEW p, Agreed(p), Fewer, UNCHANGED <<enabled, shown>>, Held(p)' <=> Held(p)
  PROVE  Agreed(p)'
  BY DEF Agreed, Silent, Fewer

LEMMA AskedSend ==
  ASSUME TypeInv, Asked, NEW l \in Requests, Send(l), UNCHANGED enabled, ~Waiting,
         Waiting' \/ (l.do = "set" /\ enabled[l.pin])
  PROVE  Asked'
  <1>1. /\ Len(toSam) \in Nat /\ Len(toSam') = Len(toSam) + 1 /\ toSam'[Len(toSam) + 1] = l
        /\ \A i \in 1..Len(toSam) : toSam'[i] = toSam[i]
    BY SendFacts
  <1>2. \A i \in 1..Len(toSam) : toSam[i].do = "set" /\ enabled[toSam[i].pin]
    BY DEF Asked
  <1>3. \A i \in 1..Len(toSam') : i \in 1..Len(toSam) \/ i = Len(toSam')
    BY <1>1
  <1>. QED BY <1>1, <1>2, <1>3 DEF Asked

(* A call, or the end of a handshake.                                      *)
LEMMA CallProtocol == ASSUME TypeInv, Protocol, MotorCall \/ PinCall PROVE Protocol'
  <1>1. /\ main = "idle" /\ main' = "idle"
        /\ UNCHANGED <<enabled, shown, toSam, toHost, map>>
    BY CallFacts DEF Called, daemon
  <1>2. \A p : ~Current(p) /\ ~Current(p)' /\ (Held(p)' <=> Held(p))
    BY <1>1 DEF Current, Waiting, Held
  <1>3. Asked /\ Said /\ \A p \in Pins : Agreed(p)
    BY <1>1, <1>2 DEF Protocol, Session
  <1>4. Fewer
    BY <1>1, FewerFacts
  <1>5. Asked'
    BY <1>1, <1>3 DEF Asked, Waiting
  <1>6. Said'
    BY <1>2, <1>3, <1>4, SaidKept
  <1>7. \A p \in Pins : Agreed(p)'
    BY <1>1, <1>2, <1>3, <1>4, AgreedKept
  <1>. QED BY <1>2, <1>5, <1>6, <1>7 DEF Protocol

LEMMA ResetProtocol == ASSUME TypeInv, Control, Greeting, ReadReset PROVE Protocol'
  <1>1. /\ toSam' = <<>> /\ toHost' = <<>> /\ Quiet
        /\ UNCHANGED <<enabled, shown, map>> /\ main = "acked" /\ main' = "idle"
    BY ResetRead DEF daemon
  <1>2. \A p \in Pins : map[p] = "none"
    BY <1>1 DEF Control, Session
  <1>3. Asked' /\ Said' /\ \A p : Silent(p)'
    BY <1>1 DEF Asked, Said, Silent
  <1>4. \A p \in Pins : ~Current(p)' /\ ~Held(p)'
    BY <1>1, <1>2 DEF Current, Waiting, Held
  <1>5. \A p \in Pins : Agreed(p)'
    BY <1>1, <1>3, <1>4 DEF Agreed, Quiet
  <1>. QED BY <1>3, <1>4, <1>5 DEF Protocol

LEMMA NotDone == ASSUME Control, main \notin {"get", "return"} PROVE ~Done
  BY DEF Control, Done

(* A request is sent that the thread will wait for.                        *)
LEMMA SendProtocol ==
  ASSUME TypeInv, Control, Plan, Protocol, GetSend \/ ReturnSend PROVE Protocol'
  <1>0. main = "idle" /\ (Op("new") \/ Op("delete"))
    BY DEF GetSend, ReturnSend
  <1>1. PICK q \in Pins : q = Pin /\ q = todo[1].pin /\ 1 \in 1..Len(todo)
    BY <1>0, PinFacts DEF Op
  <1>2. /\ Asked /\ Said /\ \A p \in Pins : Agreed(p)
        /\ \A p : ~Current(p) /\ (Held(p) <=> map[p] = "pin")
        /\ map \in [Pins -> {"none", "base", "pin"}] /\ Head(todo) = todo[1]
    BY <1>0, PinFacts DEF Protocol, Session, Current, Waiting, Held, Op, TypeInv, HostTypes
  <1>3. /\ UNCHANGED <<enabled, shown, toHost, todo, entry>>
        /\ Waiting' /\ ~Done'
    <2>1. UNCHANGED <<enabled, shown, toHost, todo, entry>> /\ main' \in {"entry", "leave"}
      BY DEF GetSend, ReturnSend, Goto, daemon
    <2>. QED BY <1>0, <2>1, NotDone DEF Waiting, Done
  <1>4. /\ GetSend => Wanted' /\ map[q] = "none" /\ map' = map
        /\ ReturnSend => ~Wanted' /\ map' = [map EXCEPT ![q] = "base"]
    BY <1>1 DEF GetSend, ReturnSend, Goto, Wanted
  <1>5. Wanted' \/ map[q] = "pin"
    <2>1. CASE ReturnSend
      <3>1. todo[1].do = "delete" /\ main = "idle"
        BY <1>2, <2>1 DEF ReturnSend, Op
      <3>. QED BY <1>1, <3>1 DEF Plan, InUse, Removing
    <2>. QED BY <1>4, <2>1
  <1>6. Send(Request(q, IF Wanted' THEN "enable" ELSE "disable"))
    BY <1>1, <1>4 DEF GetSend, ReturnSend
  <1>7. Request(q, IF Wanted' THEN "enable" ELSE "disable") \in Requests
    BY RequestTypes
  <1>8. /\ toSam' # <<>>
        /\ toSam'[Len(toSam')] = Request(q, IF Wanted' THEN "enable" ELSE "disable")
    BY <1>6, <1>7, SendFacts
  <1>9. /\ \A p : Current(p)' <=> p = q
        /\ \A p \in Pins : p # q => (Held(p)' <=> Held(p))
        /\ Held(q) <=> ~Wanted'
    <2>1. main' \in {"entry", "leave"}
      BY DEF GetSend, ReturnSend, Goto
    <2>. QED BY <1>1, <1>2, <1>3, <1>4, <1>5, <2>1 DEF Current, Held, Pin
  <1>10. Asked'
    BY <1>0, <1>2, <1>3, <1>6, <1>7, AskedSend DEF Waiting
  <1>11. Fewer
    BY <1>3, FewerFacts
  <1>12. Said'
    BY <1>2, <1>9, <1>11, SaidKept
  <1>13. \A p \in Pins : p # q => Agreed(p)'
    BY <1>2, <1>3, <1>9, <1>11, AgreedKept
  <1>14. Stage(q)'
    <2>1. Silent(q)' /\ (enabled'[q] <=> ~Wanted') /\ (shown'[q] <=> ~Wanted')
      BY <1>2, <1>3, <1>9 DEF Agreed, Silent
    <2>2. Requested(q)'
      BY <1>8, <2>1 DEF Requested
    <2>. QED BY <1>3, <2>2 DEF Stage
  <1>. QED BY <1>9, <1>10, <1>12, <1>13, <1>14 DEF Protocol

(* The entry is made while the thread waits.                               *)
LEMMA EntryProtocol ==
  ASSUME TypeInv, Control, Protocol, GetEntry \/ ReturnEntry PROVE Protocol'
  <1>1. /\ UNCHANGED <<daemon, toSam, toHost, todo, map>>
        /\ \/ main = "entry" /\ main' = "get"
           \/ main = "leave" /\ main' = "return"
        /\ entry' = [actual |-> FALSE, updated |-> FALSE]
    BY DEF GetEntry, ReturnEntry, MakeEntry, Goto
  <1>2. ~Done /\ ~Done'
    BY <1>1, NotDone DEF Done
  <1>3. /\ (Wanted' <=> Wanted) /\ Waiting /\ Waiting' /\ (Intact' <=> Intact)
        /\ \A p : /\ (Held(p)' <=> Held(p)) /\ (Current(p)' <=> Current(p))
                  /\ (Silent(p)' <=> Silent(p))
    BY <1>1 DEF Wanted, Waiting, Held, Current, Silent, Pin, Intact, daemon
  <1>4. /\ Asked /\ Said /\ \A p \in Pins : IF Current(p) THEN Stage(p) ELSE Agreed(p)
        /\ UNCHANGED <<enabled, shown, spoilt>>
    BY <1>1 DEF Protocol, Session, daemon
  <1>5. Asked' /\ Said'
    BY <1>1, <1>3, <1>4 DEF Asked, Said
  <1>6. ASSUME NEW p \in Pins, ~Current(p) PROVE Agreed(p)'
    BY <1>3, <1>4, <1>6 DEF Agreed
  <1>7. ASSUME NEW p \in Pins, Current(p) PROVE Stage(p)'
    <2>1. Requested(p) => Requested(p)'
      BY <1>1, <1>3, <1>4 DEF Requested
    <2>2. Obeyed(p) => Obeyed(p)'
      BY <1>1, <1>3, <1>4 DEF Obeyed
    <2>3. Replied(p) => Replied(p)'
      BY <1>1, <1>3, <1>4 DEF Replied
    <2>4. Over(p) => Over(p)'
      BY <1>1, <1>2, <1>3, <1>4 DEF Over
    <2>. QED BY <1>2, <1>4, <1>7, <2>1, <2>2, <2>3, <2>4 DEF Stage
  <1>. QED BY <1>3, <1>5, <1>6, <1>7 DEF Protocol

(* The thread goes on with the answer.                                     *)
LEMMA AnsweredProtocol ==
  ASSUME TypeInv, Control, Protocol, GetAnswered \/ ReturnAnswered PROVE Protocol'
  <1>1. /\ UNCHANGED <<daemon, toSam, toHost, todo, map>> /\ entry.updated
        /\ \/ main = "get" /\ main' = "map"
           \/ main = "return" /\ main' = "unmap"
    BY DEF GetAnswered, ReturnAnswered, Answered, Goto
  <1>2. Done /\ Waiting /\ main \in Session
    BY <1>1 DEF Done, Control, Waiting, Session
  <1>3. PICK q \in Pins : q = Pin /\ Current(q)
    BY <1>2, WaitingPin
  <1>4. /\ Asked /\ Said /\ \A p \in Pins : IF Current(p) THEN Stage(p) ELSE Agreed(p)
        /\ UNCHANGED <<enabled, shown, spoilt>>
    BY <1>1, <1>2 DEF Protocol, daemon
  <1>5. Over(q) /\ toSam' = <<>>
    BY <1>1, <1>2, <1>3, <1>4 DEF Stage, Over
  <1>6. /\ \A p : ~Current(p)'
        /\ \A p \in Pins : p # q => ~Current(p) /\ (Held(p)' <=> Held(p))
        /\ Held(q)' <=> Wanted
    <2>1. map[q] = IF main = "get" THEN "none" ELSE "base"
      BY <1>1, <1>2, <1>3 DEF Control, Adding, Removing
    <2>. QED BY <1>1, <1>3, <2>1 DEF Held, Current, Wanted, Waiting, Pin
  <1>7. Asked'
    BY <1>5 DEF Asked
  <1>8. Fewer
    BY <1>1, FewerFacts
  <1>9. Said'
    <2>1. Held(q)' \/ \A j \in 1..Len(toHost) : toHost[j].pin # q
      BY <1>2, <1>5, <1>6 DEF Over
    <2>. QED BY <1>4, <1>6, <1>8, <2>1, SaidKept
  <1>10. \A p \in Pins : p # q => Agreed(p)'
    BY <1>4, <1>6, <1>8, AgreedKept
  <1>11. Agreed(q)'
    BY <1>1, <1>4, <1>5, <1>6 DEF Agreed, Over, Silent
  <1>. QED BY <1>6, <1>7, <1>9, <1>10, <1>11 DEF Protocol

(* The thread makes something of the pin without waiting for an answer.    *)
LEMMA OwnProtocol ==
  ASSUME TypeInv, Protocol, main \in Session, ~Waiting, ~Waiting',
         UNCHANGED <<enabled, shown, toHost>>, \A p \in Pins : Held(p)' <=> Held(p),
         toSam' = toSam \/ \E l \in Requests : Send(l) /\ l.do = "set" /\ Held(l.pin)
  PROVE  Protocol'
  <1>1. /\ Asked /\ Said /\ \A p \in Pins : Agreed(p)
        /\ \A p : ~Current(p) /\ ~Current(p)'
    BY DEF Protocol, Current
  <1>2. Asked'
    <2>1. CASE toSam' = toSam
      BY <1>1, <2>1 DEF Asked
    <2>2. CASE \E l \in Requests : Send(l) /\ l.do = "set" /\ Held(l.pin)
      <3>1. PICK l \in Requests : Send(l) /\ l.do = "set" /\ Held(l.pin)
        BY <2>2
      <3>2. enabled[l.pin]
        BY <1>1, <3>1, RequestFacts DEF Agreed
      <3>. QED BY <1>1, <3>1, <3>2, AskedSend
    <2>. QED BY <2>1, <2>2
  <1>3. Fewer
    BY FewerFacts
  <1>4. Said'
    BY <1>1, <1>3, SaidKept
  <1>5. \A p \in Pins : Agreed(p)'
    BY <1>1, <1>3, AgreedKept
  <1>. QED BY <1>1, <1>2, <1>4, <1>5 DEF Protocol

LEMMA SetRequestFacts ==
  ASSUME NEW p \in Pins, NEW s \in Settings(p)
  PROVE  /\ SetRequest(p, s) \in Requests /\ SetRequest(p, s).pin = p
         /\ SetRequest(p, s).do = "set" /\ SetRequest(p, s).to = s
  BY RequestTypes DEF SetRequest

LEMMA OperateProtocol ==
  ASSUME TypeInv, Control, Plan, Protocol, Operate, main' # "down" PROVE Protocol'
  <1>0. /\ todo # <<>> => Pin \in Pins /\ Head(todo) = todo[1]
        /\ map \in [Pins -> {"none", "base", "pin"}]
    BY PinFacts DEF TypeInv, HostTypes
  <1>1. CASE GetSend \/ ReturnSend
    BY <1>1, SendProtocol
  <1>2. CASE GetEntry \/ ReturnEntry
    BY <1>2, EntryProtocol
  <1>3. CASE GetAnswered \/ ReturnAnswered
    BY <1>3, AnsweredProtocol
  <1>4. CASE GetMap \/ Derive
    <2>1. /\ \/ main = "map" /\ main' = "derive" /\ map' = [map EXCEPT ![Pin] = "base"]
             \/ main = "derive" /\ main' = "construct" /\ map' = [map EXCEPT ![Pin] = "pin"]
          /\ UNCHANGED <<enabled, shown, toHost, toSam, todo>> /\ Pin \in Pins
      BY <1>0, <1>4 DEF GetMap, Derive, Remap, Goto, Control, Adding, Op, daemon
    <2>2. \A p \in Pins : Held(p)' <=> Held(p)
      BY <1>0, <2>1 DEF Held, Pin
    <2>. QED BY <2>1, <2>2, OwnProtocol DEF Waiting, Session
  <1>5. CASE Construct
    <2>1. /\ main = "construct" /\ main' = "idle" /\ Pin \in Pins /\ map[Pin] = "pin"
          /\ UNCHANGED <<map, enabled, shown, toHost>>
      BY <1>5, ConstructFacts DEF daemon
    <2>2. PICK s \in Settings(Pin) : Send(SetRequest(Pin, s))
      BY <1>5, ConstructFacts
    <2>3. \E l \in Requests : Send(l) /\ l.do = "set" /\ Held(l.pin)
      BY <2>1, <2>2, SetRequestFacts DEF Held
    <2>4. \A p \in Pins : Held(p)' <=> Held(p)
      BY <2>1 DEF Held
    <2>. QED BY <2>1, <2>3, <2>4, OwnProtocol DEF Waiting, Session
  <1>6. CASE SetState
    <2>1. /\ main = "idle" /\ main' = "idle" /\ Op("set")
          /\ UNCHANGED <<map, enabled, shown, toHost>>
          /\ staging' = [staging EXCEPT ![Pin][Head(todo).part] = Head(todo).to]
          /\ Send(SetRequest(Pin, staging'[Pin]))
      BY <1>6 DEF SetState, Finished, Goto, daemon
    <2>2. Pin \in Pins /\ map[Pin] = "pin" /\ staging'[Pin] \in Settings(Pin)
      BY <1>0, <2>1, StagedFacts DEF Op
    <2>3. \E l \in Requests : Send(l) /\ l.do = "set" /\ Held(l.pin)
      BY <2>1, <2>2, SetRequestFacts DEF Held
    <2>4. \A p \in Pins : Held(p)' <=> Held(p)
      BY <2>1 DEF Held
    <2>. QED BY <2>1, <2>3, <2>4, OwnProtocol DEF Waiting, Session
  <1>7. CASE ReturnMap
    <2>1. /\ main = "unmap" /\ main' = "idle" /\ map' = [map EXCEPT ![Pin] = "none"]
          /\ UNCHANGED <<enabled, shown, toHost, toSam>> /\ map[Pin] # "pin" /\ Pin \in Pins
      BY <1>0, <1>7 DEF ReturnMap, Finished, Goto, Control, Removing, Adding, Session, Op, daemon
    <2>2. \A p \in Pins : Held(p)' <=> Held(p)
      BY <1>0, <2>1 DEF Held
    <2>. QED BY <2>1, <2>2, OwnProtocol DEF Waiting, Session
  <1>8. CASE GetTwice
    BY <1>8 DEF GetTwice, End
  <1>. QED BY <1>1, <1>2, <1>3, <1>4, <1>5, <1>6, <1>7, <1>8 DEF Operate

(* The reader thread takes a line: the answer, or a value.                 *)
LEMMA AnswerProtocol == ASSUME TypeInv, Control, Protocol, RouteAnswer PROVE Protocol'
  <1>1. /\ main \in Session /\ ReadLine /\ IsAnswer(Head(toHost))
        /\ entry' = [actual |-> Head(toHost).says = "Enabled", updated |-> TRUE]
        /\ UNCHANGED <<daemon, toSam, main, todo, map>>
    BY DEF RouteAnswer
  <1>2. /\ Head(toHost) = toHost[1] /\ toHost[1] \in Lines
        /\ Len(toHost) \in Nat \ {0} /\ Len(toHost') = Len(toHost) - 1
        /\ \A i \in 1..Len(toHost') : toHost'[i] = toHost[i + 1]
    BY <1>1, ReadFacts
  <1>3. Waiting
    BY <1>1 DEF IsAnswer, Awaited, Control, Waiting
  <1>4. PICK q \in Pins : q = Pin /\ Current(q)
    BY <1>3, WaitingPin
  <1>5. StatusLine(q, toHost[1]) /\ 1 \in 1..Len(toHost)
    BY <1>1, <1>2, <1>4, Kinds, LineFacts DEF IsAnswer, Awaited, StatusLine
  <1>6. /\ Asked /\ Said /\ \A p \in Pins : IF Current(p) THEN Stage(p) ELSE Agreed(p)
        /\ UNCHANGED <<enabled, shown, spoilt>>
    BY <1>1 DEF Protocol, daemon
  <1>7. Replied(q)
    <2>1. ~Silent(q)
      BY <1>5 DEF Silent
    <2>. QED BY <1>4, <1>6, <2>1 DEF Stage, Requested, Obeyed, Over
  <1>8. PICK k \in 1..Len(toHost) :
          /\ toHost[k] = Says(q, IF Wanted THEN "Enabled" ELSE "Disabled")
          /\ \A i \in 1..Len(toHost) : StatusLine(q, toHost[i]) => i = k
          /\ ~Wanted => \A i \in k + 1..Len(toHost) : toHost[i].pin # q
    BY <1>7 DEF Replied
  <1>9. k = 1
    BY <1>5, <1>8
  <1>10. toHost[1].says = IF Wanted THEN "Enabled" ELSE "Disabled"
    BY <1>8, <1>9 DEF Says
  <1>11. \A i \in 1..Len(toHost') : i + 1 \in 1..Len(toHost) /\ i + 1 # 1 /\ i + 1 \in 1 + 1..Len(toHost)
    BY <1>2
  <1>12. /\ (Wanted' <=> Wanted) /\ (Waiting' <=> Waiting)
         /\ \A p : (Held(p)' <=> Held(p)) /\ (Current(p)' <=> Current(p))
    BY <1>1 DEF Wanted, Waiting, Held, Current, Pin
  <1>13. Asked'
    BY <1>1, <1>6, <1>12 DEF Asked
  <1>14. Fewer
    BY <1>1, FewerFacts
  <1>15. Said'
    BY <1>6, <1>12, <1>14, SaidKept
  <1>16. \A p \in Pins : ~Current(p) => Agreed(p)'
    BY <1>6, <1>12, <1>14, AgreedKept
  <1>17. Silent(q)'
    <2>. SUFFICES ASSUME NEW i \in 1..Len(toHost') PROVE ~StatusLine(q, toHost'[i])
      BY DEF Silent
    <2>. QED BY <1>2, <1>8, <1>9, <1>11
  <1>18. ~Wanted => \A i \in 1..Len(toHost') : toHost'[i].pin # q
    BY <1>2, <1>8, <1>9, <1>11
  <1>19. Done' /\ (entry'.actual <=> Wanted)
    <2>1. entry'.updated = TRUE /\ (entry'.actual <=> toHost[1].says = "Enabled")
      BY <1>1, <1>2
    <2>2. entry' # None
      BY <1>1, EntryFacts
    <2>. QED BY <1>10, <2>1, <2>2 DEF Done
  <1>20. Over(q)'
    BY <1>1, <1>6, <1>7, <1>12, <1>17, <1>18, <1>19 DEF Over, Replied
  <1>21. \A p \in Pins : Current(p) => Stage(p)'
    BY <1>4, <1>20 DEF Stage, Current
  <1>. QED BY <1>12, <1>13, <1>15, <1>16, <1>21 DEF Protocol

LEMMA ValueProtocol == ASSUME TypeInv, Control, Protocol, RouteValue PROVE Protocol'
  <1>1. /\ main \in Session /\ ReadLine /\ IsValue(Head(toHost))
        /\ UNCHANGED <<daemon, toSam, main, todo, map, entry>>
    BY DEF RouteValue
  <1>2. /\ Head(toHost) = toHost[1] /\ toHost[1] \in Lines /\ toHost[1].says = "value"
        /\ Len(toHost) \in Nat \ {0} /\ Len(toHost') = Len(toHost) - 1
        /\ \A i \in 1..Len(toHost') : toHost'[i] = toHost[i + 1]
    BY <1>1, ReadFacts DEF IsValue
  <1>3. /\ \A i \in 1..Len(toHost') : i + 1 \in 1..Len(toHost)
        /\ \A i \in 1..Len(toHost) : i = 1 \/ (i - 1 \in 1..Len(toHost') /\ i - 1 + 1 = i)
    BY <1>2
  <1>4. /\ (Wanted' <=> Wanted) /\ (Waiting' <=> Waiting) /\ (Done' <=> Done)
        /\ \A p : (Held(p)' <=> Held(p)) /\ (Current(p)' <=> Current(p))
    BY <1>1 DEF Wanted, Waiting, Done, Held, Current, Pin
  <1>5. /\ Asked /\ Said /\ \A p \in Pins : IF Current(p) THEN Stage(p) ELSE Agreed(p)
        /\ UNCHANGED <<enabled, shown, spoilt>>
    BY <1>1 DEF Protocol, daemon
  <1>6. Asked'
    BY <1>1, <1>4, <1>5 DEF Asked
  <1>7. Fewer
    BY <1>1, FewerFacts
  <1>8. Said'
    BY <1>4, <1>5, <1>7, SaidKept
  <1>9. \A p \in Pins : ~Current(p) => Agreed(p)'
    BY <1>4, <1>5, <1>7, AgreedKept
  <1>10. ASSUME NEW p \in Pins, Current(p) PROVE Stage(p)'
    <2>1. Silent(p) => Silent(p)'
      BY <1>7 DEF Silent, Fewer
    <2>2. ~Intact => ~Intact'
      <3>. SUFFICES ASSUME NEW i \in 1..Len(toHost), toHost[i].says = "Junk"
                    PROVE  \E j \in 1..Len(toHost') : toHost'[j].says = "Junk"
        BY <1>5 DEF Intact
      <3>1. i - 1 \in 1..Len(toHost') /\ i - 1 + 1 = i
        BY <1>2, <1>3
      <3>2. toHost'[i - 1] = toHost[i]
        BY <1>2, <3>1
      <3>. QED BY <3>1, <3>2
    <2>3. Requested(p) => Requested(p)'
      BY <1>1, <1>4, <1>5, <2>1 DEF Requested
    <2>4. Obeyed(p) => Obeyed(p)'
      BY <1>1, <1>4, <1>5, <2>1 DEF Obeyed
    <2>5. ASSUME Replied(p) PROVE Replied(p)'
      <3>1. PICK k \in 1..Len(toHost) :
              /\ toHost[k] = Says(p, IF Wanted THEN "Enabled" ELSE "Disabled")
              /\ \A i \in 1..Len(toHost) : StatusLine(p, toHost[i]) => i = k
              /\ ~Wanted => \A i \in k + 1..Len(toHost) : toHost[i].pin # p
        BY <2>5 DEF Replied
      <3>2. k # 1
        BY <1>2, <3>1 DEF Says
      <3>3. k - 1 \in 1..Len(toHost') /\ k - 1 + 1 = k
        BY <1>3, <3>2
      <3>4. toHost'[k - 1] = toHost[k]
        BY <1>2, <3>3
      <3>5. \A i \in 1..Len(toHost') : StatusLine(p, toHost'[i]) => i = k - 1
        <4>. SUFFICES ASSUME NEW i \in 1..Len(toHost'), StatusLine(p, toHost'[i]) PROVE i = k - 1
          OBVIOUS
        <4>1. i + 1 = k
          BY <1>2, <1>3, <3>1
        <4>. QED BY <4>1
      <3>6. ~Wanted => \A i \in (k - 1) + 1..Len(toHost') : toHost'[i].pin # p
        <4>. SUFFICES ASSUME ~Wanted, NEW i \in (k - 1) + 1..Len(toHost') PROVE toHost'[i].pin # p
          OBVIOUS
        <4>1. i \in 1..Len(toHost') /\ i + 1 \in k + 1..Len(toHost)
          BY <1>2
        <4>. QED BY <1>2, <3>1, <4>1
      <3>. QED BY <1>1, <1>4, <1>5, <2>5, <3>1, <3>3, <3>4, <3>5, <3>6 DEF Replied
    <2>6. ASSUME Over(p) PROVE Over(p)'
      <3>1. (\A i \in 1..Len(toHost) : toHost[i].pin # p)
              => \A i \in 1..Len(toHost') : toHost'[i].pin # p
        BY <1>2, <1>3
      <3>. QED BY <1>1, <1>4, <1>5, <2>1, <2>2, <2>6, <3>1 DEF Over
    <2>. QED BY <1>4, <1>5, <1>10, <2>3, <2>4, <2>5, <2>6 DEF Stage
  <1>. QED BY <1>4, <1>6, <1>8, <1>9, <1>10 DEF Protocol

LEMMA NextProtocol ==
  ASSUME TypeInv, Control, Plan, Greeting, Protocol, MotorsNext PROVE Protocol'
  <1>1. CASE main' \notin Session
    BY <1>1 DEF Protocol
  <1>2. CASE MotorCall \/ PinCall
    BY <1>2, CallProtocol
  <1>3. CASE Loop
    BY <1>3, LoopProtocol
  <1>4. CASE Operate /\ main' \in Session
    BY <1>4, OperateProtocol DEF Session
  <1>5. CASE ReadReset
    BY <1>5, ResetProtocol
  <1>6. CASE RouteAnswer \/ RouteValue
    BY <1>6, AnswerProtocol, ValueProtocol
  <1>7. CASE ReaderDies \/ Quit \/ GiveUp \/ NotReset \/ Start \/ Ping \/ ReadPong \/ SendReset
    BY <1>1, <1>7 DEF ReaderDies, Quit, GiveUp, NotReset, End, Start, Ping, ReadPong, SendReset,
                      Goto, Session
  <1>. QED BY <1>1, <1>2, <1>3, <1>4, <1>5, <1>6, <1>7 DEF MotorsNext, Serve, Connect, Reader

-----------------------------------------------------------------------------
(* What a setting does to its pin.                                         *)
LEMMA SettingFacts ==
  ASSUME TypeInv, NEW q \in Pins, ProcessSet(q), NEW to, to = toSam[1].to,
         NEW pwm, pwm = [val |-> st[q].val, set |-> to.val, ramp |-> to.ramp]
  PROVE  /\ toSam[1].pin = q /\ toSam[1].do = "set" /\ to \in Settings(q)
         /\ UNCHANGED <<enabled, shown, rep, cut, spoilt, toHost>> /\ Process("set")
         /\ \A p \in Pins : p # q => st'[p] = st[p]
         /\ \A p \in Pwm : p # q => duty'[p] = duty[p]
         /\ q \in Gpio => st'[q] = to
         /\ q \in Adc => st'[q] = IF to.thresh > 0 THEN to ELSE st[q]
         /\ q \in Pwm => /\ pwm \in States(q) /\ st'[q] = PwmPin_Set(pwm)
                         /\ duty'[q] = Driven(q, pwm)
  <1>1. /\ Process("set") /\ Head(toSam).pin = q
        /\ UNCHANGED <<enabled, shown, rep, cut, spoilt, toHost>>
    BY DEF ProcessSet, ProcessRequest
  <1>2. /\ Head(toSam) = toSam[1] /\ toSam[1].pin = q /\ toSam[1].do = "set"
        /\ to \in Settings(q)
    BY <1>1, ProcessFacts, RequestFacts
  <1>3. /\ st' = [st EXCEPT ![q] = CASE q \in Gpio -> to
                                     [] q \in Pwm -> PwmPin_Set(pwm)
                                     [] q \in Adc -> IF to.thresh > 0 THEN to ELSE @]
        /\ duty' = [p \in Pwm |-> IF p = q THEN Driven(q, pwm) ELSE duty[p]]
    BY <1>2 DEF ProcessSet
  <1>4. q \in Pwm => pwm \in States(q)
    <2>. SUFFICES ASSUME q \in Pwm PROVE pwm \in States(q)
      OBVIOUS
    <2>1. to \in [val : Speeds, ramp : Ramps]
      BY <1>2, PwmFacts
    <2>2. st[q] \in [val : 0..100, set : Speeds \cup {0}, ramp : Ramps \cup {-1}]
      BY PwmFacts DEF TypeInv, DaemonTypes
    <2>3. pwm \in [val : 0..100, set : Speeds \cup {0}, ramp : Ramps \cup {-1}]
      BY <2>1, <2>2
    <2>. QED BY <2>3, PwmFacts
  <1>5. DOMAIN st = Pins
    BY DEF TypeInv, DaemonTypes
  <1>. QED BY <1>1, <1>2, <1>3, <1>4, <1>5, Kinds

-----------------------------------------------------------------------------
(* What drives the PWM pins.                                               *)
LEMMA LoopDrives == ASSUME TypeInv, Control, Protocol, Drives, Loop PROVE Drives'
  <1>0. UNCHANGED host
    BY DEF Loop
  <1>1. CASE main \notin Session
    BY <1>0, <1>1, HostKept DEF Drives
  <1>2. CASE main \in Session
    <2>0. /\ \A p \in Pwm : DrivenAs(p) /\ p \in Pins /\ st[p] \in States(p)
                            /\ duty[p] \in 0..100 /\ enabled[p] \in BOOLEAN
          /\ enabled \in [Pins -> BOOLEAN] /\ DOMAIN st = Pins
          /\ duty \in [Pwm -> 0..100]
      BY <1>2, PwmFacts DEF Drives, DrivenAs, TypeInv, DaemonTypes
    <2>1. CASE ReportStatus(Open)
      <3>1. PICK reached \in SUBSET Pins,
                 level \in LevelsFound,
                 analog \in AnalogFound :
                   Report(reached, level, analog)
        BY <2>1, ReportFacts
      <3>. SUFFICES ASSUME NEW p \in Pwm PROVE DrivenAs(p)'
        BY DEF Drives, DrivenAs
      <3>2. UNCHANGED <<enabled, cut>>
        BY <3>1 DEF Report
      <3>3. /\ st'[p] = IF p \in reached /\ Visited(p) THEN Refreshed(p, level) ELSE st[p]
            /\ duty'[p] = IF p \in reached /\ Visited(p) THEN Driven(p, st[p]) ELSE duty[p]
        BY <2>0, <3>1 DEF Report, Visit
      <3>4. CASE p \in reached /\ Visited(p)
        <4>1. /\ st'[p] = PwmPin_Set(st[p]) /\ duty'[p] = Driven(p, st[p])
              /\ PwmPin_Set(st[p]).set = st[p].set
              /\ st[p].val = st[p].set => PwmPin_Set(st[p]) = st[p]
          BY <2>0, <3>3, <3>4, PwmSetFacts DEF Refreshed
        <4>2. /\ st[p].val = st[p].set => Driven(p, st[p]) = duty[p]
              /\ st[p].val = duty[p] => Driven(p, st[p]) = PwmPin_Set(st[p]).val
          BY <2>0, DrivenFacts
        <4>. QED BY <2>0, <3>2, <4>1, <4>2 DEF DrivenAs
      <3>5. CASE ~(p \in reached /\ Visited(p))
        BY <2>0, <3>2, <3>3, <3>5 DEF DrivenAs
      <3>. QED BY <3>4, <3>5
    <2>2. CASE ProcessMessage(Open)
      <3>1. PICK q \in Pins : \/ ProcessSet(q) /\ enabled[q]
                              \/ ProcessEnable(q) \/ ProcessDisable(q)
        BY <1>2, <2>2, Obeys
      <3>. SUFFICES ASSUME NEW p \in Pwm PROVE DrivenAs(p)'
        BY DEF Drives, DrivenAs
      <3>2. CASE ProcessSet(q) /\ enabled[q]
        <4>0. PICK to, pwm : /\ to = toSam[1].to
                             /\ pwm = [val |-> st[q].val, set |-> to.val, ramp |-> to.ramp]
          OBVIOUS
        <4>1. /\ UNCHANGED <<enabled, cut>>
              /\ p # q => st'[p] = st[p] /\ duty'[p] = duty[p]
              /\ p = q => /\ pwm \in States(q) /\ st'[q] = PwmPin_Set(pwm)
                          /\ duty'[q] = Driven(q, pwm)
          BY <2>0, <3>2, <4>0, SettingFacts
        <4>2. p = q => duty'[p] = st'[p].val
          <5>. SUFFICES ASSUME p = q PROVE duty'[p] = st'[p].val
            OBVIOUS
          <5>1. pwm.val = duty[p] /\ pwm \in States(p)
            BY <2>0, <3>2, <4>0, <4>1 DEF DrivenAs
          <5>. QED BY <2>0, <4>1, <5>1, DrivenFacts
        <4>. QED BY <2>0, <3>2, <4>1, <4>2 DEF DrivenAs
      <3>3. CASE ProcessEnable(q)
        BY <2>0, <3>3 DEF ProcessEnable, DrivenAs, TypeInv, DaemonTypes
      <3>4. CASE ProcessDisable(q)
        <4>1. p \notin Gpio
          BY Kinds, <2>0
        <4>2. /\ st'[p] = st[p] /\ duty'[p] = IF p = q THEN 0 ELSE duty[p]
              /\ cut'[p] = IF p = q THEN st[q].val # st[q].set ELSE cut[p]
          BY <2>0, <3>4, <4>1 DEF ProcessDisable
        <4>3. /\ p = q => enabled'[p] = FALSE
              /\ p # q => enabled'[p] = enabled[p]
          BY <2>0, <3>4 DEF ProcessDisable
        <4>. QED BY <2>0, <4>2, <4>3 DEF DrivenAs
      <3>. QED BY <3>1, <3>2, <3>3, <3>4
    <2>. QED BY <2>1, <2>2 DEF Loop
  <1>. QED BY <1>1, <1>2

(* Nothing but the loop, and the switch of the board, changes the pins.    *)
LEMMA HostSteps ==
  ASSUME TypeInv, MotorsNext, ~Loop, main' \in Session, main \in Session
  PROVE  UNCHANGED daemon
  <1>1. CASE MotorCall \/ PinCall
    BY <1>1, CallFacts DEF Called
  <1>2. CASE Operate
    BY <1>2 DEF Operate, GetSend, GetTwice, GetEntry, MakeEntry, GetAnswered, Answered, GetMap,
                Derive, Remap, Construct, SetState, ReturnSend, ReturnEntry, ReturnAnswered,
                ReturnMap, End
  <1>3. CASE Reader \/ Connect \/ Quit \/ Start
    BY <1>3 DEF Reader, RouteAnswer, RouteValue, ReaderDies, Connect, Ping, ReadPong, GiveUp,
                SendReset, ReadReset, NotReset, Quit, End, Start, Session
  <1>. QED BY <1>1, <1>2, <1>3 DEF MotorsNext, Serve

(* A session begins when the Reset is answered.                            *)
LEMMA SessionBegins ==
  ASSUME TypeInv, MotorsNext, main \notin Session, main' \in Session PROVE ReadReset
  <1>0. Session \cap (Handshake \cup {"down"}) = {}
    BY DEF Session, Handshake
  <1>1. CASE MotorCall \/ PinCall
    BY <1>1, CallFacts DEF Called
  <1>2. CASE Loop
    BY <1>2, HostKept DEF Loop
  <1>3. CASE Operate
    BY <1>3 DEF Operate, GetSend, GetTwice, GetEntry, MakeEntry, GetAnswered, Answered, GetMap,
                Derive, Remap, Construct, SetState, ReturnSend, ReturnEntry, ReturnAnswered,
                ReturnMap, Session
  <1>4. CASE Reader
    BY <1>4 DEF Reader, RouteAnswer, RouteValue, ReaderDies
  <1>5. CASE Connect \/ Quit \/ Start
    BY <1>5 DEF Connect, Ping, ReadPong, GiveUp, SendReset, NotReset, Quit, End, Start, Goto,
                Session
  <1>. QED BY <1>1, <1>2, <1>3, <1>4, <1>5 DEF MotorsNext, Serve

LEMMA NextDrives ==
  ASSUME TypeInv, Control, Greeting, Protocol, Drives, MotorsNext PROVE Drives'
  <1>1. CASE Loop
    BY <1>1, LoopDrives
  <1>2. CASE main' \notin Session
    BY <1>2 DEF Drives
  <1>3. CASE ~Loop /\ main \in Session /\ main' \in Session
    BY <1>3, HostSteps DEF Drives, DrivenAs, daemon
  <1>4. CASE main \notin Session /\ main' \in Session
    <2>1. /\ Quiet /\ Still /\ UNCHANGED <<enabled, duty, st>>
      BY <1>4, SessionBegins, ResetRead DEF daemon
    <2>. QED BY <2>1, PwmFacts DEF Drives, DrivenAs, Quiet, Still
  <1>. QED BY <1>1, <1>2, <1>3, <1>4

-----------------------------------------------------------------------------
(* What the pins are set to.                                               *)
LEMMA SoughtKept ==
  ASSUME NEW p, Sought(p), UNCHANGED toSam, staging'[p] = staging[p], Matches(p) => Matches(p)'
  PROVE  Sought(p)'
  BY DEF Sought

LEMMA SoughtSend ==
  ASSUME TypeInv, NEW l \in Requests, Send(l), NEW p,
         Sought(p), ~SetFor(p, l), staging'[p] = staging[p], Matches(p) => Matches(p)'
  PROVE  Sought(p)'
  <1>1. /\ Len(toSam) \in Nat /\ Len(toSam') = Len(toSam) + 1 /\ toSam'[Len(toSam) + 1] = l
        /\ \A i \in 1..Len(toSam) : toSam'[i] = toSam[i]
    BY SendFacts
  <1>2. \A i \in 1..Len(toSam') : i \in 1..Len(toSam) \/ (i = Len(toSam) + 1 /\ ~SetFor(p, toSam'[i]))
    BY <1>1
  <1>3. ASSUME NEW i \in 1..Len(toSam'), SetFor(p, toSam'[i]),
               \A j \in i + 1..Len(toSam') : ~SetFor(p, toSam'[j])
        PROVE  toSam'[i].to = staging'[p]
    <2>1. i \in 1..Len(toSam) /\ toSam'[i] = toSam[i]
      BY <1>1, <1>2, <1>3
    <2>2. \A j \in i + 1..Len(toSam) : j \in i + 1..Len(toSam') /\ toSam'[j] = toSam[j]
      BY <1>1, <2>1
    <2>. QED BY <1>3, <2>1, <2>2 DEF Sought
  <1>4. ASSUME \A i \in 1..Len(toSam') : ~SetFor(p, toSam'[i]) PROVE Matches(p)'
    <2>1. \A i \in 1..Len(toSam) : i \in 1..Len(toSam') /\ toSam'[i] = toSam[i]
      BY <1>1
    <2>. QED BY <1>4, <2>1 DEF Sought
  <1>. QED BY <1>3, <1>4 DEF Sought

LEMMA SoughtNew ==
  ASSUME TypeInv, NEW l \in Requests, Send(l), NEW p, SetFor(p, l), l.to = staging'[p]
  PROVE  Sought(p)'
  <1>1. /\ Len(toSam) \in Nat /\ Len(toSam') = Len(toSam) + 1 /\ toSam'[Len(toSam) + 1] = l
    BY SendFacts
  <1>2. Len(toSam) + 1 \in 1..Len(toSam')
    BY <1>1
  <1>3. ASSUME NEW i \in 1..Len(toSam'), \A j \in i + 1..Len(toSam') : ~SetFor(p, toSam'[j])
        PROVE  toSam'[i] = l
    <2>1. i # Len(toSam) + 1 => Len(toSam) + 1 \in i + 1..Len(toSam')
      BY <1>1
    <2>. QED BY <1>1, <1>3, <2>1
  <1>. QED BY <1>1, <1>2, <1>3 DEF Sought

LEMMA SoughtTail ==
  ASSUME TypeInv, NEW do, Process(do), NEW p, Sought(p), staging'[p] = staging[p],
         IF SetFor(p, toSam[1]) THEN toSam[1].to = staging[p] => Matches(p)'
                                ELSE Matches(p) => Matches(p)'
  PROVE  Sought(p)'
  <1>1. /\ Len(toSam) \in Nat \ {0} /\ Len(toSam') = Len(toSam) - 1
        /\ \A i \in 1..Len(toSam') : toSam'[i] = toSam[i + 1]
    BY ProcessFacts
  <1>2. /\ \A i \in 1..Len(toSam') : i + 1 \in 1..Len(toSam)
        /\ \A i \in 1..Len(toSam) : i = 1 \/ (i - 1 \in 1..Len(toSam') /\ i - 1 + 1 = i)
        /\ 1 \in 1..Len(toSam)
    BY <1>1
  <1>3. ASSUME NEW i \in 1..Len(toSam'), SetFor(p, toSam'[i]),
               \A j \in i + 1..Len(toSam') : ~SetFor(p, toSam'[j])
        PROVE  toSam'[i].to = staging'[p]
    <2>1. i + 1 \in 1..Len(toSam) /\ toSam'[i] = toSam[i + 1]
      BY <1>1, <1>2
    <2>2. ASSUME NEW j \in i + 1 + 1..Len(toSam) PROVE ~SetFor(p, toSam[j])
      <3>1. j - 1 \in i + 1..Len(toSam') /\ j - 1 \in 1..Len(toSam') /\ j - 1 + 1 = j
        BY <1>1
      <3>2. toSam'[j - 1] = toSam[j]
        BY <1>1, <3>1
      <3>. QED BY <1>3, <3>1, <3>2
    <2>. QED BY <1>3, <2>1, <2>2 DEF Sought
  <1>4. ASSUME \A i \in 1..Len(toSam') : ~SetFor(p, toSam'[i]) PROVE Matches(p)'
    <2>1. ASSUME NEW i \in 1..Len(toSam), i # 1 PROVE ~SetFor(p, toSam[i])
      <3>1. i - 1 \in 1..Len(toSam') /\ i - 1 + 1 = i
        BY <1>2, <2>1
      <3>2. toSam'[i - 1] = toSam[i]
        BY <1>1, <3>1
      <3>. QED BY <1>4, <3>1, <3>2
    <2>2. CASE SetFor(p, toSam[1])
      <3>1. \A j \in 1 + 1..Len(toSam) : j \in 1..Len(toSam) /\ j # 1
        BY <1>1
      <3>. QED BY <1>2, <2>1, <2>2, <3>1 DEF Sought
    <2>3. CASE ~SetFor(p, toSam[1])
      BY <2>1, <2>3 DEF Sought
    <2>. QED BY <2>2, <2>3
  <1>. QED BY <1>3, <1>4 DEF Sought

LEMMA LoopSets == ASSUME TypeInv, Control, Plan, Protocol, Sets, Loop PROVE Sets'
  <1>0. UNCHANGED host
    BY DEF Loop
  <1>1. CASE main \notin Session
    BY <1>0, <1>1, HostKept DEF Sets
  <1>2. CASE main \in Session
    <2>. SUFFICES ASSUME NEW p \in Pins, Object(p) PROVE Sought(p)'
      BY <1>0, HostKept DEF Sets
    <2>0. /\ Sought(p) /\ staging' = staging /\ staging[p] \in Settings(p)
          /\ DOMAIN st = Pins /\ \A q \in Pins : st[q] \in States(q)
      BY <1>0, <1>2 DEF Sets, host, Plan, TypeInv, DaemonTypes
    <2>1. CASE ReportStatus(Open)
      <3>1. PICK reached \in SUBSET Pins,
                 level \in LevelsFound,
                 analog \in AnalogFound :
                   Report(reached, level, analog)
        BY <2>1, ReportFacts
      <3>2. /\ toSam' = toSam
            /\ st'[p] = IF p \in reached /\ Visited(p) THEN Refreshed(p, level) ELSE st[p]
        BY <3>1 DEF Report, Visit
      <3>3. CASE p \in reached /\ Visited(p)
        <4>1. /\ st'[p] = Refreshed(p, level)
              /\ p \in Gpio => /\ Refreshed(p, level).dir = st[p].dir
                               /\ st[p].dir # "In" => Refreshed(p, level) = st[p]
              /\ p \in Pwm => Refreshed(p, level) = PwmPin_Set(st[p])
              /\ p \in Adc => Refreshed(p, level) = st[p]
          BY <2>0, <3>2, <3>3, RefreshedFacts
        <4>2. p \in Pwm => /\ PwmPin_Set(st[p]).set = st[p].set
                           /\ PwmPin_Set(st[p]).ramp = st[p].ramp
          BY <2>0, PwmSetFacts
        <4>3. Matches(p) => Matches(p)'
          BY <2>0, <4>1, <4>2 DEF Matches
        <4>. QED BY <2>0, <3>2, <4>3, SoughtKept
      <3>4. CASE ~(p \in reached /\ Visited(p))
        <4>1. Matches(p) => Matches(p)'
          BY <2>0, <3>2, <3>4 DEF Matches
        <4>. QED BY <2>0, <3>2, <4>1, SoughtKept
      <3>. QED BY <3>3, <3>4
    <2>2. CASE ProcessMessage(Open)
      <3>1. PICK q \in Pins :
              \/ ProcessSet(q) /\ enabled[q]
              \/ Current(q) /\ Requested(q) /\ toSam' = <<>> /\ Wanted /\ ProcessEnable(q)
              \/ Current(q) /\ Requested(q) /\ toSam' = <<>> /\ ~Wanted /\ ProcessDisable(q)
        BY <1>2, <2>2, Obeys
      <3>2. CASE ProcessSet(q)
        <4>0. PICK to, pwm : /\ to = toSam[1].to
                             /\ pwm = [val |-> st[q].val, set |-> to.val, ramp |-> to.ramp]
          OBVIOUS
        <4>1. /\ toSam[1].pin = q /\ toSam[1].do = "set" /\ to \in Settings(q) /\ Process("set")
              /\ p # q => st'[p] = st[p]
              /\ q \in Gpio => st'[q] = to
              /\ q \in Adc => st'[q] = IF to.thresh > 0 THEN to ELSE st[q]
              /\ q \in Pwm => pwm \in States(q) /\ st'[q] = PwmPin_Set(pwm)
          BY <3>2, <4>0, SettingFacts
        <4>2. CASE p # q
          <5>1. ~SetFor(p, toSam[1]) /\ (Matches(p) => Matches(p)')
            BY <2>0, <4>1, <4>2 DEF SetFor, Matches
          <5>. QED BY <2>0, <4>1, <5>1, SoughtTail
        <4>3. CASE p = q
          <5>1. to = staging[p] => Matches(p)'
            <6>1. q \in Pwm => PwmPin_Set(pwm).set = to.val /\ PwmPin_Set(pwm).ramp = to.ramp
              BY <4>0, <4>1, PwmSetFacts
            <6>. QED BY <2>0, <4>1, <4>3, <6>1 DEF Matches
          <5>2. SetFor(p, toSam[1])
            BY <4>1, <4>3 DEF SetFor
          <5>. QED BY <2>0, <4>0, <4>1, <5>1, <5>2, SoughtTail
        <4>. QED BY <4>2, <4>3
      <3>3. CASE ~ProcessSet(q)
        <4>1. /\ Current(q) /\ Requested(q) /\ toSam' = <<>>
              /\ ProcessEnable(q) \/ ProcessDisable(q)
          BY <3>1, <3>3
        <4>2. p # q
          <5>1. map[q] # "pin"
            BY <4>1 DEF Current, Waiting, Control, Adding, Removing, Session
          <5>. QED BY <5>1 DEF Object
        <4>3. st'[p] = st[p]
          BY <2>0, <4>1, <4>2 DEF ProcessEnable, ProcessDisable
        <4>4. PICK do \in {"enable", "disable"} : Process(do)
          BY <4>1 DEF ProcessEnable, ProcessDisable, ProcessRequest
        <4>5. ~SetFor(p, toSam[1])
          BY <4>4, ProcessFacts DEF SetFor
        <4>6. Matches(p) => Matches(p)'
          BY <2>0, <4>3 DEF Matches
        <4>. QED BY <2>0, <4>4, <4>5, <4>6, SoughtTail
      <3>. QED BY <3>2, <3>3
    <2>. QED BY <2>1, <2>2 DEF Loop
  <1>. QED BY <1>1, <1>2

LEMMA SetsKept ==
  ASSUME Sets, main \in Session, UNCHANGED <<toSam, st>>,
         \A p \in Pins : Object(p)' => Object(p) /\ staging'[p] = staging[p]
  PROVE  Sets'
  <1>. SUFFICES ASSUME NEW p \in Pins, Object(p)' PROVE Sought(p)'
    BY DEF Sets
  <1>1. Sought(p) /\ staging'[p] = staging[p]
    BY DEF Sets
  <1>2. Matches(p) => Matches(p)'
    BY <1>1 DEF Matches
  <1>. QED BY <1>1, <1>2, SoughtKept

LEMMA SetsSend ==
  ASSUME TypeInv, Sets, main \in Session, UNCHANGED st, NEW l \in Requests, Send(l),
         \A p \in Pins : Object(p)' => IF SetFor(p, l) THEN l.to = staging'[p]
                                       ELSE Object(p) /\ staging'[p] = staging[p]
  PROVE  Sets'
  <1>. SUFFICES ASSUME NEW p \in Pins, Object(p)' PROVE Sought(p)'
    BY DEF Sets
  <1>1. CASE SetFor(p, l)
    BY <1>1, SoughtNew
  <1>2. CASE ~SetFor(p, l)
    <2>1. Sought(p) /\ staging'[p] = staging[p]
      BY <1>2 DEF Sets
    <2>2. Matches(p) => Matches(p)'
      BY <2>1 DEF Matches
    <2>. QED BY <1>2, <2>1, <2>2, SoughtSend
  <1>. QED BY <1>1, <1>2

LEMMA OperateSets ==
  ASSUME TypeInv, Control, Plan, Sets, main \in Session, Operate, main' # "down" PROVE Sets'
  <1>0. /\ todo # <<>> => Pin \in Pins /\ Head(todo) = todo[1]
        /\ map \in [Pins -> {"none", "base", "pin"}] /\ DOMAIN staging = Pins
    BY PinFacts DEF TypeInv, HostTypes
  <1>1. CASE GetSend \/ ReturnSend
    <2>1. /\ UNCHANGED <<st, staging, todo>> /\ todo # <<>>
          /\ main' \in {"entry", "leave"}
          /\ map' = map \/ map' = [map EXCEPT ![Pin] = "base"]
          /\ \E do \in {"enable", "disable"} : Send(Request(Pin, do))
      BY <1>1 DEF GetSend, ReturnSend, Goto, Op, daemon
    <2>2. PICK do \in {"enable", "disable"} : Send(Request(Pin, do))
      BY <2>1
    <2>3. \A p \in Pins : Object(p)' => map[p] = "pin" /\ main = "idle"
      BY <1>0, <1>1, <2>1 DEF Object, GetSend, ReturnSend
    <2>4. \A p \in Pins : Object(p)' => Object(p) /\ staging'[p] = staging[p]
      BY <2>1, <2>3 DEF Object
    <2>5. \A p : ~SetFor(p, Request(Pin, do))
      BY DEF SetFor, Request
    <2>6. Request(Pin, do) \in Requests
      BY <1>0, <2>1, RequestTypes
    <2>. QED BY <2>1, <2>2, <2>4, <2>5, <2>6, SetsSend
  <1>2. CASE GetEntry \/ ReturnEntry \/ GetAnswered \/ ReturnAnswered
    <2>1. UNCHANGED <<st, staging, todo, map, toSam>> /\ main # "construct" /\ main' # "construct"
      BY <1>2 DEF GetEntry, ReturnEntry, MakeEntry, GetAnswered, ReturnAnswered, Answered, Goto, daemon
    <2>2. \A p \in Pins : Object(p)' => Object(p) /\ staging'[p] = staging[p]
      BY <2>1 DEF Object
    <2>. QED BY <2>1, <2>2, SetsKept
  <1>3. CASE GetMap \/ Derive
    <2>1. /\ \/ main = "map" /\ main' = "derive" /\ map' = [map EXCEPT ![Pin] = "base"]
             \/ main = "derive" /\ main' = "construct" /\ map' = [map EXCEPT ![Pin] = "pin"]
          /\ UNCHANGED <<st, staging, toSam, todo>> /\ Pin \in Pins
      BY <1>0, <1>3 DEF GetMap, Derive, Remap, Goto, Control, Adding, Op, daemon
    <2>2. \A p \in Pins : Object(p)' => Object(p) /\ staging'[p] = staging[p]
      BY <1>0, <2>1 DEF Object, Pin
    <2>. QED BY <2>1, <2>2, SetsKept
  <1>4. CASE Construct
    <2>1. /\ main = "construct" /\ main' = "idle" /\ Pin \in Pins
          /\ UNCHANGED <<map, st>>
      BY <1>4, ConstructFacts DEF daemon
    <2>2. PICK s \in Settings(Pin) : /\ Send(SetRequest(Pin, s))
                                     /\ staging' = [staging EXCEPT ![Pin] = s]
      BY <1>4, ConstructFacts
    <2>3. PICK q \in Pins : q = Pin
      BY <2>1
    <2>4. /\ SetRequest(q, s) \in Requests /\ SetRequest(q, s).pin = q
          /\ SetRequest(q, s).do = "set" /\ SetRequest(q, s).to = s
      BY <2>2, <2>3, SetRequestFacts
    <2>5. \A p \in Pins : p # q => (Object(p)' => Object(p)) /\ staging'[p] = staging[p]
      BY <1>0, <2>1, <2>2, <2>3 DEF Object
    <2>6. staging'[q] = s
      BY <1>0, <2>2, <2>3
    <2>7. \A p \in Pins : Object(p)' => IF SetFor(p, SetRequest(q, s)) THEN SetRequest(q, s).to = staging'[p]
                                         ELSE Object(p) /\ staging'[p] = staging[p]
      BY <2>4, <2>5, <2>6 DEF SetFor
    <2>. QED BY <2>1, <2>2, <2>3, <2>4, <2>7, SetsSend
  <1>5. CASE SetState
    <2>1. /\ main = "idle" /\ main' = "idle" /\ Op("set")
          /\ UNCHANGED <<map, st>>
          /\ staging' = [staging EXCEPT ![Pin][Head(todo).part] = Head(todo).to]
          /\ Send(SetRequest(Pin, staging'[Pin]))
      BY <1>5 DEF SetState, Finished, Goto, daemon
    <2>2. /\ Pin \in Pins /\ staging'[Pin] \in Settings(Pin)
          /\ \A p \in Pins : p # Pin => staging'[p] = staging[p]
      BY <1>0, <2>1, StagedFacts DEF Op
    <2>3. PICK q \in Pins : q = Pin
      BY <2>2
    <2>4. PICK s \in Settings(q) : s = staging'[q]
      BY <2>2, <2>3
    <2>5. /\ SetRequest(q, s) \in Requests /\ SetRequest(q, s).pin = q
          /\ SetRequest(q, s).do = "set" /\ SetRequest(q, s).to = s
      BY SetRequestFacts
    <2>6. \A p \in Pins : (Object(p)' => Object(p)) /\ (p # q => staging'[p] = staging[p])
      BY <2>1, <2>2, <2>3 DEF Object
    <2>7. \A p \in Pins : Object(p)' => IF SetFor(p, SetRequest(q, s)) THEN SetRequest(q, s).to = staging'[p]
                                         ELSE Object(p) /\ staging'[p] = staging[p]
      BY <2>4, <2>5, <2>6 DEF SetFor
    <2>8. Send(SetRequest(q, s))
      BY <2>1, <2>3, <2>4
    <2>. QED BY <2>1, <2>5, <2>7, <2>8, SetsSend
  <1>6. CASE ReturnMap
    <2>1. /\ main = "unmap" /\ main' = "idle" /\ map' = [map EXCEPT ![Pin] = "none"]
          /\ UNCHANGED <<st, toSam>> /\ Pin \in Pins
          /\ staging' = [staging EXCEPT ![Pin] = None]
      BY <1>0, <1>6 DEF ReturnMap, Remap, Finished, Goto, Control, Removing, Op, daemon
    <2>2. \A p \in Pins : Object(p)' => Object(p) /\ staging'[p] = staging[p]
      BY <1>0, <2>1 DEF Object
    <2>. QED BY <2>1, <2>2, SetsKept
  <1>7. CASE GetTwice
    BY <1>7 DEF GetTwice, End
  <1>. QED BY <1>1, <1>2, <1>3, <1>4, <1>5, <1>6, <1>7 DEF Operate

LEMMA NextSets ==
  ASSUME TypeInv, Control, Plan, Greeting, Protocol, Sets, MotorsNext PROVE Sets'
  <1>1. CASE Loop
    BY <1>1, LoopSets
  <1>2. CASE main' \notin Session
    BY <1>2 DEF Sets
  <1>3. CASE main \notin Session /\ main' \in Session
    <2>1. UNCHANGED map
      BY <1>3, SessionBegins, ResetRead
    <2>2. \A p \in Pins : map'[p] = "none"
      BY <1>3, <2>1 DEF Control
    <2>. QED BY <2>2 DEF Sets, Object
  <1>4. CASE main \in Session /\ (MotorCall \/ PinCall)
    <2>1. UNCHANGED <<toSam, st, staging>> /\ \A p \in Pins : Object(p)' => Object(p)
      BY <1>4, CallFacts DEF Called, daemon, Object
    <2>. QED BY <1>4, <2>1, SetsKept
  <1>5. CASE main \in Session /\ main' \in Session /\ Operate
    BY <1>5, OperateSets DEF Session
  <1>6. CASE main \in Session /\ main' \in Session /\ Reader
    <2>1. UNCHANGED <<toSam, st, staging, map, main, todo>>
      BY <1>6 DEF Reader, RouteAnswer, RouteValue, ReaderDies, End, Session, daemon
    <2>2. \A p \in Pins : Object(p)' => Object(p)
      BY <2>1 DEF Object, Pin
    <2>. QED BY <1>6, <2>1, <2>2, SetsKept
  <1>7. CASE main \in Session /\ main' \in Session /\ (Connect \/ Quit \/ Start)
    BY <1>7 DEF Connect, Ping, ReadPong, GiveUp, SendReset, ReadReset, NotReset, Quit, End, Start,
                Session
  <1>. QED BY <1>1, <1>2, <1>3, <1>4, <1>5, <1>6, <1>7 DEF MotorsNext, Serve

-----------------------------------------------------------------------------
(* What the host believes of the pins.                                     *)
LEMMA BelievedKept ==
  ASSUME NEW p, Believed(p), UNCHANGED <<toHost, rep>>,
         told'[p] => told[p] /\ cache'[p] = cache[p]
  PROVE  Believed(p)'
  BY DEF Believed

LEMMA BelievedTail ==
  ASSUME TypeInv, ReadLine, NEW p, Believed(p), UNCHANGED rep,
         IF ValueOf(p, toHost[1]) THEN cache'[p] = toHost[1].is
                                  ELSE told'[p] => told[p] /\ cache'[p] = cache[p]
  PROVE  Believed(p)'
  <1>1. /\ Len(toHost) \in Nat \ {0} /\ Len(toHost') = Len(toHost) - 1
        /\ \A i \in 1..Len(toHost') : toHost'[i] = toHost[i + 1]
    BY ReadFacts
  <1>2. /\ \A i \in 1..Len(toHost') : i + 1 \in 1..Len(toHost)
        /\ \A i \in 1..Len(toHost) : i = 1 \/ (i - 1 \in 1..Len(toHost') /\ i - 1 + 1 = i)
        /\ 1 \in 1..Len(toHost)
    BY <1>1
  <1>3. ASSUME NEW i \in 1..Len(toHost'), ValueOf(p, toHost'[i]),
               \A j \in i + 1..Len(toHost') : ~ValueOf(p, toHost'[j])
        PROVE  toHost'[i].is = rep'[p]
    <2>1. i + 1 \in 1..Len(toHost) /\ toHost'[i] = toHost[i + 1]
      BY <1>1, <1>2
    <2>2. ASSUME NEW j \in i + 1 + 1..Len(toHost) PROVE ~ValueOf(p, toHost[j])
      <3>1. j - 1 \in i + 1..Len(toHost') /\ j - 1 \in 1..Len(toHost') /\ j - 1 + 1 = j
        BY <1>1
      <3>2. toHost'[j - 1] = toHost[j]
        BY <1>1, <3>1
      <3>. QED BY <1>3, <3>1, <3>2
    <2>. QED BY <1>3, <2>1, <2>2 DEF Believed
  <1>4. ASSUME told'[p], \A i \in 1..Len(toHost') : ~ValueOf(p, toHost'[i])
        PROVE  cache'[p] = rep'[p]
    <2>1. ASSUME NEW i \in 1..Len(toHost), i # 1 PROVE ~ValueOf(p, toHost[i])
      <3>1. i - 1 \in 1..Len(toHost') /\ i - 1 + 1 = i
        BY <1>2, <2>1
      <3>2. toHost'[i - 1] = toHost[i]
        BY <1>1, <3>1
      <3>. QED BY <1>4, <3>1, <3>2
    <2>2. CASE ValueOf(p, toHost[1])
      <3>1. \A j \in 1 + 1..Len(toHost) : j \in 1..Len(toHost) /\ j # 1
        BY <1>1
      <3>. QED BY <1>2, <2>1, <2>2, <3>1 DEF Believed
    <2>3. CASE ~ValueOf(p, toHost[1])
      BY <1>4, <2>1, <2>3 DEF Believed
    <2>. QED BY <2>2, <2>3
  <1>. QED BY <1>3, <1>4 DEF Believed

LEMMA ReportBelieved ==
  ASSUME TypeInv, Open, Intact', NEW reached \in SUBSET Pins,
         NEW level \in LevelsFound,
         NEW analog \in AnalogFound,
         Report(reached, level, analog), UNCHANGED host, NEW q \in Pins, Believed(q)
  PROVE  Believed(q)'
  <1>0. /\ DaemonTypes /\ enabled[q] \in BOOLEAN /\ shown[q] \in BOOLEAN
        /\ q # None /\ Len(toHost) \in Nat /\ UNCHANGED <<cache, told>>
    BY Kinds, SeqFacts DEF TypeInv, DaemonTypes, host
  <1>1. /\ reached = Pins
        /\ \A p \in Pins : Speaks(p, level, analog) =>
             \E i \in Len(toHost) + 1..Len(toHost') : toHost'[i] = Line(p, level, analog)
    <2>1. Heard(reached, level, analog)
      BY DEF Report
    <2>2. ~spoilt' /\ ~\E i \in 1..Len(toHost') : toHost'[i] = Junk
      BY JunkFacts DEF Intact
    <2>. QED BY <2>1, <2>2 DEF Heard
  <1>2. rep'[q] = IF SaysValue(q, level, analog) THEN Value(q, level, analog) ELSE rep[q]
    BY <1>1 DEF Report, Visit
  <1>3. /\ Len(toHost') \in Nat /\ Len(toHost) <= Len(toHost')
        /\ \A i \in 1..Len(toHost) : i \in 1..Len(toHost') /\ toHost'[i] = toHost[i]
    BY ReportSays
  <1>4. ASSUME NEW i \in 1..Len(toHost'), i \notin 1..Len(toHost), ValueOf(q, toHost'[i])
        PROVE  SaysValue(q, level, analog)
    <2>1. toHost'[i].pin # None /\ toHost'[i].pin = q /\ toHost'[i].says = "value"
      BY <1>0, <1>4 DEF ValueOf
    <2>2. PICK p \in reached : /\ Speaks(p, level, analog)
                               /\ toHost'[i] = Line(p, level, analog)
                               /\ toHost'[i].pin = p
      BY <1>4, <2>1, ReportSays, JunkFacts
    <2>3. p = q
      BY <2>1, <2>2
    <2>. QED BY <1>0, <2>1, <2>2, <2>3, LineOf
  <1>5. CASE SaysValue(q, level, analog)
    <2>1. Speaks(q, level, analog) /\ enabled[q] = shown[q]
      BY <1>0, <1>5 DEF Speaks, SaysValue
    <2>2. PICK k \in Len(toHost) + 1..Len(toHost') : toHost'[k] = Line(q, level, analog)
      BY <1>1, <2>1
    <2>3. ValueOf(q, toHost'[k]) /\ toHost'[k].is = rep'[q] /\ toHost'[k].pin = q
      BY <1>0, <1>2, <1>5, <2>1, <2>2, LineOf DEF ValueOf
    <2>4. k \in 1..Len(toHost')
      BY <1>0, <1>3
    <2>5. ASSUME NEW i \in 1..Len(toHost'), ValueOf(q, toHost'[i]),
                 \A j \in i + 1..Len(toHost') : ~ValueOf(q, toHost'[j])
          PROVE  i = k
      <3>1. CASE i \in 1..Len(toHost)
        <4>1. k \in i + 1..Len(toHost')
          BY <1>0, <1>3, <3>1
        <4>. QED BY <2>3, <2>5, <4>1
      <3>2. CASE i \notin 1..Len(toHost)
        <4>1. i \in Len(toHost) + 1..Len(toHost')
          BY <1>0, <1>3, <3>2
        <4>2. toHost'[i].pin = toHost'[k].pin
          BY <2>3, <2>5 DEF ValueOf
        <4>. QED BY <2>2, <4>1, <4>2 DEF Report, Heard
      <3>. QED BY <3>1, <3>2
    <2>. QED BY <2>3, <2>4, <2>5 DEF Believed
  <1>6. CASE ~SaysValue(q, level, analog)
    <2>1. ASSUME NEW i \in 1..Len(toHost'), ValueOf(q, toHost'[i]),
                 \A j \in i + 1..Len(toHost') : ~ValueOf(q, toHost'[j])
          PROVE  toHost'[i].is = rep'[q]
      <3>1. i \in 1..Len(toHost)
        BY <1>4, <1>6, <2>1
      <3>2. \A j \in i + 1..Len(toHost) : j \in i + 1..Len(toHost') /\ j \in 1..Len(toHost)
        BY <1>0, <1>3, <3>1
      <3>3. toHost'[i] = toHost[i] /\ \A j \in i + 1..Len(toHost) : ~ValueOf(q, toHost[j])
        BY <1>3, <2>1, <3>1, <3>2
      <3>. QED BY <1>2, <1>6, <2>1, <3>1, <3>3 DEF Believed
    <2>2. ASSUME told'[q], \A i \in 1..Len(toHost') : ~ValueOf(q, toHost'[i])
          PROVE  cache'[q] = rep'[q]
      BY <1>0, <1>2, <1>3, <1>6, <2>2 DEF Believed
    <2>. QED BY <2>1, <2>2 DEF Believed
  <1>. QED BY <1>5, <1>6

(* The reader takes no junk while the session lasts.                       *)
LEMMA ReadIntact ==
  ASSUME TypeInv, ReadLine, toHost[1].says # "Junk", UNCHANGED spoilt, Intact'
  PROVE  Intact
  <1>1. /\ Len(toHost) \in Nat \ {0} /\ Len(toHost') = Len(toHost) - 1
        /\ \A i \in 1..Len(toHost') : toHost'[i] = toHost[i + 1]
    BY ReadFacts
  <1>2. \A i \in 1..Len(toHost) : i = 1 \/ (i - 1 \in 1..Len(toHost') /\ i - 1 + 1 = i)
    BY <1>1
  <1>3. ASSUME NEW i \in 1..Len(toHost), i # 1 PROVE toHost[i].says # "Junk"
    <2>1. i - 1 \in 1..Len(toHost') /\ i - 1 + 1 = i
      BY <1>2, <1>3
    <2>2. toHost'[i - 1] = toHost[i]
      BY <1>1, <2>1
    <2>. QED BY <2>1, <2>2 DEF Intact
  <1>. QED BY <1>3 DEF Intact

LEMMA LoopValues == ASSUME TypeInv, Control, Protocol, Values, Loop PROVE Values'
  <1>0. UNCHANGED host
    BY DEF Loop
  <1>. SUFFICES ASSUME main \in Session, Intact', NEW p \in Pins PROVE Believed(p)'
    BY <1>0, HostKept DEF Values
  <1>1. CASE ReportStatus(Open)
    <2>1. PICK reached \in SUBSET Pins,
               level \in LevelsFound,
               analog \in AnalogFound :
                 Report(reached, level, analog)
      BY <1>1, ReportFacts
    <2>2. Open
      BY DEF Open, Session
    <2>3. Believed(p)
      BY <2>1, <2>2, ReportBroken DEF Values
    <2>. QED BY <1>0, <2>1, <2>2, <2>3, ReportBelieved
  <1>2. CASE ProcessMessage(Open)
    <2>1. UNCHANGED <<toHost, spoilt, rep>>
      BY <1>2, Obeys DEF ProcessSet, ProcessEnable, ProcessDisable, ProcessRequest
    <2>2. Intact
      BY <2>1 DEF Intact
    <2>. QED BY <1>0, <2>1, <2>2, BelievedKept DEF Values, host
  <1>. QED BY <1>1, <1>2 DEF Loop

LEMMA OperateValues ==
  ASSUME TypeInv, Control, Values, main \in Session, Operate, main' # "down" PROVE Values'
  <1>0. /\ DOMAIN cache = Pins /\ told \in [Pins -> BOOLEAN]
        /\ todo # <<>> => Pin \in Pins
    BY PinFacts DEF TypeInv, HostTypes
  <1>1. UNCHANGED <<toHost, rep, spoilt>>
    BY DEF Operate, GetSend, GetTwice, GetEntry, MakeEntry, GetAnswered, Answered, GetMap,
           Derive, Remap, Construct, SetState, ReturnSend, ReturnEntry, ReturnAnswered,
           ReturnMap, End, daemon
  <1>2. \A p \in Pins : told'[p] => told[p] /\ cache'[p] = cache[p]
    <2>1. CASE Construct
      BY <1>0, <2>1 DEF Construct, Control, Adding, Op
    <2>2. CASE ReturnMap
      BY <1>0, <2>2 DEF ReturnMap, Control, Removing, Op
    <2>3. CASE ~Construct /\ ~ReturnMap
      <3>1. UNCHANGED <<told, cache>>
        BY <2>3 DEF Operate, GetSend, GetTwice, GetEntry, MakeEntry, GetAnswered, Answered, GetMap,
               Derive, Remap, SetState, ReturnSend, ReturnEntry, ReturnAnswered, End
      <3>. QED BY <3>1
    <2>. QED BY <2>1, <2>2, <2>3
  <1>3. Intact' => Intact
    BY <1>1 DEF Intact
  <1>. QED BY <1>1, <1>2, <1>3, BelievedKept DEF Values

LEMMA ReaderValues ==
  ASSUME TypeInv, Control, Values, main \in Session, RouteAnswer \/ RouteValue PROVE Values'
  <1>1. /\ ReadLine /\ UNCHANGED <<rep, spoilt>>
        /\ Head(toHost) = toHost[1] /\ toHost[1] \in Lines
        /\ DOMAIN cache = Pins /\ told \in [Pins -> BOOLEAN]
    BY ReadFacts DEF RouteAnswer, RouteValue, daemon, TypeInv, HostTypes
  <1>2. CASE RouteAnswer
    <2>1. IsAnswer(toHost[1]) /\ UNCHANGED <<cache, told>>
      BY <1>1, <1>2 DEF RouteAnswer
    <2>2. toHost[1].pin \in Pins /\ toHost[1].says # "value"
      BY <2>1, WaitingPin DEF IsAnswer, Awaited, Control, Waiting
    <2>3. toHost[1].says # "Junk"
      BY <1>1, <2>2, LineFacts, Kinds
    <2>4. Intact' => Intact
      BY <1>1, <2>3, ReadIntact
    <2>5. ASSUME NEW p \in Pins, Intact' PROVE Believed(p)'
      <3>1. ~ValueOf(p, toHost[1])
        BY <2>2 DEF ValueOf
      <3>2. Believed(p)
        BY <2>4, <2>5 DEF Values
      <3>. QED BY <1>1, <2>1, <3>1, <3>2, BelievedTail
    <2>. QED BY <2>5 DEF Values
  <1>3. CASE RouteValue
    <2>1. /\ IsValue(toHost[1])
          /\ cache' = [cache EXCEPT ![toHost[1].pin] = toHost[1].is]
          /\ told' = [told EXCEPT ![toHost[1].pin] = TRUE]
      BY <1>1, <1>3 DEF RouteValue
    <2>2. toHost[1].says = "value" /\ toHost[1].pin \in Pins
      BY <1>1, <2>1, LineFacts DEF IsValue
    <2>3. Intact' => Intact
      BY <1>1, <2>2, ReadIntact
    <2>4. ASSUME NEW p \in Pins, Intact' PROVE Believed(p)'
      <3>1. IF ValueOf(p, toHost[1]) THEN cache'[p] = toHost[1].is
                                     ELSE told'[p] => told[p] /\ cache'[p] = cache[p]
        BY <1>1, <2>1, <2>2 DEF ValueOf
      <3>2. Believed(p)
        BY <2>3, <2>4 DEF Values
      <3>. QED BY <1>1, <3>1, <3>2, BelievedTail
    <2>. QED BY <2>4 DEF Values
  <1>. QED BY <1>2, <1>3

LEMMA NextValues ==
  ASSUME TypeInv, Control, Greeting, Protocol, Values, MotorsNext PROVE Values'
  <1>1. CASE Loop
    BY <1>1, LoopValues
  <1>2. CASE main' \notin Session
    BY <1>2 DEF Values
  <1>3. CASE main \notin Session /\ main' \in Session
    <2>1. toHost' = <<>> /\ UNCHANGED told
      BY <1>3, SessionBegins, ResetRead
    <2>2. Len(toHost') = 0 /\ \A p \in Pins : ~told'[p]
      BY <1>3, <2>1 DEF Control
    <2>. QED BY <2>2 DEF Values, Believed
  <1>4. CASE main \in Session /\ (MotorCall \/ PinCall)
    <2>1. UNCHANGED <<toHost, rep, cache, told, spoilt>>
      BY <1>4, CallFacts DEF Called, daemon
    <2>2. Intact' => Intact
      BY <2>1 DEF Intact
    <2>. QED BY <1>4, <2>1, <2>2, BelievedKept DEF Values
  <1>5. CASE main \in Session /\ main' \in Session /\ Operate
    BY <1>5, OperateValues DEF Session
  <1>6. CASE main \in Session /\ main' \in Session /\ (RouteAnswer \/ RouteValue)
    BY <1>6, ReaderValues
  <1>7. CASE main \in Session /\ main' \in Session /\ (ReaderDies \/ Connect \/ Quit \/ Start)
    BY <1>7 DEF ReaderDies, Connect, Ping, ReadPong, GiveUp, SendReset, ReadReset, NotReset, Quit,
                End, Start, Session
  <1>. QED BY <1>1, <1>2, <1>3, <1>4, <1>5, <1>6, <1>7 DEF MotorsNext, Serve, Reader

-----------------------------------------------------------------------------
(* The inductive invariant.                                                *)
LEMMA InitInv == MotorsInit => IInv
  <1>. SUFFICES ASSUME MotorsInit PROVE IInv
    OBVIOUS
  <1>1. /\ DaemonTypes /\ toSam = <<>> /\ toHost = <<>>
        /\ main = "down" /\ tries = 0 /\ work \in 0..MaxWork /\ todo = <<>> /\ entry = None
        /\ map = [p \in Pins |-> "none"] /\ told = [p \in Pins |-> FALSE]
        /\ NoObjects(staging) /\ NoObjects(cache) /\ velocity = None
    BY InitDaemonTypes DEF MotorsInit, Init, DaemonInit
  <1>2. SerialTypes /\ Len(todo) = 0
    BY <1>1, PinAssumption DEF SerialTypes
  <1>3. HostTypes
    BY <1>1, HostAssumption DEF HostTypes, NoObjects
  <1>4. main \notin Session \cup Handshake \cup Adding \cup Removing
    BY <1>1 DEF Session, Handshake, Adding, Removing
  <1>5. TypeInv /\ Control
    BY <1>1, <1>2, <1>3, <1>4 DEF TypeInv, Control, Op, Session
  <1>6. Plan
    BY <1>1, <1>2 DEF Plan, Object
  <1>7. Greeting /\ Protocol /\ Drives /\ Sets /\ Values /\ Motor
    BY <1>1, <1>4 DEF Greeting, Protocol, Drives, Sets, Values, Motor
  <1>. QED BY <1>5, <1>6, <1>7 DEF IInv

LEMMA StutterInv == IInv /\ UNCHANGED allVars => IInv'
  <1>. SUFFICES ASSUME IInv, UNCHANGED allVars PROVE IInv'
    OBVIOUS
  <1>. USE DEF IInv, allVars, vars, motors, daemon, host
  <1>1. TypeInv'
    BY DEF TypeInv, DaemonTypes, SerialTypes, HostTypes
  <1>2. Control'
    BY DEF Control, Op, Pin, NoObjects
  <1>3. Plan'
    BY DEF Plan, Object, InUse, Pin
  <1>4. Greeting'
    BY DEF Greeting, NoReset, Quiet, Still
  <1>5. Protocol'
    <2>1. /\ Asked' <=> Asked
          /\ Said' <=> Said
          /\ \A p : (Current(p)' <=> Current(p)) /\ (Agreed(p)' <=> Agreed(p))
      BY DEF Asked, Said, Current, Agreed, Held, Silent, StatusLine, Waiting, Pin
    <2>2. \A p : /\ (Requested(p)' <=> Requested(p)) /\ (Obeyed(p)' <=> Obeyed(p))
                 /\ (Replied(p)' <=> Replied(p)) /\ (Over(p)' <=> Over(p)) /\ (Done' <=> Done)
      BY DEF Requested, Obeyed, Replied, Over, Done, Wanted, Silent, StatusLine, Intact
    <2>. QED BY <2>1, <2>2 DEF Protocol, Stage
  <1>6. Drives'
    BY DEF Drives, DrivenAs
  <1>7. Sets'
    BY DEF Sets, Sought, Matches, SetFor, Object, Pin
  <1>8. Values'
    BY DEF Values, Believed, ValueOf, Intact
  <1>9. Motor'
    BY DEF Motor, Made, Will, Touches, Object, Pin
  <1>. QED BY <1>1, <1>2, <1>3, <1>4, <1>5, <1>6, <1>7, <1>8, <1>9

LEMMA NextInv == IInv /\ [MotorsNext]_allVars => IInv'
  <1>1. ASSUME IInv, MotorsNext PROVE IInv'
    BY <1>1, NextTypes, NextControl, NextPlan, NextGreeting, NextProtocol, NextDrives, NextSets,
       NextValues, NextMotor DEF IInv
  <1>. QED BY <1>1, StutterInv

(* What is under way between the host's threads, the line and the daemon   *)
(* keeps to the invariant, whatever the pins, the bounds and the program.  *)
THEOREM Invariance == MotorsSpec => []IInv
  BY InitInv, NextInv, PTL DEF MotorsSpec

(* Every variable of the SAM and its host has its type: no pin is ever set *)
(* outside its range, and no line but a known one is on the serial line.   *)
THEOREM SamTypeCorrect == MotorsSpec => []TypeOK
  <1>1. IInv => TypeOK
    BY TypesSuffice DEF IInv
  <1>. QED BY <1>1, Invariance, PTL

-----------------------------------------------------------------------------
(* The requests and answers under way for a pin, counted.                  *)
LEMMA CountFacts ==
  ASSUME TypeInv, NEW p
  PROVE  /\ Asking(p) = {} => Cardinality(Asking(p)) = 0
         /\ \A k : Asking(p) = {k} => Cardinality(Asking(p)) = 1
         /\ Telling(p) = {} => Cardinality(Telling(p)) = 0
         /\ \A k : Telling(p) = {k} => Cardinality(Telling(p)) = 1
         /\ Silent(p) => Telling(p) = {}
         /\ toSam = <<>> => Asking(p) = {}
  <1>1. \A S : S = {} => Cardinality(S) = 0
    BY FS_EmptySet
  <1>2. \A S, k : S = {k} => Cardinality(S) = 1
    BY FS_Singleton
  <1>3. Silent(p) => Telling(p) = {}
    BY DEF Silent, Telling
  <1>4. toSam = <<>> => Asking(p) = {}
    BY SeqFacts DEF Asking
  <1>. QED BY <1>1, <1>2, <1>3, <1>4

(* A pin for which nothing is waited has no request and no answer.         *)
LEMMA NoneUnderWay ==
  ASSUME IInv, main \in Session, NEW p \in Pins, ~Current(p) PROVE UnderWay(p) = 0
  <1>1. Asked /\ Agreed(p) /\ TypeInv
    BY DEF IInv, Protocol
  <1>2. Asking(p) = {}
    <2>. SUFFICES ASSUME NEW i \in 1..Len(toSam), StateRequest(p, toSam[i]) PROVE FALSE
      BY DEF Asking
    <2>1. Waiting /\ i = Len(toSam)
      BY <1>1 DEF Asked, StateRequest
    <2>2. PICK q \in Pins : q = Pin /\ Current(q)
      BY <1>1, <2>1, WaitingPin DEF IInv
    <2>3. Stage(q) /\ toSam # <<>>
      BY <1>1, <2>1, <2>2, SeqFacts DEF IInv, Protocol
    <2>4. toSam[i].pin = q
      BY <2>1, <2>3 DEF Stage, Requested, Obeyed, Replied, Over, Request
    <2>. QED BY <2>1, <2>2, <2>4 DEF Current, StateRequest
  <1>3. Telling(p) = {} /\ (enabled[p] <=> shown[p])
    BY <1>1, CountFacts DEF Agreed
  <1>4. enabled[p] = shown[p]
    BY <1>1, <1>3 DEF TypeInv, DaemonTypes
  <1>5. Cardinality(Asking(p)) = 0 /\ Cardinality(Telling(p)) = 0
    BY <1>1, <1>2, <1>3, CountFacts
  <1>. QED BY <1>4, <1>5 DEF UnderWay

LEMMA OneUnderWay ==
  ASSUME IInv, main \in Session, Intact, NEW p \in Pins, Current(p)
  PROVE  IF Done THEN UnderWay(p) = 0 /\ (entry.actual <=> Wanted) ELSE UnderWay(p) = 1
  <1>1. Stage(p) /\ TypeInv /\ enabled[p] \in BOOLEAN /\ shown[p] \in BOOLEAN
    BY DEF IInv, Protocol, TypeInv, DaemonTypes
  <1>2. CASE ~Done /\ Requested(p)
    <2>1. /\ toSam # <<>> /\ Telling(p) = {} /\ enabled[p] = shown[p]
          /\ toSam[Len(toSam)] = Request(p, IF Wanted THEN "enable" ELSE "disable")
      BY <1>1, <1>2, CountFacts DEF Requested
    <2>2. Len(toSam) \in 1..Len(toSam) /\ Asked
      BY <1>1, <2>1, SeqFacts DEF IInv, Protocol
    <2>3. StateRequest(p, toSam[Len(toSam)])
      BY <2>1 DEF StateRequest, Request
    <2>4. \A i \in 1..Len(toSam) : StateRequest(p, toSam[i]) => i = Len(toSam)
      BY <2>2 DEF Asked, StateRequest
    <2>5. Asking(p) = {Len(toSam)}
      BY <2>2, <2>3, <2>4 DEF Asking
    <2>6. Cardinality(Asking(p)) = 1 /\ Cardinality(Telling(p)) = 0
      BY <1>1, <2>1, <2>5, CountFacts
    <2>. QED BY <1>2, <2>1, <2>6 DEF UnderWay
  <1>3. CASE ~Done /\ Obeyed(p)
    <2>1. Asking(p) = {} /\ Telling(p) = {} /\ enabled[p] # shown[p]
      BY <1>1, <1>3, CountFacts DEF Obeyed
    <2>2. Cardinality(Asking(p)) = 0 /\ Cardinality(Telling(p)) = 0
      BY <1>1, <2>1, CountFacts
    <2>. QED BY <1>3, <2>1, <2>2 DEF UnderWay
  <1>4. CASE ~Done /\ Replied(p)
    <2>1. Asking(p) = {} /\ enabled[p] = shown[p]
      BY <1>1, <1>4, CountFacts DEF Replied
    <2>2. PICK k \in 1..Len(toHost) :
            /\ toHost[k] = Says(p, IF Wanted THEN "Enabled" ELSE "Disabled")
            /\ \A i \in 1..Len(toHost) : StatusLine(p, toHost[i]) => i = k
      BY <1>4 DEF Replied
    <2>3. StatusLine(p, toHost[k])
      BY <2>2 DEF StatusLine, Says
    <2>4. Telling(p) = {k}
      BY <2>2, <2>3 DEF Telling
    <2>5. Cardinality(Asking(p)) = 0 /\ Cardinality(Telling(p)) = 1
      BY <1>1, <2>1, <2>4, CountFacts
    <2>. QED BY <1>4, <2>1, <2>5 DEF UnderWay
  <1>5. CASE Over(p)
    <2>1. Asking(p) = {} /\ Telling(p) = {} /\ enabled[p] = shown[p]
      BY <1>1, <1>5, CountFacts DEF Over
    <2>2. Cardinality(Asking(p)) = 0 /\ Cardinality(Telling(p)) = 0
      BY <1>1, <2>1, CountFacts
    <2>3. Done /\ (entry.actual <=> Wanted)
      BY <1>5 DEF Over
    <2>. QED BY <2>1, <2>2, <2>3 DEF UnderWay
  <1>. QED BY <1>1, <1>2, <1>3, <1>4, <1>5 DEF Stage

(* While Get or Return waits, exactly one request or answer is under way   *)
(* for its pin, and none for any other; an answer that has come is the one *)
(* that was wanted, so the throws on the other answer are never reached.   *)
THEOREM AnsweringHolds == MotorsSpec => []Answering
  <1>1. ASSUME IInv PROVE Answering
    <2>. SUFFICES ASSUME main \in Session, Intact, NEW p \in Pins
                  PROVE  IF Waiting /\ p = Pin /\ ~(entry # None /\ entry.updated)
                         THEN UnderWay(p) = 1
                         ELSE /\ UnderWay(p) = 0
                              /\ Waiting /\ p = Pin => entry.actual = (main = "get")
      BY DEF Answering
    <2>1. CASE ~Current(p)
      BY <1>1, <2>1, NoneUnderWay DEF Current
    <2>2. CASE Current(p)
      <3>1. IF Done THEN UnderWay(p) = 0 /\ (entry.actual <=> Wanted) ELSE UnderWay(p) = 1
        BY <1>1, <2>2, OneUnderWay
      <3>2. Done => (Wanted <=> main = "get") /\ entry.actual \in BOOLEAN
        BY <1>1 DEF IInv, Done, Control, Wanted, TypeInv, HostTypes
      <3>. QED BY <2>2, <3>1, <3>2 DEF Current, Done
    <2>. QED BY <2>1, <2>2
  <1>. QED BY <1>1, Invariance, PTL

(* The SAM and the host have one view of which pins are in use: no line    *)
(* that a correct SAM sends can end the process.                           *)
THEOREM OneViewHolds == MotorsSpec => []OneView
  <1>1. ASSUME IInv PROVE SamePins
    <2>. SUFFICES ASSUME main = "idle", NEW p \in Pins
                  PROVE  map[p] # "base" /\ (enabled[p] <=> Exists(p))
      BY DEF SamePins
    <2>1. main \in Session /\ ~Current(p) /\ main \notin Adding \cup Removing
      BY DEF Session, Current, Waiting, Adding, Removing
    <2>2. Agreed(p) /\ map[p] # "base"
      BY <1>1, <2>1 DEF IInv, Protocol, Control
    <2>. QED BY <2>2 DEF Agreed, Held, Exists
  <1>2. ASSUME IInv PROVE NoStrayLine
    <2>. SUFFICES ASSUME main \in Session, Intact, NEW i \in 1..Len(toHost)
                  PROVE  /\ toHost[i].pin \in Pins
                         /\ Exists(toHost[i].pin) \/ (todo # <<>> /\ toHost[i].pin = Pin)
      BY DEF NoStrayLine
    <2>0. TypeInv /\ Said /\ Control
      BY <1>2 DEF IInv, Protocol
    <2>1. toHost[i] \in Lines /\ toHost[i].says \notin {"Pong", "Reset", "Junk"}
      BY <2>0, SeqFacts DEF Said, Intact
    <2>2. PICK p \in Pins : p = toHost[i].pin
      BY <2>1, LineFacts
    <2>3. main \in Adding \cup Removing => todo # <<>>
      BY <2>0 DEF Control, Op
    <2>4. Held(p) \/ Current(p)
      <3>1. CASE toHost[i].says = "value"
        BY <2>0, <2>2, <3>1 DEF Said
      <3>2. CASE toHost[i].says # "value"
        <4>1. StatusLine(p, toHost[i])
          BY <2>1, <2>2, <3>2, LineFacts DEF StatusLine
        <4>. QED BY <1>2, <4>1 DEF IInv, Protocol, Agreed, Silent
      <3>. QED BY <3>1, <3>2
    <2>. QED BY <2>2, <2>3, <2>4 DEF Held, Current, Exists, Waiting, Adding, Removing
  <1>. QED BY <1>1, <1>2, Invariance, PTL DEF OneView

(* IsConsistant tells the truth of a pin about which nothing is under way, *)
(* once the SAM has reported on it to the object that is asked.            *)
THEOREM ConsistentHolds == MotorsSpec => []Consistent
  <1>1. ASSUME IInv PROVE Consistent
    <2>. SUFFICES ASSUME NEW p \in Pins, Exists(p), told[p], Settled(p), Reported(p)
                  PROVE  IsConsistant(p)
      BY DEF Consistent
    <2>1. main = "idle" /\ Intact /\ main \in Session /\ Object(p)
      BY DEF Settled, Session, Exists, Object
    <2>2. /\ \A i \in 1..Len(toSam) : ~SetFor(p, toSam[i])
          /\ \A i \in 1..Len(toHost) : ~ValueOf(p, toHost[i])
      BY DEF Settled, SetFor, ValueOf
    <2>3. Matches(p) /\ cache[p] = rep[p] /\ staging[p] \in Settings(p)
      BY <1>1, <2>1, <2>2 DEF IInv, Sets, Sought, Values, Believed, Plan
    <2>4. CASE p \in Gpio
      BY <2>3, <2>4, Kinds DEF Matches, Reported, IsConsistant
    <2>5. CASE p \in Pwm
      <3>1. /\ st[p].val = st[p].set /\ rep[p] = [val |-> st[p].val, ramp |-> st[p].ramp]
            /\ st[p].set = staging[p].val /\ st[p].ramp = staging[p].ramp
        BY <2>3, <2>5, Kinds DEF Matches, Reported
      <3>2. staging[p] \in [val : Speeds, ramp : Ramps]
        BY <2>3, <2>5, PwmFacts
      <3>3. staging[p] = [val |-> staging[p].val, ramp |-> staging[p].ramp]
        BY <3>2
      <3>4. staging[p] = cache[p]
        BY <2>3, <3>1, <3>3
      <3>. QED BY <2>5, <3>4, Kinds DEF IsConsistant
    <2>6. CASE p \in Adc
      BY <2>3, <2>6, Kinds DEF Matches, Reported, IsConsistant
    <2>. QED BY <2>4, <2>5, <2>6, Kinds
  <1>. QED BY <1>1, Invariance, PTL

(* A PWM pin is driven by nobody once it has been deleted, unless it was   *)
(* deleted on its way to its set point.                                    *)
THEOREM OffWhenDeletedHolds == MotorsSpec => []OffWhenDeleted
  <1>1. ASSUME IInv PROVE OffWhenDeleted
    <2>. SUFFICES ASSUME NEW p \in Pwm, main = "idle", map[p] = "none" PROVE duty[p] = 0 \/ cut[p]
      BY DEF OffWhenDeleted
    <2>1. main \in Session /\ ~Current(p) /\ ~Held(p) /\ p \in Pins
      BY PwmFacts DEF Session, Current, Waiting, Held
    <2>2. DrivenAs(p) /\ Agreed(p)
      BY <1>1, <2>1 DEF IInv, Drives, Protocol
    <2>. QED BY <2>1, <2>2 DEF DrivenAs, Agreed
  <1>. QED BY <1>1, Invariance, PTL

(* A session begins with nothing under way and no pin enabled, whatever    *)
(* the process before it has left on the line and in the SAM.              *)
THEOREM SessionCleanHolds == MotorsSpec => SessionClean
  <1>1. ASSUME IInv, [MotorsNext]_allVars
        PROVE  [main = "acked" /\ main' = "idle" =>
                  /\ toSam = <<>> /\ toHost' = <<>> /\ ~spoilt
                  /\ \A p \in Pins : ~enabled[p] /\ ~shown[p]]_vars
    <2>. SUFFICES ASSUME main = "acked", main' = "idle"
                  PROVE  /\ toSam = <<>> /\ toHost' = <<>> /\ ~spoilt
                         /\ \A p \in Pins : ~enabled[p] /\ ~shown[p]
      OBVIOUS
    <2>1. main \notin Session /\ main' \in Session
      BY DEF Session
    <2>2. MotorsNext /\ TypeInv /\ Greeting
      BY <1>1 DEF allVars, vars, host, IInv
    <2>. QED BY <2>1, <2>2, SessionBegins, ResetRead DEF Quiet
  <1>. QED BY <1>1, Invariance, PTL DEF MotorsSpec, SessionClean

(* A motor turns as its last SetVelocity asked, once nothing is under way  *)
(* and the pulse has reached its set point.                                *)
THEOREM MotorObeysHolds == MotorsSpec => []MotorObeys
  <1>1. ASSUME IInv PROVE MotorObeys
    <2>. SUFFICES ASSUME velocity # None, main = "idle", todo = <<>>, toSam = <<>>,
                         st[Pulse].val = st[Pulse].set
                  PROVE  Turning = velocity
      BY DEF MotorObeys
    <2>0. /\ TypeInv /\ Motor /\ Len(todo) = 0 /\ Len(toSam) = 0 /\ main \in Session
          /\ velocity \in Velocities /\ velocity \in Int
      BY <1>1, VelocityFacts DEF IInv, TypeInv, Session
    <2>1. /\ Object(DirPin) /\ staging[DirPin].dir = "Out"
          /\ Object(Pulse) /\ staging[Pulse].val = Magnitude(velocity)
          /\ velocity > 0 => staging[DirPin].val = "Hi"
          /\ velocity < 0 => staging[DirPin].val = "Low"
      BY <2>0 DEF Motor, Will
    <2>2. Matches(DirPin) /\ Matches(Pulse)
      BY <1>1, <2>0, <2>1, MotorPins DEF IInv, Sets, Sought
    <2>3. st[DirPin].dir = "Out" /\ st[DirPin].val = staging[DirPin].val
      BY <2>1, <2>2, MotorPins DEF Matches
    <2>4. st[Pulse].val = Magnitude(velocity)
      BY <2>1, <2>2, MotorPins DEF Matches
    <2>5. duty[Pulse] = st[Pulse].val
      <3>1. Agreed(Pulse) /\ DrivenAs(Pulse)
        BY <1>1, <2>0, MotorPins DEF IInv, Protocol, Drives, Current, Waiting
      <3>2. enabled[Pulse]
        BY <2>1, <3>1 DEF Agreed, Held, Object
      <3>. QED BY <3>1, <3>2 DEF DrivenAs
    <2>6. st[DirPin] \in [dir : {"In", "Out"}, val : Levels]
      <3>1. DirPin \in Gpio /\ st[DirPin] \in States(DirPin)
        BY <2>0, MotorPins DEF TypeInv, DaemonTypes
      <3>2. States(DirPin) = [dir : {"In", "Out"}, val : Levels]
        BY <3>1, GpioFacts
      <3>. QED BY <3>1, <3>2
    <2>7. /\ st[DirPin] = [dir |-> "Out", val |-> st[DirPin].val]
          /\ st[DirPin].val \in {"Hi", "Low"}
      BY <2>3, <2>6 DEF Levels
    <2>8. Turning = IF st[DirPin].val = "Hi" THEN duty[Pulse] ELSE -duty[Pulse]
      <3>1. CASE st[DirPin].val = "Hi"
        <4>1. st[DirPin] = [dir |-> "Out", val |-> "Hi"]
          BY <2>7, <3>1
        <4>. QED BY <3>1, <4>1 DEF Turning
      <3>2. CASE st[DirPin].val = "Low"
        <4>1. st[DirPin] = [dir |-> "Out", val |-> "Low"]
          BY <2>7, <3>2
        <4>2. st[DirPin] # [dir |-> "Out", val |-> "Hi"]
          BY <3>2
        <4>. QED BY <3>2, <4>1, <4>2 DEF Turning
      <3>. QED BY <2>7, <3>1, <3>2
    <2>9. CASE velocity > 0
      BY <2>0, <2>1, <2>3, <2>4, <2>5, <2>8, <2>9 DEF Magnitude
    <2>10. CASE velocity < 0
      BY <2>0, <2>1, <2>3, <2>4, <2>5, <2>8, <2>10 DEF Magnitude
    <2>11. CASE velocity = 0
      <3>1. Magnitude(velocity) = 0
        BY <2>11 DEF Magnitude
      <3>2. duty[Pulse] = 0
        BY <2>4, <2>5, <3>1
      <3>3. duty[Pulse] \in Int /\ duty[Pulse] <= 0 /\ 0 <= duty[Pulse]
        BY <3>2
      <3>4. -duty[Pulse] = 0
        <4>1. \A d \in Int : d <= 0 /\ 0 <= d => -d = 0
          OBVIOUS
        <4>. QED BY <3>3, <4>1
      <3>5. Turning = 0
        BY <2>8, <3>2, <3>4
      <3>. QED BY <2>11, <3>5
    <2>. QED BY <2>0, <2>9, <2>10, <2>11
  <1>. QED BY <1>1, Invariance, PTL

=============================================================================
