------------------------------- MODULE MC_Sam -------------------------------
(* Instances of SamMotors for TLC.                                         *)
EXTENDS SamMotors

CONSTANTS g1, g2, a1, p1
Gpios      == {g1, g2}
Adcs       == {a1}
Pwms       == {p1}
Visits     == <<g1, g2, a1, p1>>
Analog     == {0, 10}
SpeedSet   == {0, 2}
RampSet    == {-1, 1}
ThreshSet  == {0, 5, 100}
DirectPins == {g1, a1}
AllPrograms == {<<"none", 3>>, <<"lite", 4>>, <<"vhn2", 3>>}
=============================================================================
