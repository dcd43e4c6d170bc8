---------------------------- MODULE MC_ClawDrive ----------------------------
(* Instances of ClawDrive for TLC.  Arguments outside ValidateInput's range *)
(* are offered too.                                                         *)
EXTENDS ClawDrive

CONSTANTS tcp, dog
Running    == {0, 127}
Still      == {0}
NoThread   == {}
TcpThread  == {tcp}
DogThread  == {dog}
AllSpeeds  == {-1, 0, 55, 100, 101}
AllHeadings == -1..9
FewSpeeds  == {100}
FewHeadings == {0, 3}
OneHeading == {3}
ZeroSpeed  == {0}
=============================================================================
