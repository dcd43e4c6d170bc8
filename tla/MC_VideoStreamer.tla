-------------------------- MODULE MC_VideoStreamer --------------------------
(* Instances of VideoStreamer for TLC.                                     *)
EXTENDS VideoStreamer

Ids       == 1..5
CpuShares == {0, 3, 5}
=============================================================================
