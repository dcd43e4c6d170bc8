-------------------------- MODULE MC_Configuration --------------------------
(* Instances of Configuration for TLC.                                     *)
EXTENDS Configuration

CONSTANTS drive, claw, tcp, key
TagSet       == {drive, claw, tcp}
KeySet       == {key}
SectionOrder == <<drive, tcp>>
=============================================================================
