---------------------------- MODULE MC_TcpServer ----------------------------
(* Instances of TcpServer for TLC.                                         *)
EXTENDS TcpServer

CONSTANTS n1, n2
TwoConns   == {n1, n2}
SomeLines  == {"ping", "cmd", "other", "bad"}
FewLines   == {"ping", "cmd"}
MixedLines == {"ping", "cmd", "empty"}
=============================================================================
