--------------------------- MODULE VideoStreamer ----------------------------
(***************************************************************************)
(* clank/lib/module/VideoStreamer/VideoStreamer.cpp: a child process runs  *)
(* the script that starts mjpg_streamer; StopStream kills the processes    *)
(* that StartStream has found.  The process table is a function of process *)
(* ids, of which there are a few.                                          *)
(***************************************************************************)
EXTENDS Integers, Sequences

CONSTANTS Pids,   \* process ids, positive
          Robot,  \* that of the robot
          Shares  \* what %CPU of ps aux may be, without its decimals

VARIABLES
  runs,      \* robot, child, streamer, other (somebody else's) or none
  stage,     \* off, forked (sleep(3)), on, killing or stopped
  PID, killVals, isStream,
  killed     \* how many of killVals have been killed

vars == <<runs, stage, PID, killVals, isStream, killed>>

Init == /\ runs \in [Pids -> {"robot", "other", "none"}]
        /\ \A p \in Pids : runs[p] = "robot" <=> p = Robot
        /\ stage = "off" /\ PID = 0 /\ killVals = <<>> /\ isStream = FALSE
        /\ killed = 0

Running(what) == {p \in Pids : runs[p] = what}
Alive         == runs[Robot] = "robot"

(* Stream: fork, which may fail.                                           *)
Fork == /\ Alive /\ stage = "off" /\ stage' = "forked"
        /\ \/ \E p \in Running("none") :
                PID' = p /\ runs' = [runs EXCEPT ![p] = "child"]
           \/ PID' = -1 /\ UNCHANGED runs
        /\ UNCHANGED <<killVals, isStream, killed>>

(* The child: system("start.sh"), which returns only when mjpg_streamer    *)
(* ends; then it sleeps for ever.                                          *)
ChildStarts == /\ Running("child") # {} /\ Running("streamer") = {}
               /\ stage \in {"forked", "on"}
               /\ \E p \in Running("none") : runs' = [runs EXCEPT ![p] = "streamer"]
               /\ UNCHANGED <<stage, PID, killVals, isStream, killed>>

(* ps aux: its third column is kept, which is the share of the CPU.        *)
FindPIDs ==
  /\ Alive /\ stage = "forked" /\ stage' = "on" /\ isStream' = TRUE
  /\ IF Running("streamer") = {} THEN killVals' = <<>>
     ELSE \E share \in Shares : killVals' = <<share>>
  /\ UNCHANGED <<runs, PID, killed>>

(* kill -9: 0 is the robot's process group, -1 everything.                 *)
Hit(v) == CASE v = 0  -> {p \in Pids : runs[p] \in {"robot", "child", "streamer"}}
            [] v = -1 -> Pids
            [] OTHER  -> Pids \cap {v}

Kill(v) == runs' = [p \in Pids |-> IF p \in Hit(v) THEN "none" ELSE runs[p]]

StopStream == /\ Alive /\ stage = "on" /\ stage' = "killing"
              /\ Kill(PID)
              /\ UNCHANGED <<PID, killVals, isStream, killed>>

KillNext == /\ Alive /\ stage = "killing" /\ killed < Len(killVals)
            /\ Kill(killVals[killed + 1]) /\ killed' = killed + 1
            /\ UNCHANGED <<stage, PID, killVals, isStream>>

Stopped == /\ Alive /\ stage = "killing" /\ killed = Len(killVals)
           /\ stage' = "stopped" /\ isStream' = FALSE
           /\ UNCHANGED <<runs, PID, killVals, killed>>

Next == Fork \/ ChildStarts \/ FindPIDs \/ StopStream \/ KillNext \/ Stopped

Spec == Init /\ [][Next]_vars

-----------------------------------------------------------------------------
(* "Should be dead...": when StopStream is about to return, the streamer   *)
(* that StartStream found is not running any more.                         *)
StreamIsDead == stage = "stopped" /\ killVals # <<>> => Running("streamer") = {}
=============================================================================
